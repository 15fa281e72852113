---------------------------- MODULE MCStateFiles -----------------------------
(* StateFiles on small instances.                                           *)
EXTENDS StateFiles, TLC

CONSTANTS n1, n2, n3, t1, t2, t3, m1, m2, m3, c1, c2, c3, s1, s2, d1, d2, a1, a2, a3, a4
=============================================================================
