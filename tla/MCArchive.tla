----------------------------- MODULE MCArchive -----------------------------
EXTENDS Archive, TLC

CONSTANTS s1, s2, m1, m2, t1
=============================================================================
