----------------------------- MODULE MCCoreWatch -----------------------------
(* CoreWatch on small instances.                                            *)
EXTENDS CoreWatch, TLC

CONSTANTS p1, p2, x1, x2, watch, click
=============================================================================
