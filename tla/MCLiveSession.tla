---------------------------- MODULE MCLiveSession ----------------------------
(* LiveSession on small instances.                                          *)
EXTENDS LiveSession, TLC

CONSTANTS f1, f2, b1, b2
=============================================================================
