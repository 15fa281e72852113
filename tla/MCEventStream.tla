---------------------------- MODULE MCEventStream ----------------------------
(* EventStream on small instances.                                          *)
EXTENDS EventStream, TLC

CONSTANTS c1, c2
=============================================================================
