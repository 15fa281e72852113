---------------------------- MODULE MCRequestLink ----------------------------
(* RequestLink on small instances.                                          *)
EXTENDS RequestLink, TLC

CONSTANTS k1, k2
=============================================================================
