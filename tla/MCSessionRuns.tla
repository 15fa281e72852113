---------------------------- MODULE MCSessionRuns ----------------------------
(***************************************************************************)
(* Small instances of SessionRuns for the model checker.                   *)
(***************************************************************************)
EXTENDS SessionRuns, TLC

CONSTANTS r1, r2, c1, c2

ConnSymmetry == Permutations(Conns)

=============================================================================
