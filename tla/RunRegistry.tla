----------------------------- MODULE RunRegistry -----------------------------
(***************************************************************************)
(* What the registry of running agents promises, with no connection, task  *)
(* or stream in sight: a run is armed (listed and stoppable) before its    *)
(* process exists, stays armed as long as the process exists, unless the   *)
(* run's stream breaks or the core exits, is released once, and is         *)
(* reported finished only after that.                                      *)
(***************************************************************************)
CONSTANT Runs

VARIABLES
  phase,      \* "fresh", "armed" (in the list of running agents) or "released"
  process,    \* "none", "alive" or "dead"
  watched,    \* the runs whose client is still connected
  reported,   \* the runs whose client was told "done"
  broken      \* the runs a frame of which could not be written

vars == <<phase, process, watched, reported, broken>>

Init ==
  /\ phase = [r \in Runs |-> "fresh"]
  /\ process = [r \in Runs |-> "none"]
  /\ watched = Runs
  /\ reported = {}
  /\ broken = {}

Arm(r) ==
  /\ phase[r] = "fresh"
  /\ phase' = [phase EXCEPT ![r] = "armed"]
  /\ UNCHANGED <<process, watched, reported, broken>>

Spawn(r) ==
  /\ phase[r] = "armed"
  /\ process[r] = "none"
  /\ process' = [process EXCEPT ![r] = "alive"]
  /\ UNCHANGED <<phase, watched, reported, broken>>

Die(r) ==
  /\ process[r] = "alive"
  /\ process' = [process EXCEPT ![r] = "dead"]
  /\ UNCHANGED <<phase, watched, reported, broken>>

Release(r) ==
  /\ phase[r] = "armed"
  /\ process[r] # "alive"
  /\ phase' = [phase EXCEPT ![r] = "released"]
  /\ UNCHANGED <<process, watched, reported, broken>>

\* A run's stream breaks, after its spawn: the run is released, whatever its process does.
Break(r) ==
  /\ phase[r] = "armed"
  /\ process[r] # "none"
  /\ phase' = [phase EXCEPT ![r] = "released"]
  /\ broken' = broken \cup {r}
  /\ UNCHANGED <<process, watched, reported>>

Report(r) ==
  /\ phase[r] = "released"
  /\ r \in watched
  /\ process[r] = "alive" => r \in broken
  /\ reported' = reported \cup {r}
  /\ UNCHANGED <<phase, process, watched, broken>>

\* A client leaves: its runs, begun or not, are watched no more.
Unwatch(S) ==
  /\ watched' = watched \ S
  /\ UNCHANGED <<phase, process, reported, broken>>

\* The core exits: the whole registry is lost and nobody watches what was armed.
Lose ==
  /\ phase' = [r \in Runs |-> IF phase[r] = "armed" THEN "released" ELSE phase[r]]
  /\ watched' \in SUBSET watched
  /\ \A r \in Runs : phase[r] = "armed" => r \notin watched'
  /\ UNCHANGED <<process, reported, broken>>

Next ==
  \/ \E r \in Runs : Arm(r) \/ Spawn(r) \/ Die(r) \/ Release(r) \/ Break(r) \/ Report(r)
  \/ \E S \in SUBSET Runs : Unwatch(S)
  \/ Lose

Spec == Init /\ [][Next]_vars
=============================================================================
