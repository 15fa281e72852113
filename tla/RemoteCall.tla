----------------------------- MODULE RemoteCall ------------------------------
(***************************************************************************)
(* What the request link promises its callers, with no socket, timer or    *)
(* queue in sight: a call returns once, it returns an answer only after    *)
(* its own request was performed, and a request is performed at most once  *)
(* and never unless it was made.  A call that fails promises nothing about *)
(* its request: it may be performed before, after or never.                *)
(***************************************************************************)
CONSTANT Calls

VARIABLES
  call,      \* "idle", "waiting", "answered" or "failed"
  performed  \* the calls whose request was carried out

vars == <<call, performed>>

Init ==
  /\ call = [k \in Calls |-> "idle"]
  /\ performed = {}

\* A call on a link that is down fails at once.
Begin(k) ==
  /\ call[k] = "idle"
  /\ \E first \in {"waiting", "failed"} : call' = [call EXCEPT ![k] = first]
  /\ UNCHANGED performed

Perform(k) ==
  /\ call[k] # "idle"
  /\ k \notin performed
  /\ performed' = performed \cup {k}
  /\ UNCHANGED call

Answer(k) ==
  /\ call[k] = "waiting"
  /\ k \in performed
  /\ call' = [call EXCEPT ![k] = "answered"]
  /\ UNCHANGED performed

\* One reason may fail many calls: the link goes down.
Fail(S) ==
  /\ \A k \in S : call[k] = "waiting"
  /\ call' = [k \in Calls |-> IF k \in S THEN "failed" ELSE call[k]]
  /\ UNCHANGED performed

Next ==
  \/ \E k \in Calls : Begin(k) \/ Perform(k) \/ Answer(k)
  \/ \E S \in SUBSET Calls : Fail(S)

Spec == Init /\ [][Next]_vars
=============================================================================
