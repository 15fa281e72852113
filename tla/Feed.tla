--------------------------------- MODULE Feed ---------------------------------
(***************************************************************************)
(* What a live stream promises its subscribers: each sees some of what was *)
(* sent after it joined, in the order in which it was sent, and nothing    *)
(* else.                                                                   *)
(***************************************************************************)
EXTENDS Naturals

CONSTANTS Subscribers, NotJoined

VARIABLES
  sent,    \* how many items were sent towards a subscriber, numbered from 1
  joined,  \* the last item before it joined, or NotJoined
  got      \* the items it was given

vars == <<sent, joined, got>>

Init ==
  /\ sent = [s \in Subscribers |-> 0]
  /\ joined \in [Subscribers -> {0, NotJoined}]
  /\ got = [s \in Subscribers |-> {}]

\* One more item for the subscribers in S.
Send(S) ==
  /\ sent' = [s \in Subscribers |-> IF s \in S THEN sent[s] + 1 ELSE sent[s]]
  /\ UNCHANGED <<joined, got>>

Join(s) ==
  /\ joined[s] = NotJoined
  /\ joined' = [joined EXCEPT ![s] = sent[s]]
  /\ UNCHANGED <<sent, got>>

Give(s, n) ==
  /\ joined[s] # NotJoined
  /\ n > joined[s] /\ n <= sent[s]
  /\ \A m \in got[s] : m < n
  /\ got' = [got EXCEPT ![s] = @ \cup {n}]
  /\ UNCHANGED <<sent, joined>>

Next ==
  \/ \E S \in SUBSET Subscribers : Send(S)
  \/ \E s \in Subscribers : Join(s) \/ \E n \in 1..sent[s] : Give(s, n)

Spec == Init /\ [][Next]_vars
=============================================================================
