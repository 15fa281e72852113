----------------------------- MODULE EventStream -----------------------------
(***************************************************************************)
(* How events reach the app: the core's event bus (a broadcast ring that   *)
(* overwrites its oldest event), the forwarder of each subscription, the   *)
(* frames of the connection, which the forwarder shares with the runs, the *)
(* client's bounded buffer of events, and the app's main actor.            *)
(*                                                                         *)
(* Events and run frames are numbers in the order they were made.  A ring  *)
(* is a cursor: it still holds the newest RingCap events.                  *)
(***************************************************************************)
EXTENDS Naturals, Sequences, FiniteSets

CONSTANTS
  Clients,     \* connections of the app
  RingCap,     \* events the bus keeps (1024)
  BufferCap,   \* frames the client keeps for the main actor (256)
  MaxEvents,   \* bound: events published
  MaxFrames,   \* bound: frames of runs on one connection
  NotJoined    \* no position yet

ASSUME StreamAssumption ==
  /\ RingCap \in Nat \ {0}
  /\ BufferCap \in Nat \ {0}
  /\ MaxEvents \in Nat
  /\ MaxFrames \in Nat
  /\ NotJoined \notin Nat

VARIABLES
  published,  \* events published so far
  link,       \* a connection: "open", "cut" by the core or "left" by the app
  stage,      \* its subscription: "none", "acking" (receiver made) or "forwarding"
  joined,     \* the last event before its receiver was made
  next,       \* the next event its receiver takes
  held,       \* the event its forwarder took and has not written, or 0
  lagged,     \* events its receiver skipped, which nobody is told of
  written,    \* frames of runs written to it
  wire,       \* frames in the socket and in the client's inbound queue
  ackAt,      \* events published when the client had its acknowledgement
  buffer,     \* the client's stream of events
  dropped,    \* droppedEventCount
  seen        \* frames the main actor handled

forwarder == <<stage, joined, next, held, lagged>>
app == <<ackAt, buffer, dropped, seen>>
vars == <<published, link, stage, joined, next, held, lagged, written, wire, ackAt,
          buffer, dropped, seen>>

Frames == [kind : {"ack", "event", "run"}, n : Nat]
Frame(kind, n) == [kind |-> kind, n |-> n]

Init ==
  /\ published = 0
  /\ link = [c \in Clients |-> "open"]
  /\ stage = [c \in Clients |-> "none"]
  /\ joined = [c \in Clients |-> NotJoined]
  /\ next = [c \in Clients |-> 0]
  /\ held = [c \in Clients |-> 0]
  /\ lagged = [c \in Clients |-> 0]
  /\ written = [c \in Clients |-> 0]
  /\ wire = [c \in Clients |-> <<>>]
  /\ ackAt = [c \in Clients |-> NotJoined]
  /\ buffer = [c \in Clients |-> <<>>]
  /\ dropped = [c \in Clients |-> 0]
  /\ seen = [c \in Clients |-> {}]

-----------------------------------------------------------------------------
(* The core.                                                               *)

\* A handler changed the settings or added a session.  Without a receiver the event is
\* gone; a later receiver begins after it either way.
Publish ==
  /\ published < MaxEvents
  /\ published' = published + 1
  /\ UNCHANGED <<link, forwarder, written, wire, app>>

\* events.subscribe: the receiver is made before the acknowledgement.
Subscribe(c) ==
  /\ link[c] = "open"
  /\ stage[c] = "none"
  /\ stage' = [stage EXCEPT ![c] = "acking"]
  /\ joined' = [joined EXCEPT ![c] = published]
  /\ next' = [next EXCEPT ![c] = published + 1]
  /\ UNCHANGED <<published, link, held, lagged, written, wire, app>>

\* The acknowledgement is written, the forwarder started.
Acknowledge(c) ==
  /\ link[c] = "open"
  /\ stage[c] = "acking"
  /\ wire' = [wire EXCEPT ![c] = Append(@, Frame("ack", 0))]
  /\ stage' = [stage EXCEPT ![c] = "forwarding"]
  /\ UNCHANGED <<published, link, joined, next, held, lagged, written, app>>

\* The oldest event the ring still holds, as long as it holds any.
Oldest == IF published > RingCap THEN published - RingCap + 1 ELSE 1

\* Mutant: the forwarder makes its receiver itself, when it first runs.
Receive_Joins(c) ==
  /\ link[c] = "open"
  /\ stage[c] = "forwarding"
  /\ held[c] = 0
  /\ next[c] \in Oldest..published
  /\ held' = [held EXCEPT ![c] = IF next[c] = joined[c] + 1 THEN published ELSE next[c]]
  /\ next' = [next EXCEPT ![c] = held'[c] + 1]
  /\ UNCHANGED <<published, link, stage, joined, lagged, written, wire, app>>

\* The forwarder takes its next event.
Receive(c) ==
  /\ link[c] = "open"
  /\ stage[c] = "forwarding"
  /\ held[c] = 0
  /\ next[c] \in Oldest..published
  /\ held' = [held EXCEPT ![c] = next[c]]
  /\ next' = [next EXCEPT ![c] = @ + 1]
  /\ UNCHANGED <<published, link, stage, joined, lagged, written, wire, app>>

\* Mutant: a receiver that lags is taken for a closed bus.
Lag_Ends(c) ==
  /\ link[c] = "open"
  /\ stage[c] = "forwarding"
  /\ held[c] = 0
  /\ next[c] < Oldest
  /\ stage' = [stage EXCEPT ![c] = "ended"]
  /\ UNCHANGED <<published, link, joined, next, held, lagged, written, wire, app>>

\* What it wanted is overwritten: it goes on with the oldest event there is.
Lag(c) ==
  /\ link[c] = "open"
  /\ stage[c] = "forwarding"
  /\ held[c] = 0
  /\ next[c] < Oldest
  /\ lagged' = [lagged EXCEPT ![c] = @ + (Oldest - next[c])]
  /\ next' = [next EXCEPT ![c] = Oldest]
  /\ UNCHANGED <<published, link, stage, joined, held, written, wire, app>>

Forward(c) ==
  /\ link[c] = "open"
  /\ held[c] # 0
  /\ wire' = [wire EXCEPT ![c] = Append(@, Frame("event", held[c]))]
  /\ held' = [held EXCEPT ![c] = 0]
  /\ UNCHANGED <<published, link, stage, joined, next, lagged, written, app>>

\* A run's forwarder writes a frame through the same writer.
RunWrites(c) ==
  /\ link[c] = "open"
  /\ written[c] < MaxFrames
  /\ written' = [written EXCEPT ![c] = @ + 1]
  /\ wire' = [wire EXCEPT ![c] = Append(@, Frame("run", written[c] + 1))]
  /\ UNCHANGED <<published, link, forwarder, app>>

\* The core ends or closes the connection: its forwarders are aborted, and what was
\* written still arrives.
Cut(c) ==
  /\ link[c] = "open"
  /\ link' = [link EXCEPT ![c] = "cut"]
  /\ UNCHANGED <<published, forwarder, written, wire, app>>

-----------------------------------------------------------------------------
(* The app.                                                                *)

\* Mutant: what does not fit is dropped and not counted.
Yield_Uncounted(c, f) ==
  IF Len(buffer[c]) < BufferCap
  THEN /\ buffer' = [buffer EXCEPT ![c] = Append(@, f)]
       /\ UNCHANGED dropped
  ELSE /\ buffer' = [buffer EXCEPT ![c] = Append(Tail(@), f)]
       /\ UNCHANGED dropped

\* Mutant: the buffer is not bounded.
Yield_Unbounded(c, f) ==
  /\ buffer' = [buffer EXCEPT ![c] = Append(@, f)]
  /\ UNCHANGED dropped

\* yieldEvent: a full buffer gives up its oldest frame, and counts it.
Yield(c, f) ==
  IF Len(buffer[c]) < BufferCap
  THEN /\ buffer' = [buffer EXCEPT ![c] = Append(@, f)]
       /\ UNCHANGED dropped
  ELSE /\ buffer' = [buffer EXCEPT ![c] = Append(Tail(@), f)]
       /\ dropped' = [dropped EXCEPT ![c] = @ + 1]

\* Mutant: each frame is dispatched by a task of its own, so that one may overtake.
Dispatch_Tasks(c) ==
  /\ link[c] # "left"
  /\ \E i \in 1..Len(wire[c]) :
       /\ wire' = [wire EXCEPT ![c] = SubSeq(@, 1, i - 1) \o SubSeq(@, i + 1, Len(@))]
       /\ LET f == wire[c][i] IN
            IF f.kind = "ack"
            THEN /\ ackAt' = [ackAt EXCEPT ![c] = published]
                 /\ UNCHANGED <<buffer, dropped>>
            ELSE /\ Yield(c, f)
                 /\ UNCHANGED ackAt
  /\ UNCHANGED <<published, link, forwarder, written, seen>>

\* The client's actor takes the next frame: the acknowledgement resumes its caller,
\* everything else is for the stream.
Dispatch(c) ==
  /\ link[c] # "left"
  /\ wire[c] # <<>>
  /\ wire' = [wire EXCEPT ![c] = Tail(@)]
  /\ LET f == Head(wire[c]) IN
       IF f.kind = "ack"
       THEN /\ ackAt' = [ackAt EXCEPT ![c] = published]
            /\ UNCHANGED <<buffer, dropped>>
       ELSE /\ Yield(c, f)
            /\ UNCHANGED ackAt
  /\ UNCHANGED <<published, link, forwarder, written, seen>>

\* The consumer on the main actor handles a frame; it also empties what a closed
\* connection left behind.
Handle(c) ==
  /\ link[c] # "left"
  /\ buffer[c] # <<>>
  /\ seen' = [seen EXCEPT ![c] = @ \cup {Head(buffer[c])}]
  /\ buffer' = [buffer EXCEPT ![c] = Tail(@)]
  /\ UNCHANGED <<published, link, forwarder, written, wire, ackAt, dropped>>

\* disconnect(): the consumer is cancelled before the link goes down.
Leave(c) ==
  /\ link[c] # "left"
  /\ link' = [link EXCEPT ![c] = "left"]
  /\ UNCHANGED <<published, forwarder, written, wire, app>>

-----------------------------------------------------------------------------
Core(c) ==
  Subscribe(c) \/ Acknowledge(c) \/ Receive(c) \/ Lag(c) \/ Forward(c) \/ RunWrites(c)
    \/ Cut(c)

Next == Publish \/ \E c \in Clients : Core(c) \/ Dispatch(c) \/ Handle(c) \/ Leave(c)

Spec == Init /\ [][Next]_vars

\* The forwarder's task, the read thread with its consumer, and the main actor run.
Fairness ==
  \A c \in Clients :
    /\ WF_vars(Receive(c)) /\ WF_vars(Lag(c)) /\ WF_vars(Forward(c))
    /\ WF_vars(Dispatch(c)) /\ WF_vars(Handle(c))

FairSpec == Spec /\ Fairness

-----------------------------------------------------------------------------
\* Every variable has its type, and the client's buffer keeps its bound.
TypeOK ==
  /\ published \in Nat
  /\ link \in [Clients -> {"open", "cut", "left"}]
  /\ stage \in [Clients -> {"none", "acking", "forwarding"}]
  /\ joined \in [Clients -> Nat \cup {NotJoined}]
  /\ next \in [Clients -> Nat]
  /\ held \in [Clients -> Nat]
  /\ lagged \in [Clients -> Nat]
  /\ written \in [Clients -> Nat]
  /\ wire \in [Clients -> Seq(Frames)]
  /\ ackAt \in [Clients -> Nat \cup {NotJoined}]
  /\ buffer \in [Clients -> Seq(Frames)]
  /\ \A c \in Clients : Len(buffer[c]) <= BufferCap
  /\ dropped \in [Clients -> Nat]
  /\ seen \in [Clients -> SUBSET Frames]

\* Frames made for a client and not yet given to its main actor.
Waiting(c) ==
  (IF held[c] # 0 THEN 1 ELSE 0) + Len(wire[c]) + Len(buffer[c])

\* Every frame made for a client: its acknowledgement, its events, its runs' frames.
Made(c) ==
  (IF stage[c] = "forwarding" THEN 1 ELSE 0)
    + (IF joined[c] = NotJoined THEN 0 ELSE next[c] - 1 - joined[c]) + written[c]

\* The client's count of dropped frames is exact: with it, and with what the receiver
\* skipped, every frame made is accounted for at every moment, over four queues
\* (IpcClient's droppedEventCount, "rather than silently losing updates").
DropsAreCounted ==
  \A c \in Clients :
    Made(c) = Waiting(c) + Cardinality(seen[c]) + lagged[c] + dropped[c]
                + (IF ackAt[c] # NotJoined THEN 1 ELSE 0)

\* The events on their way to client c's main actor, or still to be taken.
OnTheWay(c) ==
  {held[c]} \cup (next[c]..published)
    \cup {f.n : f \in {g \in {wire[c][i] : i \in 1..Len(wire[c])}
                               \cup {buffer[c][i] : i \in 1..Len(buffer[c])} :
                         g.kind = "event"}}

SeenNumbers(c, kind) == {f.n : f \in {g \in seen[c] : g.kind = kind}}

\* A client that lost nothing to a full ring or buffer misses no event published after
\* it had its acknowledgement: the receiver existed before ("subscribe BEFORE acking").
KeptUpMissesNothing ==
  \A c \in Clients :
    ackAt[c] # NotJoined /\ lagged[c] = 0 /\ dropped[c] = 0
      => (ackAt[c] + 1)..published \subseteq SeenNumbers(c, "event") \cup OnTheWay(c)

\* Both streams of a connection keep the promise of Feed: no event and no frame of a run
\* overtakes another or comes from nowhere.
Bus == INSTANCE Feed WITH
  Subscribers <- Clients, sent <- [c \in Clients |-> published],
  got <- [c \in Clients |-> SeenNumbers(c, "event")]

Run == INSTANCE Feed WITH
  Subscribers <- Clients, sent <- written, joined <- [c \in Clients |-> 0],
  got <- [c \in Clients |-> SeenNumbers(c, "run")]

ImplementsFeed == Bus!Spec /\ Run!Spec

\* An event published while a client is subscribed reaches its main actor, unless the
\* client loses something or goes.
EventsArrive ==
  \A c \in Clients, n \in 1..MaxEvents :
    (stage[c] = "forwarding" /\ joined[c] < n /\ n <= published)
      ~> (n \in SeenNumbers(c, "event") \/ lagged[c] + dropped[c] > 0 \/ link[c] # "open")
=============================================================================
