-------------------------- MODULE EventStreamProofs --------------------------
(***************************************************************************)
(* Proofs about EventStream for any number of connections, any size of the *)
(* ring and of the client's buffer: types, the order of frames over the    *)
(* four places they pass, the count of what is dropped, that every event   *)
(* goes on to the main actor, and that both streams of a connection        *)
(* implement Feed.                                                         *)
(***************************************************************************)
EXTENDS EventStream, FiniteSetTheorems, TLAPS

USE StreamAssumption

\* Where a connection's forwarder can be: its receiver exists from the subscription on,
\* and what the forwarder holds is its last event.
Placed(c) ==
  /\ joined[c] = NotJoined <=> stage[c] = "none"
  /\ stage[c] # "none" => /\ joined[c] \in Nat
                          /\ joined[c] < next[c]
                          /\ next[c] <= published + 1
  /\ held[c] # 0 => /\ stage[c] = "forwarding"
                    /\ joined[c] < held[c]
                    /\ held[c] < next[c]

\* What a frame's number can be.
Known(c, f) ==
  /\ f.kind = "event" => /\ stage[c] = "forwarding"
                         /\ joined[c] < f.n
                         /\ f.n < next[c]
                         /\ held[c] # 0 => f.n < held[c]
  /\ f.kind = "run" => 0 < f.n /\ f.n <= written[c]

AllKnown(c) ==
  /\ \A i \in 1..Len(wire[c]) : Known(c, wire[c][i])
  /\ \A i \in 1..Len(buffer[c]) : Known(c, buffer[c][i]) /\ buffer[c][i].kind # "ack"
  /\ \A f \in seen[c] : Known(c, f) /\ f.kind # "ack"

\* Frame f was made before g, if they are of one kind.
Before(f, g) == f.kind = g.kind /\ f.kind # "ack" => f.n < g.n

InOrder(c) ==
  /\ \A i, j \in 1..Len(wire[c]) : i < j => Before(wire[c][i], wire[c][j])
  /\ \A i, j \in 1..Len(buffer[c]) : i < j => Before(buffer[c][i], buffer[c][j])
  /\ \A i \in 1..Len(buffer[c]), j \in 1..Len(wire[c]) : Before(buffer[c][i], wire[c][j])
  /\ \A f \in seen[c], i \in 1..Len(buffer[c]) : Before(f, buffer[c][i])
  /\ \A f \in seen[c], i \in 1..Len(wire[c]) : Before(f, wire[c][i])

\* There is one acknowledgement.
OneAck(c) ==
  /\ \A i \in 1..Len(wire[c]) :
       wire[c][i].kind = "ack" =>
         /\ ackAt[c] = NotJoined
         /\ stage[c] = "forwarding"
         /\ \A j \in 1..Len(wire[c]) : wire[c][j].kind = "ack" => i = j
  /\ ackAt[c] # NotJoined => stage[c] = "forwarding" /\ joined[c] <= ackAt[c]

\* The parts of Made and Waiting.
AckMade(c) == IF stage[c] = "forwarding" THEN 1 ELSE 0
AckSeen(c) == IF ackAt[c] # NotJoined THEN 1 ELSE 0
Taken(c) == IF joined[c] = NotJoined THEN 0 ELSE next[c] - 1 - joined[c]
Holds(c) == IF held[c] # 0 THEN 1 ELSE 0

Given(c) == AckMade(c) + Taken(c) + written[c]
Queued(c) == Holds(c) + Len(wire[c]) + Len(buffer[c])
Ended(c) == Cardinality(seen[c]) + dropped[c] + AckSeen(c)

\* Each frame made is in one of its places, or was lost and counted.
Counted(c) ==
  /\ IsFiniteSet(seen[c])
  /\ Given(c) = Queued(c) + Ended(c) + lagged[c]

\* Event n was taken from the ring and is still in one of its places.
Around(c, n) ==
  \/ n = held[c]
  \/ \E i \in 1..Len(wire[c]) : wire[c][i].kind = "event" /\ wire[c][i].n = n
  \/ \E i \in 1..Len(buffer[c]) : buffer[c][i].kind = "event" /\ buffer[c][i].n = n
  \/ \E f \in seen[c] : f.kind = "event" /\ f.n = n

Complete(c) ==
  stage[c] # "none" /\ lagged[c] = 0 /\ dropped[c] = 0
    => \A n \in Nat : joined[c] < n /\ n < next[c] => Around(c, n)

-----------------------------------------------------------------------------
(* Sequences.                                                              *)

LEMMA TailFacts ==
  ASSUME NEW S, NEW s \in Seq(S), s # <<>>
  PROVE  /\ Len(s) \in Nat /\ Len(s) >= 1 /\ Head(s) = s[1] /\ s[1] \in S
         /\ Tail(s) \in Seq(S) /\ Len(Tail(s)) = Len(s) - 1
         /\ \A i \in 1..Len(Tail(s)) : Tail(s)[i] = s[i + 1] /\ i + 1 \in 2..Len(s)
         /\ \A i \in 2..Len(s) : Tail(s)[i - 1] = s[i] /\ i - 1 \in 1..Len(Tail(s))
<1>1. /\ Len(s) \in Nat /\ Len(s) >= 1 /\ Head(s) = s[1] /\ s[1] \in S
      /\ Tail(s) \in Seq(S) /\ Len(Tail(s)) = Len(s) - 1
  OBVIOUS
<1>2. \A i \in 1..(Len(s) - 1) : Tail(s)[i] = s[i + 1]
  OBVIOUS
<1>3. ASSUME NEW i \in 1..Len(Tail(s))
      PROVE  Tail(s)[i] = s[i + 1] /\ i + 1 \in 2..Len(s)
  BY <1>1, <1>2
<1>4. ASSUME NEW i \in 2..Len(s)
      PROVE  Tail(s)[i - 1] = s[i] /\ i - 1 \in 1..Len(Tail(s))
  <2>1. i - 1 \in 1..(Len(s) - 1) /\ (i - 1) + 1 = i
    BY <1>1
  <2> QED
    BY <1>1, <1>2, <2>1
<1> QED
  BY <1>1, <1>3, <1>4

LEMMA AppendFacts ==
  ASSUME NEW S, NEW s \in Seq(S), NEW x \in S
  PROVE  /\ Append(s, x) \in Seq(S)
         /\ Len(s) \in Nat /\ Len(Append(s, x)) = Len(s) + 1
         /\ Append(s, x)[Len(s) + 1] = x
         /\ \A i \in 1..Len(s) : Append(s, x)[i] = s[i]
         /\ \A i \in 1..(Len(s) + 1) : i \in 1..Len(s) \/ i = Len(s) + 1
OBVIOUS

LEMMA FrameType ==
  ASSUME NEW kind \in {"ack", "event", "run"}, NEW n \in Nat
  PROVE  /\ Frame(kind, n) \in Frames
         /\ Frame(kind, n).kind = kind /\ Frame(kind, n).n = n
BY DEF Frame, Frames

\* yieldEvent: the buffer loses its first k frames, none or one, and gains f.
LEMMA YieldFacts ==
  ASSUME TypeOK, NEW c \in Clients, NEW f \in Frames, Yield(c, f)
  PROVE  \E k \in {0, 1} :
           /\ buffer' \in [Clients -> Seq(Frames)] /\ dropped' \in [Clients -> Nat]
           /\ \A d \in Clients \ {c} : buffer'[d] = buffer[d] /\ dropped'[d] = dropped[d]
           /\ Len(buffer[c]) \in Nat
           /\ Len(buffer'[c]) = Len(buffer[c]) + 1 - k
           /\ Len(buffer'[c]) <= BufferCap
           /\ dropped'[c] = dropped[c] + k
           /\ buffer'[c][Len(buffer'[c])] = f
           /\ \A i \in 1..Len(buffer'[c]) :
                \/ i = Len(buffer'[c])
                \/ i + k \in 1..Len(buffer[c]) /\ buffer'[c][i] = buffer[c][i + k]
           /\ \A i \in 1..Len(buffer[c]) :
                i > k => i - k \in 1..Len(buffer'[c]) /\ buffer'[c][i - k] = buffer[c][i]
<1> DEFINE b == buffer[c]
<1>1. b \in Seq(Frames) /\ Len(b) \in Nat /\ Len(b) <= BufferCap /\ dropped[c] \in Nat
  BY DEF TypeOK
<1>2. CASE Len(b) < BufferCap
  <2>1. buffer' = [buffer EXCEPT ![c] = Append(b, f)] /\ dropped' = dropped
    BY <1>2 DEF Yield
  <2>2. buffer'[c] = Append(b, f) /\ Append(b, f) \in Seq(Frames)
    BY <1>1, <2>1 DEF TypeOK
  <2>3. /\ Len(buffer'[c]) = Len(b) + 1 /\ buffer'[c][Len(b) + 1] = f
        /\ \A i \in 1..Len(b) : buffer'[c][i] = b[i]
    BY <1>1, <2>2, AppendFacts
  <2>4. buffer' \in [Clients -> Seq(Frames)] /\ dropped' \in [Clients -> Nat]
    BY <2>1, <2>2 DEF TypeOK
  <2>5. \A d \in Clients \ {c} : buffer'[d] = buffer[d] /\ dropped'[d] = dropped[d]
    BY <2>1 DEF TypeOK
  <2> WITNESS 0 \in {0, 1}
  <2> QED
    BY <1>1, <1>2, <2>1, <2>3, <2>4, <2>5
<1>3. CASE ~(Len(b) < BufferCap)
  <2>1. /\ buffer' = [buffer EXCEPT ![c] = Append(Tail(b), f)]
        /\ dropped' = [dropped EXCEPT ![c] = @ + 1]
    BY <1>3 DEF Yield
  <2>2. Len(b) = BufferCap /\ b # <<>>
    BY <1>1, <1>3
  <2>3. /\ Tail(b) \in Seq(Frames) /\ Len(Tail(b)) = Len(b) - 1
        /\ \A i \in 1..(Len(b) - 1) : Tail(b)[i] = b[i + 1]
    <3>1. Len(Tail(b)) = Len(b) - 1
      BY <1>1, <2>2, TailFacts
    <3> QED
      BY <1>1, <2>2, <3>1, TailFacts
  <2>4. buffer'[c] = Append(Tail(b), f) /\ Append(Tail(b), f) \in Seq(Frames)
    BY <2>1, <2>3 DEF TypeOK
  <2>5. /\ Len(buffer'[c]) = Len(b) /\ buffer'[c][Len(b)] = f
        /\ \A i \in 1..(Len(b) - 1) : buffer'[c][i] = b[i + 1]
    BY <1>1, <2>3, <2>4, AppendFacts
  <2>6. buffer' \in [Clients -> Seq(Frames)] /\ dropped' \in [Clients -> Nat]
          /\ dropped'[c] = dropped[c] + 1
    BY <2>1, <2>4 DEF TypeOK
  <2>7. \A d \in Clients \ {c} : buffer'[d] = buffer[d] /\ dropped'[d] = dropped[d]
    BY <2>1 DEF TypeOK
  <2> WITNESS 1 \in {0, 1}
  <2> QED
    BY <1>1, <2>2, <2>5, <2>6, <2>7
<1> QED
  BY <1>2, <1>3

-----------------------------------------------------------------------------
(* Types.                                                                  *)

LEMMA TypeStep ==
  ASSUME TypeOK, [Next]_vars
  PROVE  TypeOK'
<1> USE DEF forwarder, app
<1>1. CASE Publish
  BY <1>1 DEF Publish, TypeOK
<1>2. ASSUME NEW c \in Clients, Subscribe(c) PROVE TypeOK'
  BY <1>2, SMTT(30) DEF Subscribe, TypeOK
<1>3. ASSUME NEW c \in Clients, Acknowledge(c) PROVE TypeOK'
  <2>1. Append(wire[c], Frame("ack", 0)) \in Seq(Frames)
    BY FrameType DEF TypeOK
  <2> QED
    BY <1>3, <2>1 DEF Acknowledge, TypeOK
<1>4. ASSUME NEW c \in Clients, Receive(c) PROVE TypeOK'
  BY <1>4, SMTT(30) DEF Receive, TypeOK
<1>5. ASSUME NEW c \in Clients, Lag(c) PROVE TypeOK'
  BY <1>5, SMTT(30) DEF Lag, TypeOK, Oldest
<1>6. ASSUME NEW c \in Clients, Forward(c) PROVE TypeOK'
  <2>1. Append(wire[c], Frame("event", held[c])) \in Seq(Frames)
    BY FrameType DEF TypeOK
  <2> QED
    BY <1>6, <2>1 DEF Forward, TypeOK
<1>7. ASSUME NEW c \in Clients, RunWrites(c) PROVE TypeOK'
  <2>1. Append(wire[c], Frame("run", written[c] + 1)) \in Seq(Frames)
    BY FrameType DEF TypeOK
  <2> QED
    BY <1>7, <2>1, SMTT(30) DEF RunWrites, TypeOK
<1>8. ASSUME NEW c \in Clients, Cut(c) \/ Leave(c) PROVE TypeOK'
  BY <1>8 DEF Cut, Leave, TypeOK
<1>9. ASSUME NEW c \in Clients, Dispatch(c) PROVE TypeOK'
  <2>1. wire[c] \in Seq(Frames) /\ wire[c] # <<>>
    BY <1>9 DEF Dispatch, TypeOK
  <2>2. Tail(wire[c]) \in Seq(Frames) /\ Head(wire[c]) \in Frames
    BY <2>1, TailFacts
  <2>3. wire' \in [Clients -> Seq(Frames)]
    BY <1>9, <2>2 DEF Dispatch, TypeOK
  <2>4. CASE Head(wire[c]).kind = "ack"
    BY <1>9, <2>3, <2>4 DEF Dispatch, TypeOK
  <2>5. CASE Head(wire[c]).kind # "ack"
    <3>1. Yield(c, Head(wire[c])) /\ ackAt' = ackAt
      BY <1>9, <2>5 DEF Dispatch
    <3>2. /\ buffer' \in [Clients -> Seq(Frames)] /\ dropped' \in [Clients -> Nat]
          /\ \A d \in Clients : Len(buffer'[d]) <= BufferCap
      BY <2>2, <3>1, YieldFacts DEF TypeOK
    <3> QED
      BY <1>9, <2>3, <3>1, <3>2 DEF Dispatch, TypeOK
  <2> QED
    BY <2>4, <2>5
<1>10. ASSUME NEW c \in Clients, Handle(c) PROVE TypeOK'
  <2>1. buffer[c] \in Seq(Frames) /\ buffer[c] # <<>>
    BY <1>10 DEF Handle, TypeOK
  <2>2. /\ Tail(buffer[c]) \in Seq(Frames) /\ Head(buffer[c]) \in Frames
        /\ Len(Tail(buffer[c])) <= BufferCap
    BY <2>1, TailFacts DEF TypeOK
  <2>3. buffer' \in [Clients -> Seq(Frames)] /\ \A d \in Clients : Len(buffer'[d]) <= BufferCap
    BY <1>10, <2>2 DEF Handle, TypeOK
  <2>4. seen' \in [Clients -> SUBSET Frames]
    BY <1>10, <2>2 DEF Handle, TypeOK
  <2> QED
    BY <1>10, <2>3, <2>4 DEF Handle, TypeOK
<1>11. CASE UNCHANGED vars
  BY <1>11 DEF vars, TypeOK
<1> QED
  BY <1>1, <1>2, <1>3, <1>4, <1>5, <1>6, <1>7, <1>8, <1>9, <1>10, <1>11 DEF Next, Core

\* Every variable keeps its type, and the client's buffer its bound (bufferingNewest).
THEOREM TypeCorrect == Spec => []TypeOK
<1>1. Init => TypeOK
  BY DEF Init, TypeOK
<1> QED
  BY <1>1, TypeStep, PTL DEF Spec

-----------------------------------------------------------------------------
(* One connection at a time.                                               *)

\* Nothing of connection c changes.
Same(c) ==
  /\ stage'[c] = stage[c] /\ joined'[c] = joined[c] /\ next'[c] = next[c]
  /\ held'[c] = held[c] /\ lagged'[c] = lagged[c] /\ written'[c] = written[c]
  /\ wire'[c] = wire[c] /\ ackAt'[c] = ackAt[c] /\ buffer'[c] = buffer[c]
  /\ dropped'[c] = dropped[c] /\ seen'[c] = seen[c]

\* A step that changes something of connection c.
Acts(c) ==
  \/ Subscribe(c) \/ Acknowledge(c) \/ Receive(c) \/ Lag(c) \/ Forward(c)
  \/ RunWrites(c) \/ Dispatch(c) \/ Handle(c)

\* A step leaves a connection alone or is one of its own.
LEMMA OneConnection ==
  ASSUME TypeOK, [Next]_vars, NEW c \in Clients
  PROVE  /\ published' \in Nat /\ published <= published'
         /\ Same(c) \/ (Acts(c) /\ published' = published)
<1> USE DEF forwarder, app
<1>1. CASE Publish
  BY <1>1 DEF Publish, Same, TypeOK
<1>2. CASE UNCHANGED vars
  BY <1>2 DEF vars, Same, TypeOK
<1>3. ASSUME NEW d \in Clients, Cut(d) \/ Leave(d)
      PROVE  published' = published /\ Same(c)
  BY <1>3 DEF Cut, Leave, Same
<1>4. ASSUME NEW d \in Clients, Acts(d), d # c
      PROVE  published' = published /\ Same(c)
  <2> USE <1>4 DEF TypeOK, Same
  <2>1. CASE Subscribe(d)
    BY <2>1 DEF Subscribe
  <2>2. CASE Acknowledge(d)
    BY <2>2 DEF Acknowledge
  <2>3. CASE Receive(d)
    BY <2>3 DEF Receive
  <2>4. CASE Lag(d)
    BY <2>4 DEF Lag
  <2>5. CASE Forward(d)
    BY <2>5 DEF Forward
  <2>6. CASE RunWrites(d)
    BY <2>6 DEF RunWrites
  <2>7. CASE Dispatch(d)
    BY <2>7 DEF Dispatch, Yield
  <2>8. CASE Handle(d)
    BY <2>8 DEF Handle
  <2> QED
    BY <2>1, <2>2, <2>3, <2>4, <2>5, <2>6, <2>7, <2>8 DEF Acts
<1>5. ASSUME Acts(c) PROVE published' = published
  BY <1>5 DEF Acts, Subscribe, Acknowledge, Receive, Lag, Forward, RunWrites, Dispatch,
              Handle
<1>6. published \in Nat
  BY DEF TypeOK
<1> QED
  BY <1>1, <1>2, <1>3, <1>4, <1>5, <1>6 DEF Next, Core, Acts

\* A frame more on the wire.
LEMMA WireGrows ==
  ASSUME TypeOK, NEW c \in Clients, NEW f \in Frames,
         wire' = [wire EXCEPT ![c] = Append(@, f)]
  PROVE  /\ Len(wire[c]) \in Nat /\ Len(wire'[c]) = Len(wire[c]) + 1
         /\ wire'[c][Len(wire[c]) + 1] = f
         /\ \A i \in 1..Len(wire[c]) : wire'[c][i] = wire[c][i]
         /\ \A i \in 1..Len(wire'[c]) : i \in 1..Len(wire[c]) \/ i = Len(wire[c]) + 1
<1>1. wire[c] \in Seq(Frames) /\ wire'[c] = Append(wire[c], f)
  BY DEF TypeOK
<1> QED
  BY <1>1, AppendFacts

\* Its first frame is taken.
LEMMA WireShrinks ==
  ASSUME TypeOK, NEW c \in Clients, wire[c] # <<>>,
         wire' = [wire EXCEPT ![c] = Tail(@)]
  PROVE  /\ Len(wire[c]) \in Nat /\ Len(wire[c]) >= 1 /\ Len(wire'[c]) = Len(wire[c]) - 1
         /\ Head(wire[c]) = wire[c][1] /\ wire[c][1] \in Frames
         /\ \A i \in 1..Len(wire'[c]) :
              wire'[c][i] = wire[c][i + 1] /\ i + 1 \in 2..Len(wire[c])
         /\ \A i \in 2..Len(wire[c]) :
              wire'[c][i - 1] = wire[c][i] /\ i - 1 \in 1..Len(wire'[c])
<1> DEFINE w == wire[c]
<1>1. w \in Seq(Frames) /\ w # <<>> /\ wire'[c] = Tail(w)
  BY DEF TypeOK
<1> HIDE DEF w
<1>2. /\ Len(w) \in Nat /\ Len(w) >= 1 /\ Head(w) = w[1] /\ w[1] \in Frames
      /\ Len(Tail(w)) = Len(w) - 1
      /\ \A i \in 1..Len(Tail(w)) : Tail(w)[i] = w[i + 1] /\ i + 1 \in 2..Len(w)
      /\ \A i \in 2..Len(w) : Tail(w)[i - 1] = w[i] /\ i - 1 \in 1..Len(Tail(w))
  BY <1>1, TailFacts
<1> QED
  BY <1>1, <1>2, Zenon DEF w

LEMMA BufferShrinks ==
  ASSUME TypeOK, NEW c \in Clients, buffer[c] # <<>>,
         buffer' = [buffer EXCEPT ![c] = Tail(@)]
  PROVE  /\ Len(buffer[c]) \in Nat /\ Len(buffer[c]) >= 1
         /\ Len(buffer'[c]) = Len(buffer[c]) - 1
         /\ Head(buffer[c]) = buffer[c][1] /\ buffer[c][1] \in Frames
         /\ \A i \in 1..Len(buffer'[c]) :
              buffer'[c][i] = buffer[c][i + 1] /\ i + 1 \in 2..Len(buffer[c])
         /\ \A i \in 2..Len(buffer[c]) :
              buffer'[c][i - 1] = buffer[c][i] /\ i - 1 \in 1..Len(buffer'[c])
<1> DEFINE b == buffer[c]
<1>1. b \in Seq(Frames) /\ b # <<>> /\ buffer'[c] = Tail(b)
  BY DEF TypeOK
<1> HIDE DEF b
<1>2. /\ Len(b) \in Nat /\ Len(b) >= 1 /\ Head(b) = b[1] /\ b[1] \in Frames
      /\ Len(Tail(b)) = Len(b) - 1
      /\ \A i \in 1..Len(Tail(b)) : Tail(b)[i] = b[i + 1] /\ i + 1 \in 2..Len(b)
      /\ \A i \in 2..Len(b) : Tail(b)[i - 1] = b[i] /\ i - 1 \in 1..Len(Tail(b))
  BY <1>1, TailFacts
<1> QED
  BY <1>1, <1>2, Zenon DEF b

-----------------------------------------------------------------------------
(* The parts of the invariant, one connection and one step at a time.      *)

LEMMA PlacedStep ==
  ASSUME TypeOK, TypeOK', NEW c \in Clients, Placed(c),
         published <= published', Same(c) \/ (Acts(c) /\ published' = published)
  PROVE  Placed(c)'
<1> USE DEF Placed, TypeOK, forwarder, app
<1>1. CASE Same(c)
  BY <1>1 DEF Same
<1>2. CASE Subscribe(c)
  BY <1>2 DEF Subscribe
<1>3. CASE Acknowledge(c)
  BY <1>3 DEF Acknowledge
<1>4. CASE Receive(c)
  BY <1>4 DEF Receive, Oldest
<1>5. CASE Lag(c)
  BY <1>5 DEF Lag, Oldest
<1>6. CASE Forward(c)
  BY <1>6 DEF Forward
<1>7. CASE RunWrites(c)
  BY <1>7 DEF RunWrites
<1>8. CASE Dispatch(c)
  BY <1>8 DEF Dispatch
<1>9. CASE Handle(c)
  BY <1>9 DEF Handle
<1> QED
  BY <1>1, <1>2, <1>3, <1>4, <1>5, <1>6, <1>7, <1>8, <1>9 DEF Acts

LEMMA KnownStep ==
  ASSUME TypeOK, TypeOK', NEW c \in Clients, Placed(c), AllKnown(c), Same(c) \/ Acts(c)
  PROVE  AllKnown(c)'
<1> USE DEF forwarder, app
<1>0. /\ Len(wire[c]) \in Nat /\ Len(buffer[c]) \in Nat
      /\ \A i \in 1..Len(wire[c]) : wire[c][i] \in Frames
      /\ \A i \in 1..Len(buffer[c]) : buffer[c][i] \in Frames
      /\ \A f \in seen[c] : f \in Frames
      /\ \A f \in Frames : f.n \in Nat
  <2>1. /\ wire[c] \in Seq(Frames) /\ buffer[c] \in Seq(Frames) /\ seen[c] \subseteq Frames
    BY DEF TypeOK
  <2>2. \A f \in Frames : f.n \in Nat
    BY DEF Frames
  <2> QED
    BY <2>1, <2>2
<1>1. CASE Same(c)
  BY <1>1 DEF Same, AllKnown, Known
<1>2. CASE Subscribe(c)
  <2>1. stage[c] = "none" /\ UNCHANGED <<written, wire, buffer, seen>>
    BY <1>2 DEF Subscribe
  <2> QED
    BY <2>1 DEF AllKnown, Known
<1>3. CASE Acknowledge(c)
  <2> DEFINE f == Frame("ack", 0)
  <2>1. f \in Frames /\ f.kind = "ack"
    BY FrameType
  <2>2. /\ stage[c] = "acking" /\ wire' = [wire EXCEPT ![c] = Append(@, f)]
        /\ UNCHANGED <<joined, next, held, written, buffer, seen>>
    BY <1>3 DEF Acknowledge
  <2> HIDE DEF f
  <2> QED
    BY <1>0, <2>1, <2>2, WireGrows DEF AllKnown, Known
<1>4. CASE Receive(c)
  <2>1. /\ held[c] = 0 /\ held'[c] = next[c] /\ next'[c] = next[c] + 1 /\ next[c] \in Nat
        /\ UNCHANGED <<stage, joined, written, wire, buffer, seen>>
    BY <1>4 DEF Receive, TypeOK
  <2>2. \A f \in Frames : Known(c, f) => Known(c, f)'
    BY <1>0, <2>1 DEF Known
  <2> QED
    BY <1>0, <2>1, <2>2 DEF AllKnown
<1>5. CASE Lag(c)
  <2>1. /\ next'[c] \in Nat /\ next[c] \in Nat /\ next[c] < next'[c]
        /\ UNCHANGED <<stage, joined, held, written, wire, buffer, seen>>
    BY <1>5 DEF Lag, TypeOK, Oldest
  <2>2. \A f \in Frames : Known(c, f) => Known(c, f)'
    BY <1>0, <2>1 DEF Known
  <2> QED
    BY <1>0, <2>1, <2>2 DEF AllKnown
<1>6. CASE Forward(c)
  <2>0. PICK f \in Frames : f = Frame("event", held[c])
    BY FrameType, SMTT(30) DEF TypeOK
  <2>1. f.kind = "event" /\ f.n = held[c] /\ held[c] \in Nat
    BY <2>0, FrameType, SMTT(30) DEF TypeOK
  <2>2. /\ held[c] # 0 /\ held'[c] = 0 /\ wire' = [wire EXCEPT ![c] = Append(@, f)]
        /\ UNCHANGED <<stage, joined, next, written, buffer, seen>>
    BY <1>6, <2>0 DEF Forward, TypeOK
  <2>3. \A g \in Frames : Known(c, g) => Known(c, g)'
    BY <2>2 DEF Known
  <2>4. Known(c, f)'
    BY <2>1, <2>2 DEF Known, Placed
  <2> QED
    BY <1>0, <2>1, <2>2, <2>3, <2>4, WireGrows DEF AllKnown
<1>7. CASE RunWrites(c)
  <2>0. PICK f \in Frames : f = Frame("run", written[c] + 1)
    BY FrameType, SMTT(30) DEF TypeOK
  <2>1. f.kind = "run" /\ f.n = written[c] + 1 /\ written[c] \in Nat
    BY <2>0, FrameType, SMTT(30) DEF TypeOK
  <2>2. /\ written'[c] = written[c] + 1 /\ wire' = [wire EXCEPT ![c] = Append(@, f)]
        /\ UNCHANGED <<stage, joined, next, held, buffer, seen>>
    BY <1>7, <2>0 DEF RunWrites, TypeOK
  <2>3. \A g \in Frames : Known(c, g) => Known(c, g)'
    BY <1>0, <2>1, <2>2 DEF Known
  <2>4. Known(c, f)'
    BY <2>1, <2>2 DEF Known
  <2> QED
    BY <1>0, <2>1, <2>2, <2>3, <2>4, WireGrows DEF AllKnown
<1>8. CASE Dispatch(c)
  <2> DEFINE f == Head(wire[c])
  <2>1. /\ wire[c] # <<>> /\ wire' = [wire EXCEPT ![c] = Tail(@)]
        /\ UNCHANGED <<stage, joined, next, held, written, seen>>
    BY <1>8 DEF Dispatch
  <2>2. \A g : Known(c, g)' <=> Known(c, g)
    BY <2>1 DEF Known
  <2>3. f = wire[c][1] /\ f \in Frames /\ Known(c, f)
    <3>1. /\ Head(wire[c]) = wire[c][1] /\ wire[c][1] \in Frames
          /\ Len(wire[c]) \in Nat /\ Len(wire[c]) >= 1
      BY <2>1, WireShrinks
    <3>2. 1 \in 1..Len(wire[c])
      BY <3>1
    <3> QED
      BY <3>1, <3>2 DEF AllKnown
  <2>4. \A i \in 1..Len(wire'[c]) : Known(c, wire'[c][i])
    BY <2>1, WireShrinks DEF AllKnown
  <2>5. CASE f.kind = "ack"
    <3>1. buffer' = buffer
      BY <1>8, <2>5 DEF Dispatch
    <3> QED
      BY <2>1, <2>2, <2>4, <3>1 DEF AllKnown
  <2>6. CASE f.kind # "ack"
    <3>1. Yield(c, f)
      BY <1>8, <2>6 DEF Dispatch
    <3> HIDE DEF f
    <3>2. \A i \in 1..Len(buffer'[c]) : Known(c, buffer'[c][i]) /\ buffer'[c][i].kind # "ack"
      BY <2>3, <2>6, <3>1, YieldFacts, SMTT(30) DEF AllKnown
    <3> QED
      BY <2>1, <2>2, <2>4, <3>2 DEF AllKnown
  <2> QED
    BY <2>5, <2>6
<1>9. CASE Handle(c)
  <2> DEFINE f == Head(buffer[c])
  <2>1. /\ buffer[c] # <<>> /\ buffer' = [buffer EXCEPT ![c] = Tail(@)]
        /\ seen'[c] = seen[c] \cup {f}
        /\ UNCHANGED <<stage, joined, next, held, written, wire>>
    BY <1>9 DEF Handle, TypeOK
  <2>2. \A g : Known(c, g)' <=> Known(c, g)
    BY <2>1 DEF Known
  <2>3. f = buffer[c][1] /\ Known(c, f) /\ f.kind # "ack"
    <3>1. f = buffer[c][1] /\ 1 \in 1..Len(buffer[c])
      BY <2>1, BufferShrinks
    <3> QED
      BY <3>1 DEF AllKnown
  <2> HIDE DEF f
  <2>4. \A i \in 1..Len(buffer'[c]) : Known(c, buffer'[c][i]) /\ buffer'[c][i].kind # "ack"
    BY <2>1, BufferShrinks DEF AllKnown
  <2> QED
    BY <2>1, <2>2, <2>3, <2>4 DEF AllKnown
<1> QED
  BY <1>1, <1>2, <1>3, <1>4, <1>5, <1>6, <1>7, <1>8, <1>9 DEF Acts

LEMMA OrderStep ==
  ASSUME TypeOK, TypeOK', NEW c \in Clients, Placed(c), AllKnown(c), InOrder(c),
         Same(c) \/ Acts(c)
  PROVE  InOrder(c)'
<1> USE DEF forwarder, app
<1>1. CASE Same(c) \/ Subscribe(c) \/ Receive(c) \/ Lag(c)
  <2>1. wire'[c] = wire[c] /\ buffer'[c] = buffer[c] /\ seen'[c] = seen[c]
    BY <1>1 DEF Same, Subscribe, Receive, Lag
  <2> QED
    BY <2>1 DEF InOrder, Before
<1>2. ASSUME NEW f \in Frames, wire' = [wire EXCEPT ![c] = Append(@, f)],
             buffer' = buffer, seen' = seen,
             \A i \in 1..Len(wire[c]) : Before(wire[c][i], f),
             \A i \in 1..Len(buffer[c]) : Before(buffer[c][i], f),
             \A g \in seen[c] : Before(g, f)
      PROVE  InOrder(c)'
  <2>1. /\ Len(wire[c]) \in Nat /\ Len(wire'[c]) = Len(wire[c]) + 1
        /\ wire'[c][Len(wire[c]) + 1] = f
        /\ \A i \in 1..Len(wire[c]) : wire'[c][i] = wire[c][i]
        /\ \A i \in 1..Len(wire'[c]) : i \in 1..Len(wire[c]) \/ i = Len(wire[c]) + 1
    BY <1>2, WireGrows
  <2>2. ASSUME NEW i \in 1..Len(wire'[c]), NEW j \in 1..Len(wire'[c]), i < j
        PROVE  Before(wire'[c][i], wire'[c][j])
    BY <1>2, <2>1, <2>2 DEF InOrder
  <2>3. ASSUME NEW i \in 1..Len(buffer[c]), NEW j \in 1..Len(wire'[c])
        PROVE  Before(buffer[c][i], wire'[c][j])
    BY <1>2, <2>1 DEF InOrder
  <2>4. ASSUME NEW g \in seen[c], NEW j \in 1..Len(wire'[c])
        PROVE  Before(g, wire'[c][j])
    BY <1>2, <2>1 DEF InOrder
  <2> QED
    BY <1>2, <2>2, <2>3, <2>4 DEF InOrder, Before
<1>3. CASE Acknowledge(c)
  <2>1. Frame("ack", 0) \in Frames /\ Frame("ack", 0).kind = "ack"
    BY FrameType
  <2>2. \A g : Before(g, Frame("ack", 0))
    BY <2>1 DEF Before
  <2> QED
    BY <1>2, <1>3, <2>1, <2>2 DEF Acknowledge
<1>4. CASE Forward(c)
  <2> DEFINE f == Frame("event", held[c])
  <2>1. f \in Frames /\ f.kind = "event" /\ f.n = held[c]
    BY FrameType, SMTT(30) DEF TypeOK
  <2>2. /\ held[c] # 0 /\ wire' = [wire EXCEPT ![c] = Append(@, f)]
        /\ buffer' = buffer /\ seen' = seen
    BY <1>4 DEF Forward
  <2> HIDE DEF f
  <2>3. \A g : Known(c, g) => Before(g, f)
    BY <2>1, <2>2 DEF Known, Before
  <2> QED
    BY <1>2, <2>1, <2>2, <2>3 DEF AllKnown
<1>5. CASE RunWrites(c)
  <2> DEFINE f == Frame("run", written[c] + 1)
  <2>1. f \in Frames /\ f.kind = "run" /\ f.n = written[c] + 1 /\ written[c] \in Nat
    BY FrameType, SMTT(30) DEF TypeOK
  <2>2. /\ wire' = [wire EXCEPT ![c] = Append(@, f)]
        /\ buffer' = buffer /\ seen' = seen
    BY <1>5 DEF RunWrites
  <2> HIDE DEF f
  <2>3. \A g \in Frames : Known(c, g) => Before(g, f)
    BY <2>1 DEF Known, Before, Frames
  <2>4. /\ \A i \in 1..Len(wire[c]) : wire[c][i] \in Frames
        /\ \A i \in 1..Len(buffer[c]) : buffer[c][i] \in Frames
        /\ \A g \in seen[c] : g \in Frames
    BY SMTT(30) DEF TypeOK
  <2> QED
    BY <1>2, <2>1, <2>2, <2>3, <2>4 DEF AllKnown
<1>6. CASE Dispatch(c)
  <2> DEFINE f == Head(wire[c])
  <2>1. wire[c] # <<>> /\ wire' = [wire EXCEPT ![c] = Tail(@)] /\ seen' = seen
    BY <1>6 DEF Dispatch
  <2>2. /\ Len(wire[c]) \in Nat /\ Len(wire[c]) >= 1 /\ Len(wire'[c]) = Len(wire[c]) - 1
        /\ f = wire[c][1] /\ f \in Frames
        /\ \A i \in 1..Len(wire'[c]) :
             wire'[c][i] = wire[c][i + 1] /\ i + 1 \in 2..Len(wire[c])
    BY <2>1, WireShrinks
  <2>3. \A i \in 2..Len(wire[c]) : 1 \in 1..Len(wire[c]) /\ i \in 1..Len(wire[c]) /\ 1 < i
    BY <2>2
  <2>4. /\ \A i \in 2..Len(wire[c]) : Before(f, wire[c][i])
        /\ \A i \in 1..Len(buffer[c]) : Before(buffer[c][i], f)
        /\ \A g \in seen[c] : Before(g, f)
    BY <2>2, <2>3 DEF InOrder
  <2>5. \A i, j \in 1..Len(wire'[c]) : i < j => Before(wire'[c][i], wire'[c][j])
    BY <2>2, <2>3 DEF InOrder
  <2>6. \A g \in seen[c], i \in 1..Len(wire'[c]) : Before(g, wire'[c][i])
    BY <2>2, <2>3 DEF InOrder
  <2>7. CASE f.kind = "ack"
    <3>1. buffer' = buffer
      BY <1>6, <2>7 DEF Dispatch
    <3>2. \A i \in 1..Len(buffer[c]), j \in 1..Len(wire'[c]) : Before(buffer[c][i], wire'[c][j])
      BY <2>2, <2>3 DEF InOrder
    <3> QED
      BY <2>1, <2>5, <2>6, <3>1, <3>2 DEF InOrder, Before
  <2>8. CASE f.kind # "ack"
    <3>1. Yield(c, f)
      BY <1>6, <2>8 DEF Dispatch
    <3> HIDE DEF f
    <3>2. PICK k \in {0, 1} :
            /\ Len(buffer[c]) \in Nat
            /\ Len(buffer'[c]) = Len(buffer[c]) + 1 - k
            /\ buffer'[c][Len(buffer'[c])] = f
            /\ \A i \in 1..Len(buffer'[c]) :
                 \/ i = Len(buffer'[c])
                 \/ i + k \in 1..Len(buffer[c]) /\ buffer'[c][i] = buffer[c][i + k]
      BY <2>2, <3>1, YieldFacts
    <3>3. ASSUME NEW i \in 1..Len(buffer'[c]), NEW j \in 1..Len(buffer'[c]), i < j
          PROVE  Before(buffer'[c][i], buffer'[c][j])
      <4>1. i + k \in 1..Len(buffer[c]) /\ buffer'[c][i] = buffer[c][i + k]
        BY <3>2, <3>3
      <4>2. CASE j = Len(buffer'[c])
        BY <2>4, <3>2, <4>1, <4>2
      <4>3. CASE j # Len(buffer'[c])
        <5>1. j + k \in 1..Len(buffer[c]) /\ buffer'[c][j] = buffer[c][j + k] /\ i + k < j + k
          BY <3>2, <3>3, <4>3
        <5> QED
          BY <4>1, <5>1 DEF InOrder
      <4> QED
        BY <4>2, <4>3
    <3>4. ASSUME NEW i \in 1..Len(buffer'[c]), NEW j \in 1..Len(wire'[c])
          PROVE  Before(buffer'[c][i], wire'[c][j])
      <4>1. wire'[c][j] = wire[c][j + 1] /\ j + 1 \in 2..Len(wire[c])
        BY <2>2
      <4>2. CASE i = Len(buffer'[c])
        BY <2>4, <3>2, <4>1, <4>2
      <4>3. CASE i # Len(buffer'[c])
        <5>1. i + k \in 1..Len(buffer[c]) /\ buffer'[c][i] = buffer[c][i + k]
          BY <3>2, <4>3
        <5> QED
          BY <2>3, <4>1, <5>1 DEF InOrder
      <4> QED
        BY <4>2, <4>3
    <3>5. ASSUME NEW g \in seen[c], NEW i \in 1..Len(buffer'[c])
          PROVE  Before(g, buffer'[c][i])
      BY <2>4, <3>2 DEF InOrder
    <3> QED
      BY <2>1, <2>5, <2>6, <3>3, <3>4, <3>5 DEF InOrder, Before
  <2> QED
    BY <2>7, <2>8
<1>7. CASE Handle(c)
  <2> DEFINE f == Head(buffer[c])
  <2>1. /\ buffer[c] # <<>> /\ buffer' = [buffer EXCEPT ![c] = Tail(@)]
        /\ seen'[c] = seen[c] \cup {f} /\ wire' = wire
    BY <1>7 DEF Handle, TypeOK
  <2>2. /\ Len(buffer[c]) \in Nat /\ Len(buffer[c]) >= 1
        /\ f = buffer[c][1]
        /\ \A i \in 1..Len(buffer'[c]) :
             buffer'[c][i] = buffer[c][i + 1] /\ i + 1 \in 2..Len(buffer[c])
        /\ Len(buffer'[c]) = Len(buffer[c]) - 1
    BY <2>1, BufferShrinks
  <2> HIDE DEF f
  <2>3. 1 \in 1..Len(buffer[c])
          /\ \A i \in 2..Len(buffer[c]) : i \in 1..Len(buffer[c]) /\ 1 < i
    BY <2>2
  <2>4. ASSUME NEW i \in 1..Len(buffer'[c]), NEW j \in 1..Len(buffer'[c]), i < j
        PROVE  Before(buffer'[c][i], buffer'[c][j])
    <3>1. buffer'[c][i] = buffer[c][i + 1] /\ i + 1 \in 1..Len(buffer[c])
      BY <2>2, <2>3
    <3>2. buffer'[c][j] = buffer[c][j + 1] /\ j + 1 \in 1..Len(buffer[c])
      BY <2>2, <2>3
    <3>3. i + 1 < j + 1
      BY <2>4
    <3> QED
      BY <3>1, <3>2, <3>3 DEF InOrder
  <2>5. \A i \in 1..Len(buffer'[c]), j \in 1..Len(wire[c]) : Before(buffer'[c][i], wire[c][j])
    BY <2>2, <2>3 DEF InOrder
  <2>6. \A g \in seen'[c], i \in 1..Len(buffer'[c]) : Before(g, buffer'[c][i])
    BY <2>1, <2>2, <2>3 DEF InOrder
  <2>7. \A g \in seen'[c], i \in 1..Len(wire[c]) : Before(g, wire[c][i])
    BY <2>1, <2>2, <2>3 DEF InOrder
  <2>8. \A i, j \in 1..Len(wire[c]) : i < j => Before(wire[c][i], wire[c][j])
    BY DEF InOrder
  <2>9. wire'[c] = wire[c]
    BY <2>1
  <2> HIDE DEF f
  <2> QED
    BY <2>4, <2>5, <2>6, <2>7, <2>8, <2>9 DEF InOrder
<1> QED
  BY <1>1, <1>3, <1>4, <1>5, <1>6, <1>7 DEF Acts

LEMMA AckStep ==
  ASSUME TypeOK, TypeOK', NEW c \in Clients, Placed(c), AllKnown(c), OneAck(c),
         Same(c) \/ Acts(c)
  PROVE  OneAck(c)'
<1> USE DEF forwarder, app
<1>1. CASE Same(c)
  BY <1>1 DEF Same, OneAck
<1>2. CASE Subscribe(c)
  <2>1. /\ stage[c] = "none" /\ UNCHANGED <<wire, ackAt>>
        /\ \A i \in 1..Len(wire[c]) : wire[c][i].kind # "ack"
        /\ ackAt[c] = NotJoined
    BY <1>2 DEF Subscribe, OneAck
  <2> QED
    BY <2>1 DEF OneAck
<1>3. CASE Acknowledge(c)
  <2>0. PICK f \in Frames : f = Frame("ack", 0)
    BY FrameType
  <2>1. /\ stage[c] = "acking" /\ stage'[c] = "forwarding" /\ UNCHANGED <<joined, ackAt>>
        /\ wire' = [wire EXCEPT ![c] = Append(@, f)]
    BY <1>3, <2>0 DEF Acknowledge, TypeOK
  <2>2. ackAt[c] = NotJoined /\ \A i \in 1..Len(wire[c]) : wire[c][i].kind # "ack"
    BY <2>1 DEF OneAck
  <2>3. /\ \A i \in 1..Len(wire[c]) : wire'[c][i] = wire[c][i]
        /\ \A i \in 1..Len(wire'[c]) : i \in 1..Len(wire[c]) \/ i = Len(wire[c]) + 1
    BY <2>1, WireGrows
  <2> QED
    BY <2>1, <2>2, <2>3 DEF OneAck
<1>4. CASE Receive(c) \/ Lag(c) \/ Handle(c)
  BY <1>4 DEF Receive, Lag, Handle, OneAck
<1>5. ASSUME NEW f \in Frames, f.kind # "ack", wire' = [wire EXCEPT ![c] = Append(@, f)],
             UNCHANGED <<stage, joined, ackAt>>
      PROVE  OneAck(c)'
  <2>1. /\ wire'[c][Len(wire[c]) + 1] = f
        /\ \A i \in 1..Len(wire[c]) : wire'[c][i] = wire[c][i]
        /\ \A i \in 1..Len(wire'[c]) : i \in 1..Len(wire[c]) \/ i = Len(wire[c]) + 1
    BY <1>5, WireGrows
  <2> QED
    BY <1>5, <2>1 DEF OneAck
<1>6. CASE Forward(c)
  <2>1. Frame("event", held[c]) \in Frames /\ Frame("event", held[c]).kind # "ack"
    BY FrameType, SMTT(30) DEF TypeOK
  <2> QED
    BY <1>5, <1>6, <2>1 DEF Forward
<1>7. CASE RunWrites(c)
  <2>1. Frame("run", written[c] + 1) \in Frames /\ Frame("run", written[c] + 1).kind # "ack"
    BY FrameType, SMTT(30) DEF TypeOK
  <2> QED
    BY <1>5, <1>7, <2>1 DEF RunWrites
<1>8. CASE Dispatch(c)
  <2>1. wire[c] # <<>> /\ wire' = [wire EXCEPT ![c] = Tail(@)] /\ UNCHANGED <<stage, joined>>
    BY <1>8 DEF Dispatch
  <2>2. /\ Len(wire[c]) \in Nat /\ Len(wire[c]) >= 1 /\ Len(wire'[c]) = Len(wire[c]) - 1
        /\ Head(wire[c]) = wire[c][1]
        /\ \A i \in 1..Len(wire'[c]) :
             wire'[c][i] = wire[c][i + 1] /\ i + 1 \in 2..Len(wire[c])
    BY <2>1, WireShrinks
  <2>3. 1 \in 1..Len(wire[c])
          /\ \A i \in 2..Len(wire[c]) : i \in 1..Len(wire[c]) /\ i # 1
    BY <2>2
  <2>4. CASE wire[c][1].kind = "ack"
    <3>1. ackAt'[c] = published /\ published \in Nat
      BY <1>8, <2>2, <2>4 DEF Dispatch, TypeOK
    <3>2. \A i \in 1..Len(wire'[c]) : wire'[c][i].kind # "ack"
      BY <2>2, <2>3, <2>4 DEF OneAck
    <3>3. stage[c] = "forwarding" /\ joined[c] <= published
      <4>1. stage[c] = "forwarding"
        BY <2>3, <2>4 DEF OneAck
      <4>2. joined[c] \in Nat /\ joined[c] < next[c] /\ next[c] <= published + 1
        BY <4>1 DEF Placed
      <4> QED
        BY <3>1, <4>1, <4>2, SMTT(30) DEF TypeOK
    <3> QED
      BY <2>1, <3>1, <3>2, <3>3 DEF OneAck
  <2>5. CASE wire[c][1].kind # "ack"
    <3>1. ackAt' = ackAt
      BY <1>8, <2>2, <2>5 DEF Dispatch
    <3>2. ASSUME NEW i \in 1..Len(wire'[c]), wire'[c][i].kind = "ack"
          PROVE  /\ ackAt[c] = NotJoined /\ stage[c] = "forwarding"
                 /\ \A j \in 1..Len(wire'[c]) : wire'[c][j].kind = "ack" => i = j
      <4>1. wire'[c][i] = wire[c][i + 1] /\ i + 1 \in 1..Len(wire[c])
        BY <2>2, <2>3
      <4>2. ASSUME NEW j \in 1..Len(wire'[c]), wire'[c][j].kind = "ack" PROVE i = j
        <5>1. wire'[c][j] = wire[c][j + 1] /\ j + 1 \in 1..Len(wire[c])
          BY <2>2, <2>3
        <5>2. i + 1 = j + 1
          BY <3>2, <4>1, <4>2, <5>1 DEF OneAck
        <5> QED
          BY <5>2
      <4> QED
        BY <3>2, <4>1, <4>2 DEF OneAck
    <3> QED
      BY <2>1, <3>1, <3>2 DEF OneAck
  <2> QED
    BY <2>4, <2>5
<1> QED
  BY <1>1, <1>2, <1>3, <1>4, <1>6, <1>7, <1>8 DEF Acts

LEMMA CountTypes ==
  ASSUME TypeOK, NEW c \in Clients, IsFiniteSet(seen[c])
  PROVE  /\ next[c] \in Nat /\ lagged[c] \in Nat /\ written[c] \in Nat /\ dropped[c] \in Nat
         /\ Len(wire[c]) \in Nat /\ Len(buffer[c]) \in Nat /\ Cardinality(seen[c]) \in Nat
         /\ AckMade(c) \in Int /\ AckSeen(c) \in Int /\ Taken(c) \in Int /\ Holds(c) \in Int
         /\ Given(c) \in Int /\ Queued(c) \in Int /\ Ended(c) \in Int
<1>1. wire[c] \in Seq(Frames) /\ buffer[c] \in Seq(Frames)
  BY DEF TypeOK
<1>2. next[c] \in Nat /\ lagged[c] \in Nat /\ written[c] \in Nat /\ dropped[c] \in Nat
  BY DEF TypeOK
<1>3. Taken(c) \in Int
  <2>1. CASE joined[c] = NotJoined
    BY <2>1 DEF Taken
  <2>2. CASE joined[c] # NotJoined
    <3>1. joined[c] \in Nat
      BY <2>2 DEF TypeOK
    <3>2. Taken(c) = next[c] - 1 - joined[c]
      BY <2>2 DEF Taken
    <3> QED
      BY <1>2, <3>1, <3>2
  <2> QED
    BY <2>1, <2>2
<1>4. AckMade(c) \in Int /\ AckSeen(c) \in Int /\ Holds(c) \in Int
  BY DEF AckMade, AckSeen, Holds
<1>5. Len(wire[c]) \in Nat /\ Len(buffer[c]) \in Nat /\ Cardinality(seen[c]) \in Nat
  BY <1>1, FS_CardinalityType
<1>6. Given(c) \in Int
  BY <1>2, <1>3, <1>4 DEF Given
<1>7. Queued(c) \in Int
  BY <1>4, <1>5 DEF Queued
<1>8. Ended(c) \in Int
  BY <1>2, <1>4, <1>5 DEF Ended
<1> QED
  BY <1>2, <1>3, <1>4, <1>5, <1>6, <1>7, <1>8

LEMMA CountStep ==
  ASSUME TypeOK, TypeOK', NEW c \in Clients, Placed(c), AllKnown(c), InOrder(c), OneAck(c),
         Counted(c), Same(c) \/ Acts(c)
  PROVE  Counted(c)'
<1> USE DEF forwarder, app
<1>0. IsFiniteSet(seen[c])
  BY DEF Counted
<1>n. next[c] \in Nat
  BY <1>0, CountTypes
<1>g. written[c] \in Nat /\ AckMade(c) \in Int /\ Taken(c) \in Int
  BY <1>0, CountTypes
<1>q. Holds(c) \in Int /\ Len(wire[c]) \in Nat /\ Len(buffer[c]) \in Nat
  BY <1>0, CountTypes
<1>e. Cardinality(seen[c]) \in Nat /\ dropped[c] \in Nat /\ AckSeen(c) \in Int
  BY <1>0, CountTypes
<1>s. Given(c) \in Int /\ Queued(c) \in Int /\ Ended(c) \in Int /\ lagged[c] \in Nat
  BY <1>0, CountTypes
<1>1. CASE Same(c)
  <2>1. Given(c)' = Given(c)
    BY <1>1 DEF Same, Given, AckMade, Taken
  <2>2. Queued(c)' = Queued(c)
    BY <1>1 DEF Same, Queued, Holds
  <2>3. Ended(c)' = Ended(c)
    BY <1>1 DEF Same, Ended, AckSeen
  <2>4. lagged'[c] = lagged[c] /\ seen'[c] = seen[c]
    BY <1>1 DEF Same
  <2> QED
    BY <2>1, <2>2, <2>3, <2>4 DEF Counted
<1>2. CASE Subscribe(c)
  <2>1. /\ stage[c] = "none" /\ stage'[c] = "acking" /\ joined'[c] = published
        /\ next'[c] = published + 1 /\ joined[c] = NotJoined /\ published \in Nat
        /\ UNCHANGED <<held, lagged, written, wire, ackAt, buffer, dropped, seen>>
    BY <1>2 DEF Subscribe, TypeOK, Placed
  <2>2. AckMade(c) = 0 /\ AckMade(c)' = 0 /\ Taken(c) = 0
    BY <2>1 DEF AckMade, Taken
  <2>3. Taken(c)' = 0
    <3>1. Taken(c)' = next'[c] - 1 - joined'[c]
      BY <2>1 DEF Taken
    <3> QED
      BY <2>1, <3>1
  <2>4. Given(c)' = Given(c)
    BY <2>1, <2>2, <2>3 DEF Given
  <2>5. Queued(c)' = Queued(c)
    BY <2>1 DEF Queued, Holds
  <2>6. Ended(c)' = Ended(c)
    BY <2>1 DEF Ended, AckSeen
  <2> QED
    BY <2>1, <2>4, <2>5, <2>6 DEF Counted
<1>3. ASSUME NEW f \in Frames, wire' = [wire EXCEPT ![c] = Append(@, f)]
      PROVE  Len(wire'[c]) = Len(wire[c]) + 1
  BY <1>3, WireGrows
<1>4. CASE Acknowledge(c)
  <2>1. /\ stage[c] = "acking" /\ stage'[c] = "forwarding"
        /\ UNCHANGED <<joined, next, held, written, lagged, ackAt, buffer, dropped, seen>>
    BY <1>4 DEF Acknowledge, TypeOK
  <2>2. Len(wire'[c]) = Len(wire[c]) + 1
    BY <1>3, <1>4, FrameType DEF Acknowledge
  <2>3. AckMade(c) = 0 /\ AckMade(c)' = 1
    BY <2>1 DEF AckMade
  <2>4. Given(c)' = Given(c) + 1
    <3>1. Taken(c)' = Taken(c) /\ written'[c] = written[c]
      BY <2>1 DEF Taken
    <3> QED
      BY <1>g, <2>3, <3>1 DEF Given
  <2>5. Queued(c)' = Queued(c) + 1
    <3>1. Holds(c)' = Holds(c) /\ Len(buffer'[c]) = Len(buffer[c])
      BY <2>1 DEF Holds
    <3> QED
      BY <1>q, <2>2, <3>1 DEF Queued
  <2>6. Ended(c)' = Ended(c)
    BY <2>1 DEF Ended, AckSeen
  <2> QED
    BY <1>s, <2>1, <2>4, <2>5, <2>6 DEF Counted
<1>5. CASE Receive(c)
  <2>1. /\ held[c] = 0 /\ held'[c] = next[c] /\ next'[c] = next[c] + 1
        /\ stage[c] = "forwarding"
        /\ UNCHANGED <<stage, joined, written, lagged, wire, ackAt, buffer, dropped, seen>>
    BY <1>5 DEF Receive, TypeOK
  <2>2. joined[c] \in Nat /\ joined[c] # NotJoined /\ next[c] # 0
    BY <1>n, <2>1 DEF Placed
  <2>3. Holds(c)' = Holds(c) + 1
    BY <2>1, <2>2 DEF Holds
  <2>4. Given(c)' = Given(c) + 1
    <3>1. Taken(c) = next[c] - 1 - joined[c] /\ Taken(c)' = next'[c] - 1 - joined[c]
      BY <2>1, <2>2 DEF Taken
    <3>2. Taken(c)' = Taken(c) + 1
      BY <1>n, <2>1, <2>2, <3>1
    <3>3. AckMade(c)' = AckMade(c) /\ written'[c] = written[c]
      BY <2>1 DEF AckMade
    <3> QED
      BY <1>g, <3>2, <3>3 DEF Given
  <2>5. Queued(c)' = Queued(c) + 1
    <3>1. Len(wire'[c]) = Len(wire[c]) /\ Len(buffer'[c]) = Len(buffer[c])
      BY <2>1
    <3>2. Queued(c)' = Holds(c)' + Len(wire[c]) + Len(buffer[c])
      BY <3>1, Zenon DEF Queued
    <3>3. Queued(c) = Holds(c) + Len(wire[c]) + Len(buffer[c])
      BY DEF Queued
    <3> HIDE DEF forwarder, app
    <3> QED
      BY <1>q, <2>3, <3>2, <3>3
  <2>6. Ended(c)' = Ended(c)
    BY <2>1 DEF Ended, AckSeen
  <2> QED
    BY <1>s, <2>1, <2>4, <2>5, <2>6 DEF Counted
<1>6. CASE Lag(c)
  <2>1. /\ lagged'[c] = lagged[c] + (Oldest - next[c]) /\ next'[c] = Oldest
        /\ stage[c] = "forwarding"
        /\ UNCHANGED <<stage, joined, held, written, wire, ackAt, buffer, dropped, seen>>
    BY <1>6 DEF Lag, TypeOK
  <2>2. joined[c] \in Nat /\ joined[c] # NotJoined
    BY <2>1 DEF Placed
  <2>3. PICK k \in Int : k = Oldest - next[c]
    <3>1. Oldest \in Int
      <4>1. published \in Int /\ RingCap \in Int
        BY DEF TypeOK
      <4>2. published - RingCap + 1 \in Int
        BY <4>1
      <4> QED
        BY <4>2 DEF Oldest
    <3> QED
      BY <1>n, <3>1
  <2>4. Given(c)' = Given(c) + k
    <3>1. Taken(c) = next[c] - 1 - joined[c] /\ Taken(c)' = next'[c] - 1 - joined[c]
      BY <2>1, <2>2 DEF Taken
    <3>2. next'[c] = next[c] + k
      <4>1. Oldest \in Int
        BY DEF TypeOK, Oldest
      <4> QED
        BY <1>n, <2>1, <2>3, <4>1
    <3>3. Taken(c)' = Taken(c) + k
      BY <1>n, <2>2, <3>1, <3>2
    <3>4. AckMade(c)' = AckMade(c) /\ written'[c] = written[c]
      BY <2>1 DEF AckMade
    <3> QED
      BY <1>g, <3>3, <3>4 DEF Given
  <2>5. Queued(c)' = Queued(c)
    BY <2>1 DEF Queued, Holds
  <2>6. Ended(c)' = Ended(c)
    BY <2>1 DEF Ended, AckSeen
  <2>7. lagged'[c] = lagged[c] + k /\ seen'[c] = seen[c]
    BY <2>1, <2>3
  <2> QED
    BY <1>s, <2>4, <2>5, <2>6, <2>7 DEF Counted
<1>7. CASE Forward(c)
  <2>1. /\ held[c] # 0 /\ held'[c] = 0
        /\ UNCHANGED <<stage, joined, next, written, lagged, ackAt, buffer, dropped, seen>>
    BY <1>7 DEF Forward, TypeOK
  <2>2. Len(wire'[c]) = Len(wire[c]) + 1
    <3>1. Frame("event", held[c]) \in Frames
      BY FrameType, SMTT(30) DEF TypeOK
    <3> QED
      BY <1>3, <1>7, <3>1 DEF Forward
  <2>3. Holds(c)' = Holds(c) - 1
    BY <2>1 DEF Holds
  <2>4. Given(c)' = Given(c)
    BY <2>1 DEF Given, AckMade, Taken
  <2>5. Queued(c)' = Queued(c)
    <3>1. Len(buffer'[c]) = Len(buffer[c])
      BY <2>1
    <3> QED
      BY <1>q, <2>2, <2>3, <3>1 DEF Queued
  <2>6. Ended(c)' = Ended(c)
    BY <2>1 DEF Ended, AckSeen
  <2> QED
    BY <2>1, <2>4, <2>5, <2>6 DEF Counted
<1>8. CASE RunWrites(c)
  <2>1. /\ written'[c] = written[c] + 1
        /\ UNCHANGED <<stage, joined, next, held, lagged, ackAt, buffer, dropped, seen>>
    BY <1>8 DEF RunWrites, TypeOK
  <2>2. Len(wire'[c]) = Len(wire[c]) + 1
    <3>1. Frame("run", written[c] + 1) \in Frames
      BY <1>g, FrameType
    <3> QED
      BY <1>3, <1>8, <3>1 DEF RunWrites
  <2>4. Given(c)' = Given(c) + 1
    <3>1. Taken(c)' = Taken(c) /\ AckMade(c)' = AckMade(c)
      BY <2>1 DEF Taken, AckMade
    <3> QED
      BY <1>g, <2>1, <3>1 DEF Given
  <2>5. Queued(c)' = Queued(c) + 1
    <3>1. Holds(c)' = Holds(c) /\ Len(buffer'[c]) = Len(buffer[c])
      BY <2>1 DEF Holds
    <3> QED
      BY <1>q, <2>2, <3>1 DEF Queued
  <2>6. Ended(c)' = Ended(c)
    BY <2>1 DEF Ended, AckSeen
  <2> QED
    BY <1>s, <2>1, <2>4, <2>5, <2>6 DEF Counted
<1>9. CASE Dispatch(c)
  <2>1. /\ wire[c] # <<>> /\ wire' = [wire EXCEPT ![c] = Tail(@)]
        /\ UNCHANGED <<stage, joined, next, held, written, lagged, seen>>
    BY <1>9 DEF Dispatch
  <2>2. /\ Len(wire[c]) >= 1 /\ Len(wire'[c]) = Len(wire[c]) - 1
        /\ Head(wire[c]) = wire[c][1] /\ wire[c][1] \in Frames
    BY <2>1, WireShrinks
  <2>3. Holds(c)' = Holds(c)
    BY <2>1 DEF Holds
  <2>4. Given(c)' = Given(c)
    BY <2>1 DEF Given, AckMade, Taken
  <2>5. CASE wire[c][1].kind = "ack"
    <3>1. ackAt'[c] = published /\ published \in Nat /\ buffer' = buffer /\ dropped' = dropped
      BY <1>9, <2>2, <2>5 DEF Dispatch, TypeOK
    <3>2. ackAt[c] = NotJoined
      <4>1. 1 \in 1..Len(wire[c])
        BY <1>q, <2>2
      <4> QED
        BY <2>5, <4>1 DEF OneAck
    <3>3. AckSeen(c) = 0 /\ AckSeen(c)' = 1
      BY <3>1, <3>2 DEF AckSeen
    <3>4. Queued(c)' = Queued(c) - 1
      <4>1. Len(buffer'[c]) = Len(buffer[c])
        BY <3>1
      <4> QED
        BY <1>q, <2>2, <2>3, <4>1 DEF Queued
    <3>5. Ended(c)' = Ended(c) + 1
      <4>1. Cardinality(seen'[c]) = Cardinality(seen[c]) /\ dropped'[c] = dropped[c]
        BY <2>1, <3>1
      <4> QED
        BY <1>e, <3>3, <4>1 DEF Ended
    <3> QED
      BY <1>s, <2>1, <2>4, <3>4, <3>5 DEF Counted
  <2>6. CASE wire[c][1].kind # "ack"
    <3>1. Yield(c, wire[c][1]) /\ ackAt' = ackAt
      BY <1>9, <2>2, <2>6 DEF Dispatch
    <3>2. PICK k \in {0, 1} : Len(buffer'[c]) = Len(buffer[c]) + 1 - k
                                /\ dropped'[c] = dropped[c] + k
      BY <2>2, <3>1, YieldFacts
    <3>3. AckSeen(c)' = AckSeen(c)
      BY <3>1 DEF AckSeen
    <3>4. Queued(c)' = Queued(c) - k
      BY <1>q, <2>2, <2>3, <3>2 DEF Queued
    <3>5. Ended(c)' = Ended(c) + k
      <4>1. Cardinality(seen'[c]) = Cardinality(seen[c])
        BY <2>1
      <4> QED
        BY <1>e, <3>2, <3>3, <4>1 DEF Ended
    <3> QED
      BY <1>s, <2>1, <2>4, <3>4, <3>5 DEF Counted
  <2> QED
    BY <2>5, <2>6
<1>10. CASE Handle(c)
  <2>1. /\ buffer[c] # <<>> /\ buffer' = [buffer EXCEPT ![c] = Tail(@)]
        /\ seen'[c] = seen[c] \cup {Head(buffer[c])}
        /\ UNCHANGED <<stage, joined, next, held, written, lagged, wire, ackAt, dropped>>
    BY <1>10 DEF Handle, TypeOK
  <2>2. PICK f \in Frames : f = buffer[c][1] /\ Head(buffer[c]) = f
    BY <2>1, BufferShrinks
  <2>3. Len(buffer[c]) >= 1 /\ Len(buffer'[c]) = Len(buffer[c]) - 1
    BY <2>1, BufferShrinks
  <2>4. f \notin seen[c]
    <3>1. 1 \in 1..Len(buffer[c])
      BY <1>q, <2>3
    <3>2. f.kind # "ack"
      BY <2>2, <3>1 DEF AllKnown
    <3>3. f \in seen[c] => f.n < f.n
      BY <2>2, <3>1, <3>2 DEF InOrder, Before
    <3> QED
      BY <3>3 DEF Frames
  <2>5. IsFiniteSet(seen'[c]) /\ Cardinality(seen'[c]) = Cardinality(seen[c]) + 1
    <3>1. seen'[c] = seen[c] \cup {f} /\ IsFiniteSet(seen[c])
      BY <2>1, <2>2 DEF Counted
    <3> QED
      BY <2>4, <3>1, FS_AddElement
  <2>6. Given(c)' = Given(c)
    BY <2>1 DEF Given, AckMade, Taken
  <2>7. Queued(c)' = Queued(c) - 1
    <3>1. Holds(c)' = Holds(c) /\ Len(wire'[c]) = Len(wire[c])
      BY <2>1 DEF Holds
    <3> QED
      BY <1>q, <2>3, <3>1 DEF Queued
  <2>8. Ended(c)' = Ended(c) + 1
    <3>1. AckSeen(c)' = AckSeen(c) /\ dropped'[c] = dropped[c]
      BY <2>1 DEF AckSeen
    <3> QED
      BY <1>e, <2>5, <3>1 DEF Ended
  <2> QED
    BY <1>s, <2>1, <2>5, <2>6, <2>7, <2>8 DEF Counted
<1> QED
  BY <1>1, <1>2, <1>4, <1>5, <1>6, <1>7, <1>8, <1>9, <1>10 DEF Acts

\* An event that was on its way stays on it when frames only move on.
LEMMA Moves ==
  ASSUME NEW c \in Clients, NEW n \in Nat, Around(c, n),
         n = held[c] => Around(c, n)',
         \A i \in 1..Len(wire[c]) :
           wire[c][i].kind = "event" =>
             \/ \E j \in 1..Len(wire'[c]) : wire'[c][j] = wire[c][i]
             \/ \E j \in 1..Len(buffer'[c]) : buffer'[c][j] = wire[c][i],
         \A i \in 1..Len(buffer[c]) :
           \/ \E j \in 1..Len(buffer'[c]) : buffer'[c][j] = buffer[c][i]
           \/ buffer[c][i] \in seen'[c],
         seen[c] \subseteq seen'[c]
  PROVE  Around(c, n)'
<1>1. CASE n = held[c]
  BY <1>1
<1>2. ASSUME NEW i \in 1..Len(wire[c]), wire[c][i].kind = "event", wire[c][i].n = n
      PROVE  Around(c, n)'
  <2>1. CASE \E j \in 1..Len(wire'[c]) : wire'[c][j] = wire[c][i]
    BY <1>2, <2>1 DEF Around
  <2>2. CASE \E j \in 1..Len(buffer'[c]) : buffer'[c][j] = wire[c][i]
    BY <1>2, <2>2 DEF Around
  <2> QED
    BY <1>2, <2>1, <2>2
<1>3. ASSUME NEW i \in 1..Len(buffer[c]), buffer[c][i].kind = "event", buffer[c][i].n = n
      PROVE  Around(c, n)'
  <2>1. CASE \E j \in 1..Len(buffer'[c]) : buffer'[c][j] = buffer[c][i]
    BY <1>3, <2>1 DEF Around
  <2>2. CASE buffer[c][i] \in seen'[c]
    BY <1>3, <2>2 DEF Around
  <2> QED
    BY <2>1, <2>2
<1>4. ASSUME NEW f \in seen[c], f.kind = "event", f.n = n
      PROVE  Around(c, n)'
  BY <1>4 DEF Around
<1> QED
  BY <1>1, <1>2, <1>3, <1>4 DEF Around

LEMMA CompleteStep ==
  ASSUME TypeOK, TypeOK', NEW c \in Clients, Placed(c), AllKnown(c), Complete(c),
         Same(c) \/ Acts(c)
  PROVE  Complete(c)'
<1> USE DEF forwarder, app
<1>0. /\ Len(wire[c]) \in Nat /\ Len(buffer[c]) \in Nat
      /\ next[c] \in Nat /\ lagged[c] \in Nat /\ dropped[c] \in Nat /\ published \in Nat
  <2>1. wire[c] \in Seq(Frames) /\ buffer[c] \in Seq(Frames)
    BY DEF TypeOK
  <2> QED
    BY <2>1, SMTT(30) DEF TypeOK
<1>1. CASE Same(c)
  BY <1>1 DEF Same, Complete, Around
<1>2. CASE Subscribe(c)
  <2>1. joined'[c] = published /\ next'[c] = published + 1
    BY <1>2 DEF Subscribe, TypeOK
  <2>2. \A n \in Nat : ~(joined'[c] < n /\ n < next'[c])
    BY <1>0, <2>1
  <2> QED
    BY <2>2 DEF Complete
<1>3. ASSUME NEW f \in Frames, wire' = [wire EXCEPT ![c] = Append(@, f)],
             UNCHANGED <<joined, next, lagged, app>>,
             stage[c] # "none" \/ stage'[c] = "none",
             held' = held \/ (f.kind = "event" /\ f.n = held[c])
      PROVE  Complete(c)'
  <2>1. /\ Len(wire'[c]) = Len(wire[c]) + 1
        /\ wire'[c][Len(wire[c]) + 1] = f
        /\ \A i \in 1..Len(wire[c]) : wire'[c][i] = wire[c][i]
    BY <1>3, WireGrows
  <2>2. /\ Len(wire[c]) + 1 \in 1..Len(wire'[c])
        /\ \A i \in 1..Len(wire[c]) : i \in 1..Len(wire'[c])
    BY <1>0, <2>1
  <2>3. \A i \in 1..Len(wire[c]) : \E j \in 1..Len(wire'[c]) : wire'[c][j] = wire[c][i]
    BY <2>1, <2>2
  <2>4. ASSUME NEW n \in Nat, Around(c, n) PROVE Around(c, n)'
    <3>1. n = held[c] => Around(c, n)'
      BY <1>3, <2>1, <2>2 DEF Around
    <3> QED
      BY <1>3, <2>3, <2>4, <3>1, Moves
  <2> QED
    BY <1>3, <2>4 DEF Complete
<1>4. CASE Acknowledge(c)
  <2>1. Frame("ack", 0) \in Frames
    BY FrameType
  <2> QED
    BY <1>3, <1>4, <2>1 DEF Acknowledge
<1>5. CASE Forward(c)
  <2>1. PICK f \in Frames : f = Frame("event", held[c]) /\ f.kind = "event" /\ f.n = held[c]
    BY FrameType, SMTT(30) DEF TypeOK
  <2>2. stage' = stage /\ wire' = [wire EXCEPT ![c] = Append(@, f)]
          /\ UNCHANGED <<joined, next, lagged, app>> /\ held[c] # 0
    BY <1>5, <2>1 DEF Forward
  <2>3. stage[c] # "none"
    BY <2>2 DEF Placed
  <2> QED
    BY <1>3, <2>1, <2>2, <2>3
<1>6. CASE RunWrites(c)
  <2>1. Frame("run", written[c] + 1) \in Frames
    BY FrameType, SMTT(30) DEF TypeOK
  <2>2. stage' = stage
    BY <1>6 DEF RunWrites
  <2>3. stage[c] # "none" \/ stage'[c] = "none"
    BY <2>2
  <2> QED
    BY <1>3, <1>6, <2>1, <2>3 DEF RunWrites
<1>7. CASE Receive(c)
  <2>1. /\ held[c] = 0 /\ held'[c] = next[c] /\ next'[c] = next[c] + 1
        /\ UNCHANGED <<stage, joined, lagged, wire, app>>
    BY <1>7 DEF Receive, TypeOK
  <2>2. stage[c] # "none" /\ joined[c] \in Nat
    BY <1>7 DEF Receive, Placed
  <2>3. ASSUME NEW n \in Nat, joined[c] < n, n < next'[c],
               stage[c] # "none", lagged[c] = 0, dropped[c] = 0
        PROVE  Around(c, n)'
    <3>1. CASE n = next[c]
      BY <2>1, <3>1 DEF Around
    <3>2. CASE n # next[c]
      <4>1. n < next[c] /\ n # 0
        BY <1>0, <2>1, <2>2, <2>3, <3>2
      <4>2. Around(c, n) /\ n # held[c]
        BY <2>1, <2>3, <4>1 DEF Complete
      <4> QED
        BY <2>1, <4>2 DEF Around
    <3> QED
      BY <3>1, <3>2
  <2> QED
    BY <2>1, <2>3 DEF Complete
<1>8. CASE Lag(c)
  <2>1. lagged'[c] = lagged[c] + (Oldest - next[c]) /\ next[c] < Oldest
    BY <1>8 DEF Lag, TypeOK
  <2>2. Oldest \in Int
    BY DEF TypeOK, Oldest
  <2>3. lagged'[c] # 0
    BY <1>0, <2>1, <2>2
  <2> QED
    BY <2>3 DEF Complete
<1>9. CASE Dispatch(c)
  <2>1. /\ wire[c] # <<>> /\ wire' = [wire EXCEPT ![c] = Tail(@)]
        /\ UNCHANGED <<stage, joined, next, held, lagged, seen>>
    BY <1>9 DEF Dispatch
  <2>2. /\ Head(wire[c]) = wire[c][1] /\ wire[c][1] \in Frames
        /\ \A i \in 2..Len(wire[c]) :
             wire'[c][i - 1] = wire[c][i] /\ i - 1 \in 1..Len(wire'[c])
    BY <2>1, WireShrinks
  <2>3. \A i \in 1..Len(wire[c]) : i = 1 \/ i \in 2..Len(wire[c])
    BY <1>0
  <2>4. CASE wire[c][1].kind = "ack"
    <3>1. buffer' = buffer /\ dropped' = dropped
      BY <1>9, <2>2, <2>4 DEF Dispatch
    <3>2. ASSUME NEW n \in Nat, Around(c, n) PROVE Around(c, n)'
      <4>1. n = held[c] => Around(c, n)'
        BY <2>1 DEF Around
      <4>2. \A i \in 1..Len(wire[c]) : wire[c][i].kind = "event" =>
              \E j \in 1..Len(wire'[c]) : wire'[c][j] = wire[c][i]
        BY <2>2, <2>3, <2>4
      <4> QED
        BY <2>1, <3>1, <3>2, <4>1, <4>2, Moves
    <3> QED
      BY <2>1, <3>1, <3>2 DEF Complete
  <2>5. CASE wire[c][1].kind # "ack"
    <3>1. Yield(c, wire[c][1])
      BY <1>9, <2>2, <2>5 DEF Dispatch
    <3>2. PICK k \in {0, 1} :
            /\ Len(buffer'[c]) = Len(buffer[c]) + 1 - k
            /\ dropped'[c] = dropped[c] + k
            /\ buffer'[c][Len(buffer'[c])] = wire[c][1]
            /\ \A i \in 1..Len(buffer[c]) : i > k =>
                 i - k \in 1..Len(buffer'[c]) /\ buffer'[c][i - k] = buffer[c][i]
      BY <2>2, <3>1, YieldFacts
    <3>3. CASE dropped'[c] # 0
      BY <3>3 DEF Complete
    <3>4. CASE dropped'[c] = 0
      <4>1. k = 0 /\ dropped[c] = 0
        BY <1>0, <3>2, <3>4
      <4>2. \A i \in 1..Len(buffer[c]) :
              i \in 1..Len(buffer'[c]) /\ buffer'[c][i] = buffer[c][i]
        <5>1. ASSUME NEW i \in 1..Len(buffer[c])
              PROVE  i \in 1..Len(buffer'[c]) /\ buffer'[c][i] = buffer[c][i]
          <6>1. i > 0 /\ i - 0 = i
            BY <1>0
          <6> QED
            BY <3>2, <4>1, <6>1
        <5> QED
          BY <5>1
      <4>3. Len(buffer'[c]) \in 1..Len(buffer'[c])
        BY <1>0, <3>2, <4>1
      <4>4. \A i \in 1..Len(wire[c]) :
              \/ \E j \in 1..Len(wire'[c]) : wire'[c][j] = wire[c][i]
              \/ \E j \in 1..Len(buffer'[c]) : buffer'[c][j] = wire[c][i]
        BY <2>2, <2>3, <3>2, <4>3
      <4>5. ASSUME NEW n \in Nat, Around(c, n) PROVE Around(c, n)'
        <5>1. n = held[c] => Around(c, n)'
          BY <2>1 DEF Around
        <5> QED
          BY <2>1, <4>2, <4>4, <4>5, <5>1, Moves
      <4> QED
        BY <2>1, <4>1, <4>5 DEF Complete
    <3> QED
      BY <3>3, <3>4
  <2> QED
    BY <2>4, <2>5
<1>10. CASE Handle(c)
  <2>1. /\ buffer[c] # <<>> /\ buffer' = [buffer EXCEPT ![c] = Tail(@)]
        /\ seen'[c] = seen[c] \cup {Head(buffer[c])}
        /\ UNCHANGED <<stage, joined, next, held, lagged, wire, dropped>>
    BY <1>10 DEF Handle, TypeOK
  <2>2. /\ Head(buffer[c]) = buffer[c][1]
        /\ \A i \in 2..Len(buffer[c]) :
             buffer'[c][i - 1] = buffer[c][i] /\ i - 1 \in 1..Len(buffer'[c])
    BY <2>1, BufferShrinks
  <2>3. \A i \in 1..Len(buffer[c]) : i = 1 \/ i \in 2..Len(buffer[c])
    BY <1>0
  <2>4. ASSUME NEW n \in Nat, Around(c, n) PROVE Around(c, n)'
    <3>1. n = held[c] => Around(c, n)'
      BY <2>1 DEF Around
    <3>2. \A i \in 1..Len(buffer[c]) :
            \/ \E j \in 1..Len(buffer'[c]) : buffer'[c][j] = buffer[c][i]
            \/ buffer[c][i] \in seen'[c]
      BY <2>1, <2>2, <2>3
    <3> QED
      BY <2>1, <2>4, <3>1, <3>2, Moves
  <2> QED
    BY <2>1, <2>4 DEF Complete
<1> QED
  BY <1>1, <1>2, <1>4, <1>5, <1>6, <1>7, <1>8, <1>9, <1>10 DEF Acts

-----------------------------------------------------------------------------
(* The invariant and what follows from it.                                 *)

Whole(c) == Placed(c) /\ AllKnown(c) /\ InOrder(c) /\ OneAck(c) /\ Counted(c) /\ Complete(c)

IInv == TypeOK /\ \A c \in Clients : Whole(c)

LEMMA InitInv == Init => IInv
<1> SUFFICES ASSUME Init PROVE IInv
  OBVIOUS
<1>1. TypeOK
  BY DEF Init, TypeOK
<1>2. ASSUME NEW c \in Clients PROVE Whole(c)
  <2>1. /\ stage[c] = "none" /\ joined[c] = NotJoined /\ next[c] = 0 /\ held[c] = 0
        /\ lagged[c] = 0 /\ written[c] = 0 /\ wire[c] = <<>> /\ ackAt[c] = NotJoined
        /\ buffer[c] = <<>> /\ dropped[c] = 0 /\ seen[c] = {}
    BY DEF Init
  <2>2. Placed(c) /\ Complete(c)
    BY <2>1 DEF Placed, Complete
  <2>3. Len(wire[c]) = 0 /\ Len(buffer[c]) = 0 /\ \A i \in 1..0 : FALSE
    BY <2>1
  <2>4. AllKnown(c) /\ InOrder(c) /\ OneAck(c)
    BY <2>1, <2>3 DEF AllKnown, InOrder, OneAck
  <2>5. IsFiniteSet(seen[c]) /\ Cardinality(seen[c]) = 0
    BY <2>1, FS_EmptySet
  <2>6. AckMade(c) = 0 /\ AckSeen(c) = 0 /\ Taken(c) = 0 /\ Holds(c) = 0
    BY <2>1 DEF AckMade, AckSeen, Taken, Holds
  <2>7. Counted(c)
    BY <2>1, <2>3, <2>5, <2>6 DEF Counted, Given, Queued, Ended
  <2> QED
    BY <2>2, <2>4, <2>7 DEF Whole
<1> QED
  BY <1>1, <1>2 DEF IInv

LEMMA StepInv == IInv /\ [Next]_vars => IInv'
<1> SUFFICES ASSUME IInv, [Next]_vars PROVE IInv'
  OBVIOUS
<1>1. TypeOK /\ TypeOK'
  BY TypeStep DEF IInv
<1>2. ASSUME NEW c \in Clients PROVE Whole(c)'
  <2>1. Placed(c) /\ AllKnown(c) /\ InOrder(c) /\ OneAck(c) /\ Counted(c) /\ Complete(c)
    BY DEF IInv, Whole
  <2>2. published <= published' /\ (Same(c) \/ (Acts(c) /\ published' = published))
    BY <1>1, OneConnection
  <2>3. Placed(c)'
    BY <1>1, <2>1, <2>2, PlacedStep
  <2>4. AllKnown(c)'
    BY <1>1, <2>1, <2>2, KnownStep
  <2>5. InOrder(c)'
    BY <1>1, <2>1, <2>2, OrderStep
  <2>6. OneAck(c)'
    BY <1>1, <2>1, <2>2, AckStep
  <2>7. Counted(c)'
    BY <1>1, <2>1, <2>2, CountStep
  <2>8. Complete(c)'
    BY <1>1, <2>1, <2>2, CompleteStep
  <2> QED
    BY <2>3, <2>4, <2>5, <2>6, <2>7, <2>8 DEF Whole
<1> QED
  BY <1>1, <1>2 DEF IInv

\* The inductive invariant of a connection that carries two streams (events.subscribe's
\* forwarder, the socket, yieldEvent and the consumer).
THEOREM Invariant == Spec => []IInv
BY InitInv, StepInv, PTL DEF Spec

\* droppedEventCount is exact: with it and with what the receiver skipped, every frame
\* made for a client is accounted for at every moment (DropsAreCounted).
THEOREM DropsCounted == Spec => []DropsAreCounted
<1>1. IInv => DropsAreCounted
  <2> SUFFICES ASSUME IInv, NEW c \in Clients
               PROVE  Made(c) = Waiting(c) + Cardinality(seen[c]) + lagged[c] + dropped[c]
                                  + (IF ackAt[c] # NotJoined THEN 1 ELSE 0)
    BY DEF DropsAreCounted
  <2>0. IsFiniteSet(seen[c]) /\ TypeOK
    BY DEF IInv, Whole, Counted
  <2>1. Made(c) = Given(c)
    BY DEF Made, Given, AckMade, Taken
  <2>2. Waiting(c) = Queued(c)
    BY DEF Waiting, Queued, Holds
  <2>3. (IF ackAt[c] # NotJoined THEN 1 ELSE 0) = AckSeen(c)
    BY DEF AckSeen
  <2>4. Given(c) = Queued(c) + Ended(c) + lagged[c]
    BY DEF IInv, Whole, Counted
  <2>5. Ended(c) = Cardinality(seen[c]) + dropped[c] + AckSeen(c)
    BY DEF Ended
  <2>6. /\ Queued(c) \in Int /\ Cardinality(seen[c]) \in Nat /\ dropped[c] \in Nat
        /\ AckSeen(c) \in Int /\ lagged[c] \in Nat
    BY <2>0, CountTypes
  <2>7. Given(c) = Queued(c) + Cardinality(seen[c]) + lagged[c] + dropped[c] + AckSeen(c)
    BY <2>4, <2>5, <2>6
  <2> QED
    BY <2>1, <2>2, <2>3, <2>7
<1> QED
  BY <1>1, Invariant, PTL

\* The receiver exists before the acknowledgement ("subscribe BEFORE acking"): a client
\* that lost nothing misses no event published after its acknowledgement.
THEOREM KeptUp == Spec => []KeptUpMissesNothing
<1>1. IInv => KeptUpMissesNothing
  <2> SUFFICES ASSUME IInv, NEW c \in Clients,
                      ackAt[c] # NotJoined, lagged[c] = 0, dropped[c] = 0,
                      NEW n \in (ackAt[c] + 1)..published
               PROVE  n \in SeenNumbers(c, "event") \cup OnTheWay(c)
    BY DEF KeptUpMissesNothing
  <2>1. /\ stage[c] = "forwarding" /\ joined[c] <= ackAt[c]
        /\ joined[c] \in Nat /\ ackAt[c] \in Nat /\ next[c] \in Nat /\ published \in Nat
    <3>1. stage[c] = "forwarding" /\ joined[c] <= ackAt[c] /\ Placed(c)
      BY DEF IInv, Whole, OneAck
    <3>2. ackAt[c] \in Nat /\ next[c] \in Nat /\ published \in Nat
      BY DEF IInv, TypeOK
    <3> QED
      BY <3>1, <3>2 DEF Placed
  <2>2. n \in Nat /\ joined[c] < n /\ n <= published
    BY <2>1
  <2>3. CASE n < next[c]
    <3>1. Around(c, n)
      BY <2>1, <2>2, <2>3 DEF IInv, Whole, Complete
    <3> QED
      BY <3>1 DEF Around, OnTheWay, SeenNumbers
  <2>4. CASE ~(n < next[c])
    <3>1. n \in next[c]..published
      BY <2>1, <2>2, <2>4
    <3> QED
      BY <3>1 DEF OnTheWay
  <2> QED
    BY <2>3, <2>4
<1> QED
  BY <1>1, Invariant, PTL

-----------------------------------------------------------------------------
(* What keeps every event on its way: the safety core of EventsArrive.     *)

\* Client c should get event n, and has lost nothing so far.
Due(c, n) ==
  /\ stage[c] = "forwarding" /\ lagged[c] = 0 /\ dropped[c] = 0
  /\ joined[c] < n /\ n <= published

EventsAreKept ==
  \A c \in Clients, n \in Nat :
    Due(c, n) => n \in SeenNumbers(c, "event") \cup OnTheWay(c)

\* Who has the next step of an event: the forwarder, which takes one, or takes the oldest
\* that the ring still holds, or writes the one it has; the client's actor; the main actor.
ForwarderReady(c) == held[c] # 0 \/ next[c] <= published
AppReady(c) == wire[c] # <<>> \/ buffer[c] # <<>>

EventsNeverStall ==
  \A c \in Clients, n \in Nat :
    Due(c, n) /\ n \notin SeenNumbers(c, "event") => ForwarderReady(c) \/ AppReady(c)

\* What a client has handled is what it is not waiting for.
SeenOnce ==
  \A c \in Clients : SeenNumbers(c, "event") \cap (OnTheWay(c) \ {0}) = {}

\* The steps that bring a client's frames nearer to its main actor, and how many are left.
Delivers(c) == Receive(c) \/ Lag(c) \/ Forward(c) \/ Dispatch(c) \/ Handle(c)

Untaken(c) == IF stage[c] = "forwarding" THEN published + 1 - next[c] ELSE 0

StepsLeft(c) == 4 * Untaken(c) + 3 * Holds(c) + 2 * Len(wire[c]) + Len(buffer[c])

DeliveryDescends == [][\A c \in Clients : Delivers(c) => StepsLeft(c)' < StepsLeft(c)]_vars

\* An event that is due is in its client's hands or on its way, whatever was published,
\* written or dropped since (subscribe, recv, the socket, yieldEvent and the consumer).
THEOREM EventsKept == Spec => []EventsAreKept
<1>1. IInv => EventsAreKept
  <2> SUFFICES ASSUME IInv, NEW c \in Clients, NEW n \in Nat, Due(c, n)
               PROVE  n \in SeenNumbers(c, "event") \cup OnTheWay(c)
    BY DEF EventsAreKept
  <2>1. next[c] \in Nat /\ published \in Nat /\ n <= published
    BY DEF IInv, TypeOK, Due
  <2>2. CASE n < next[c]
    <3>1. Around(c, n)
      BY <2>2 DEF IInv, Whole, Complete, Due
    <3> QED
      BY <3>1 DEF Around, OnTheWay, SeenNumbers
  <2>3. CASE ~(n < next[c])
    <3>1. n \in next[c]..published
      BY <2>1, <2>3
    <3> QED
      BY <3>1 DEF OnTheWay
  <2> QED
    BY <2>2, <2>3
<1> QED
  BY <1>1, Invariant, PTL

\* While an event that is due has not been handled, somebody has a step to take: no
\* queue of the four holds it with its reader idle.
THEOREM EventsGoOn == Spec => []EventsNeverStall
<1>1. IInv => EventsNeverStall
  <2> SUFFICES ASSUME IInv, NEW c \in Clients, NEW n \in Nat, Due(c, n),
                      n \notin SeenNumbers(c, "event")
               PROVE  ForwarderReady(c) \/ AppReady(c)
    BY DEF EventsNeverStall
  <2>1. next[c] \in Nat /\ published \in Nat /\ n <= published /\ joined[c] < n
    BY DEF IInv, TypeOK, Due
  <2>2. CASE n < next[c]
    <3>1. Around(c, n)
      BY <2>2 DEF IInv, Whole, Complete, Due
    <3>2. ~ \E f \in seen[c] : f.kind = "event" /\ f.n = n
      BY DEF SeenNumbers
    <3>3. joined[c] \in Nat
      BY DEF IInv, Whole, Placed, Due
    <3>4. n # 0
      BY <2>1, <3>3
    <3>5. CASE n = held[c]
      BY <3>4, <3>5 DEF ForwarderReady
    <3>6. CASE \E i \in 1..Len(wire[c]) : wire[c][i].n = n
      <4>1. wire[c] # <<>>
        BY <3>6
      <4> QED
        BY <4>1 DEF AppReady
    <3>7. CASE \E i \in 1..Len(buffer[c]) : buffer[c][i].n = n
      <4>1. buffer[c] # <<>>
        BY <3>7
      <4> QED
        BY <4>1 DEF AppReady
    <3> QED
      BY <3>1, <3>2, <3>5, <3>6, <3>7 DEF Around
  <2>3. CASE ~(n < next[c])
    BY <2>1, <2>3 DEF ForwarderReady
  <2> QED
    BY <2>2, <2>3
<1> QED
  BY <1>1, Invariant, PTL

\* No event is handled while a copy of it is still to come.
THEOREM EventsSeenOnce == Spec => []SeenOnce
<1>1. IInv => SeenOnce
  <2> SUFFICES ASSUME IInv, NEW c \in Clients,
                      NEW f \in seen[c], f.kind = "event", f.n \in OnTheWay(c), f.n # 0
               PROVE  FALSE
    BY DEF SeenOnce, SeenNumbers
  <2>1. Known(c, f)
    BY DEF IInv, Whole, AllKnown
  <2>2. next[c] \in Nat /\ held[c] \in Nat /\ published \in Nat /\ f.n \in Nat
    BY DEF IInv, TypeOK, Frames
  <2>3. f.n # held[c] /\ f.n \notin next[c]..published
    BY <2>1, <2>2 DEF Known
  <2>4. CASE \E i \in 1..Len(wire[c]) : wire[c][i].kind = "event" /\ wire[c][i].n = f.n
    <3>1. PICK i \in 1..Len(wire[c]) : wire[c][i].kind = "event" /\ wire[c][i].n = f.n
      BY <2>4
    <3>2. Before(f, wire[c][i])
      BY <3>1 DEF IInv, Whole, InOrder
    <3> QED
      BY <2>2, <3>1, <3>2 DEF Before
  <2>5. CASE \E i \in 1..Len(buffer[c]) : buffer[c][i].kind = "event" /\ buffer[c][i].n = f.n
    <3>1. PICK i \in 1..Len(buffer[c]) : buffer[c][i].kind = "event" /\ buffer[c][i].n = f.n
      BY <2>5
    <3>2. Before(f, buffer[c][i])
      BY <3>1 DEF IInv, Whole, InOrder
    <3> QED
      BY <2>2, <3>1, <3>2 DEF Before
  <2> QED
    BY <2>3, <2>4, <2>5 DEF OnTheWay
<1> QED
  BY <1>1, Invariant, PTL

\* The arithmetic of StepsLeft.
LEMMA ZeroSum ==
  ASSUME NEW u \in Nat, NEW h \in Nat, NEW w \in Nat, NEW b \in Nat
  PROVE  /\ 4 * u + 3 * h + 2 * w + b \in Nat
         /\ 4 * u + 3 * h + 2 * w + b = 0 => u = 0 /\ h = 0 /\ w = 0 /\ b = 0
OBVIOUS

\* A frame that leaves a queue for the next one, or for good.
LEMMA LessSum ==
  ASSUME NEW u \in Nat, NEW h \in Nat, NEW w \in Nat, NEW b \in Nat,
         NEW u2 \in Nat, NEW h2 \in Nat, NEW w2 \in Nat, NEW b2 \in Nat,
         \/ u2 < u /\ h2 <= h + 1 /\ w2 = w /\ b2 = b
         \/ u2 = u /\ h2 < h /\ w2 = w + 1 /\ b2 = b
         \/ u2 = u /\ h2 = h /\ w2 < w /\ b2 <= b + 1
         \/ u2 = u /\ h2 = h /\ w2 = w /\ b2 < b
  PROVE  4 * u2 + 3 * h2 + 2 * w2 + b2 < 4 * u + 3 * h + 2 * w + b
OBVIOUS

LEMMA StepsType ==
  ASSUME IInv, NEW c \in Clients
  PROVE  /\ StepsLeft(c) \in Nat
         /\ StepsLeft(c) = 0 => AppReady(c) = FALSE
         /\ StepsLeft(c) = 0 /\ stage[c] = "forwarding" => ForwarderReady(c) = FALSE
<1>1. /\ next[c] \in Nat /\ published \in Nat /\ held[c] \in Nat
      /\ stage[c] = "forwarding" => next[c] <= published + 1
  BY DEF IInv, TypeOK, Whole, Placed
<1>2. wire[c] \in Seq(Frames) /\ buffer[c] \in Seq(Frames)
  BY DEF IInv, TypeOK
<1>3. /\ Len(wire[c]) \in Nat /\ Len(buffer[c]) \in Nat
      /\ Len(wire[c]) = 0 => wire[c] = <<>>
      /\ Len(buffer[c]) = 0 => buffer[c] = <<>>
  BY <1>2
<1>4. Holds(c) \in Nat /\ (Holds(c) = 0 => held[c] = 0)
  BY DEF Holds
<1>5. Untaken(c) \in Nat /\ (stage[c] = "forwarding" => Untaken(c) = published + 1 - next[c])
  BY <1>1 DEF Untaken
<1>6. /\ StepsLeft(c) \in Nat
      /\ StepsLeft(c) = 0
           => Untaken(c) = 0 /\ Holds(c) = 0 /\ Len(wire[c]) = 0 /\ Len(buffer[c]) = 0
  <2>1. /\ Untaken(c) \in Nat /\ Holds(c) \in Nat
        /\ Len(wire[c]) \in Nat /\ Len(buffer[c]) \in Nat
    BY <1>3, <1>4, <1>5
  <2>2. StepsLeft(c) = 4 * Untaken(c) + 3 * Holds(c) + 2 * Len(wire[c]) + Len(buffer[c])
    BY DEF StepsLeft
  <2> QED
    BY <2>1, <2>2, ZeroSum
<1> QED
  BY <1>1, <1>3, <1>4, <1>5, <1>6 DEF AppReady, ForwarderReady

LEMMA StepsFall ==
  ASSUME IInv, NEW c \in Clients, Delivers(c)
  PROVE  StepsLeft(c)' < StepsLeft(c)
<1>1. /\ next[c] \in Nat /\ published \in Nat /\ held[c] \in Nat
      /\ stage[c] = "forwarding" => next[c] <= published + 1
      /\ wire[c] \in Seq(Frames) /\ buffer[c] \in Seq(Frames)
  BY DEF IInv, TypeOK, Whole, Placed
<1>2. Len(wire[c]) \in Nat /\ Len(buffer[c]) \in Nat
  BY <1>1
<1>0. /\ Untaken(c) \in Nat /\ Holds(c) \in Nat
      /\ Untaken(c)' \in Nat /\ Holds(c)' \in Nat
      /\ Len(wire'[c]) \in Nat /\ Len(buffer'[c]) \in Nat
  <2>1. IInv'
    BY StepInv DEF Delivers, Next, Core
  <2>2. /\ next'[c] \in Nat /\ published' \in Nat
        /\ stage'[c] = "forwarding" => next'[c] <= published' + 1
        /\ wire'[c] \in Seq(Frames) /\ buffer'[c] \in Seq(Frames)
    BY <2>1 DEF IInv, TypeOK, Whole, Placed
  <2> QED
    BY <1>1, <2>2 DEF Untaken, Holds
<1> DEFINE Falls ==
      \/ /\ Untaken(c)' < Untaken(c) /\ Holds(c)' <= Holds(c) + 1
         /\ Len(wire'[c]) = Len(wire[c]) /\ Len(buffer'[c]) = Len(buffer[c])
      \/ /\ Untaken(c)' = Untaken(c) /\ Holds(c)' < Holds(c)
         /\ Len(wire'[c]) = Len(wire[c]) + 1 /\ Len(buffer'[c]) = Len(buffer[c])
      \/ /\ Untaken(c)' = Untaken(c) /\ Holds(c)' = Holds(c)
         /\ Len(wire'[c]) < Len(wire[c]) /\ Len(buffer'[c]) <= Len(buffer[c]) + 1
      \/ /\ Untaken(c)' = Untaken(c) /\ Holds(c)' = Holds(c)
         /\ Len(wire'[c]) = Len(wire[c]) /\ Len(buffer'[c]) < Len(buffer[c])
<1>3. ASSUME Receive(c) PROVE Falls
  <2>1. /\ stage[c] = "forwarding" /\ held[c] = 0 /\ stage'[c] = stage[c]
        /\ next'[c] = next[c] + 1 /\ held'[c] = next[c] /\ published' = published
        /\ wire' = wire /\ buffer' = buffer
    BY <1>3 DEF Receive, IInv, TypeOK, app
  <2>2. Untaken(c)' < Untaken(c)
    BY <1>1, <2>1 DEF Untaken
  <2>3. Holds(c)' <= Holds(c) + 1
    BY <2>1 DEF Holds
  <2> QED
    BY <2>1, <2>2, <2>3
<1>4. ASSUME Lag(c) PROVE Falls
  <2>1. /\ stage[c] = "forwarding" /\ stage' = stage /\ held' = held
        /\ next[c] < Oldest /\ next'[c] = Oldest /\ published' = published
        /\ wire' = wire /\ buffer' = buffer
    BY <1>4 DEF Lag, IInv, TypeOK, app
  <2>2. Oldest \in Nat
    BY <1>1 DEF Oldest
  <2>3. Untaken(c)' < Untaken(c)
    BY <1>1, <2>1, <2>2 DEF Untaken
  <2>4. Holds(c)' <= Holds(c) + 1
    BY <2>1 DEF Holds
  <2> QED
    BY <2>1, <2>3, <2>4
<1>5. ASSUME Forward(c) PROVE Falls
  <2>1. /\ held[c] # 0 /\ held'[c] = 0 /\ stage' = stage /\ next' = next
        /\ published' = published /\ buffer' = buffer
        /\ wire'[c] = Append(wire[c], Frame("event", held[c]))
    BY <1>5 DEF Forward, IInv, TypeOK, app
  <2>2. Len(wire'[c]) = Len(wire[c]) + 1
    BY <1>1, <2>1 DEF Frame, Frames
  <2>3. Holds(c)' < Holds(c) /\ Untaken(c)' = Untaken(c)
    BY <2>1 DEF Holds, Untaken
  <2> QED
    BY <2>1, <2>2, <2>3
<1>6. ASSUME Dispatch(c) PROVE Falls
  <2>1. /\ wire[c] # <<>> /\ wire'[c] = Tail(wire[c])
        /\ held' = held /\ stage' = stage /\ next' = next /\ published' = published
        /\ UNCHANGED buffer \/ Yield(c, Head(wire[c]))
    BY <1>6 DEF Dispatch, forwarder, IInv, TypeOK
  <2>2. Len(wire'[c]) = Len(wire[c]) - 1
    BY <1>1, <2>1
  <2>3. Len(buffer'[c]) \in Nat /\ Len(buffer'[c]) <= Len(buffer[c]) + 1
    <3>1. Head(wire[c]) \in Frames
      BY <1>1, <2>1
    <3>2. CASE UNCHANGED buffer
      BY <1>2, <3>2
    <3>3. CASE Yield(c, Head(wire[c]))
      <4>1. BufferCap \in Nat \ {0}
        OBVIOUS
      <4>2. \/ buffer'[c] = Append(buffer[c], Head(wire[c]))
            \/ /\ Len(buffer[c]) # 0
               /\ buffer'[c] = Append(Tail(buffer[c]), Head(wire[c]))
        BY <1>1, <1>2, <3>3, <4>1 DEF Yield, IInv, TypeOK
      <4>3. CASE buffer'[c] = Append(buffer[c], Head(wire[c]))
        BY <1>1, <1>2, <3>1, <4>3
      <4>4. CASE /\ Len(buffer[c]) # 0
                 /\ buffer'[c] = Append(Tail(buffer[c]), Head(wire[c]))
        <5>1. Tail(buffer[c]) \in Seq(Frames) /\ Len(Tail(buffer[c])) = Len(buffer[c]) - 1
          BY <1>1, <1>2, <4>4
        <5> QED
          BY <1>2, <3>1, <4>4, <5>1
      <4> QED
        BY <4>2, <4>3, <4>4
    <3> QED
      BY <2>1, <3>2, <3>3
  <2>4. Holds(c)' = Holds(c) /\ Untaken(c)' = Untaken(c)
    BY <2>1 DEF Holds, Untaken
  <2> QED
    BY <1>2, <2>1, <2>2, <2>3, <2>4
<1>7. ASSUME Handle(c) PROVE Falls
  <2>1. /\ buffer[c] # <<>> /\ buffer'[c] = Tail(buffer[c])
        /\ held' = held /\ stage' = stage /\ next' = next /\ published' = published
        /\ wire' = wire
    BY <1>7 DEF Handle, forwarder, IInv, TypeOK
  <2>2. Len(buffer'[c]) = Len(buffer[c]) - 1
    BY <1>1, <2>1
  <2>4. Holds(c)' = Holds(c) /\ Untaken(c)' = Untaken(c)
    BY <2>1 DEF Holds, Untaken
  <2> QED
    BY <1>2, <2>1, <2>2, <2>4
<1>8. Falls
  BY <1>3, <1>4, <1>5, <1>6, <1>7 DEF Delivers
<1> QED
  BY <1>0, <1>2, <1>8, LessSum DEF StepsLeft

\* Every step of a delivery brings its client nearer to having nothing to wait for: only
\* a new subscription, event or frame of a run makes work, and the steps cannot go round.
THEOREM DeliveryEnds == Spec => [](\A c \in Clients : StepsLeft(c) \in Nat) /\ DeliveryDescends
<1>1. IInv => \A c \in Clients : StepsLeft(c) \in Nat
  BY StepsType
<1>2. IInv /\ [Next]_vars
        => [\A c \in Clients : Delivers(c) => StepsLeft(c)' < StepsLeft(c)]_vars
  BY StepsFall
<1> QED
  BY <1>1, <1>2, Invariant, PTL DEF Spec, DeliveryDescends

-----------------------------------------------------------------------------
(* Both streams of a connection implement Feed.                            *)

\* What a frame handled adds to the numbers of a kind.
LEMMA SeenGrows ==
  ASSUME NEW c \in Clients, NEW f, NEW kind, seen'[c] = seen[c] \cup {f}
  PROVE  SeenNumbers(c, kind)' =
           IF f.kind = kind THEN SeenNumbers(c, kind) \cup {f.n} ELSE SeenNumbers(c, kind)
BY DEF SeenNumbers

LEMMA InitFeeds == Init => Bus!Init /\ Run!Init
<1> SUFFICES ASSUME Init PROVE Bus!Init /\ Run!Init
  OBVIOUS
<1>1. \A c \in Clients : SeenNumbers(c, "event") = {} /\ SeenNumbers(c, "run") = {}
  BY DEF Init, SeenNumbers
<1>2. joined \in [Clients -> {0, NotJoined}]
  BY DEF Init
<1>3. [c \in Clients |-> 0] \in [Clients -> {0, NotJoined}]
  OBVIOUS
<1> QED
  BY <1>1, <1>2, <1>3 DEF Init, Bus!Init, Run!Init

\* A step that gives no client a frame, publishes nothing and writes no run's frame.
LEMMA QuietStep ==
  ASSUME UNCHANGED <<published, joined, written, seen>>
  PROVE  UNCHANGED Bus!vars /\ UNCHANGED Run!vars
<1>1. ASSUME NEW kind
      PROVE  [c \in Clients |-> SeenNumbers(c, kind)]' = [c \in Clients |-> SeenNumbers(c, kind)]
  BY DEF SeenNumbers
<1> QED
  BY <1>1 DEF Bus!vars, Run!vars

LEMMA HandleRefines ==
  ASSUME IInv, NEW c \in Clients, Handle(c)
  PROVE  [Bus!Next]_Bus!vars /\ [Run!Next]_Run!vars
<1>1. /\ buffer[c] # <<>> /\ buffer' = [buffer EXCEPT ![c] = Tail(@)]
      /\ seen' = [seen EXCEPT ![c] = @ \cup {Head(buffer[c])}]
      /\ UNCHANGED <<published, joined, written>>
  BY DEF Handle, forwarder
<1>2. PICK f \in Frames : f = buffer[c][1] /\ Head(buffer[c]) = f
  BY <1>1, BufferShrinks DEF IInv
<1>3. 1 \in 1..Len(buffer[c])
  BY <1>1, BufferShrinks DEF IInv
<1>4. f.kind # "ack" /\ Known(c, f) /\ \A g \in seen[c] : Before(g, f)
  BY <1>2, <1>3 DEF IInv, Whole, AllKnown, InOrder
<1>5. /\ seen' = [seen EXCEPT ![c] = @ \cup {f}] /\ seen \in [Clients -> SUBSET Frames]
      /\ f.n \in Nat /\ f.kind \in {"event", "run"}
  BY <1>1, <1>2, <1>4 DEF IInv, TypeOK, Frames
<1> DEFINE G(kind) == [d \in Clients |-> SeenNumbers(d, kind)]
<1>6. ASSUME NEW kind, f.kind # kind PROVE G(kind)' = G(kind)
  <2>1. ASSUME NEW d \in Clients PROVE SeenNumbers(d, kind)' = SeenNumbers(d, kind)
    <3>1. CASE d = c
      BY <1>5, <1>6, <3>1, SeenGrows
    <3>2. CASE d # c
      BY <1>5, <3>2 DEF SeenNumbers
    <3> QED
      BY <3>1, <3>2
  <2> QED
    BY <2>1
<1>7. ASSUME NEW kind, f.kind = kind PROVE G(kind)' = [G(kind) EXCEPT ![c] = @ \cup {f.n}]
  <2>1. SeenNumbers(c, kind)' = SeenNumbers(c, kind) \cup {f.n}
    BY <1>5, <1>7, SeenGrows
  <2>2. ASSUME NEW d \in Clients, d # c PROVE SeenNumbers(d, kind)' = SeenNumbers(d, kind)
    BY <1>5, <2>2 DEF SeenNumbers
  <2> QED
    BY <2>1, <2>2
<1>8. \A m \in SeenNumbers(c, f.kind) : m < f.n
  BY <1>4 DEF SeenNumbers, Before
<1>9. CASE f.kind = "event"
  <2>1. /\ joined[c] # NotJoined /\ f.n > joined[c] /\ f.n <= published
        /\ f.n \in 1..published
    <3>1. Placed(c) /\ stage[c] = "forwarding" /\ joined[c] < f.n /\ f.n < next[c]
      BY <1>4, <1>9 DEF Known, IInv, Whole
    <3>2. joined[c] \in Nat /\ next[c] <= published + 1 /\ next[c] \in Nat /\ published \in Nat
      BY <3>1 DEF Placed, IInv, TypeOK
    <3> QED
      BY <1>5, <3>1, <3>2
  <2>2. Bus!Give(c, f.n)
    BY <1>1, <1>7, <1>8, <1>9, <2>1 DEF Bus!Give
  <2>3. UNCHANGED Run!vars
    BY <1>1, <1>6, <1>9 DEF Run!vars
  <2> QED
    BY <2>1, <2>2, <2>3 DEF Bus!Next
<1>10. CASE f.kind = "run"
  <2>1. 0 < f.n /\ f.n <= written[c] /\ f.n \in 1..written[c] /\ 0 # NotJoined
    <3>1. 0 < f.n /\ f.n <= written[c] /\ written[c] \in Nat
      BY <1>4, <1>10 DEF Known, IInv, TypeOK
    <3> QED
      BY <1>5, <3>1
  <2>2. Run!Give(c, f.n)
    BY <1>1, <1>5, <1>7, <1>8, <1>10, <2>1 DEF Run!Give
  <2>3. UNCHANGED Bus!vars
    BY <1>1, <1>6, <1>10 DEF Bus!vars
  <2> QED
    BY <2>1, <2>2, <2>3 DEF Run!Next
<1> QED
  BY <1>5, <1>9, <1>10

LEMMA StepFeeds ==
  ASSUME IInv, [Next]_vars
  PROVE  [Bus!Next]_Bus!vars /\ [Run!Next]_Run!vars
<1> USE DEF forwarder, app
<1>0. published \in Nat /\ written \in [Clients -> Nat] /\ TypeOK
  BY DEF IInv, TypeOK
<1>1. CASE Publish
  <2>1. /\ published' = published + 1 /\ UNCHANGED <<joined, written, seen>>
    BY <1>1 DEF Publish
  <2>2. \A kind : [c \in Clients |-> SeenNumbers(c, kind)]' = [c \in Clients |-> SeenNumbers(c, kind)]
    BY <2>1 DEF SeenNumbers
  <2>3. Bus!Send(Clients)
    BY <2>1, <2>2 DEF Bus!Send
  <2>4. UNCHANGED Run!vars
    BY <2>1, <2>2 DEF Run!vars
  <2>5. Clients \in SUBSET Clients
    OBVIOUS
  <2> QED
    BY <2>3, <2>4, <2>5 DEF Bus!Next
<1>2. ASSUME NEW c \in Clients, Subscribe(c)
      PROVE  [Bus!Next]_Bus!vars /\ [Run!Next]_Run!vars
  <2>1. /\ stage[c] = "none" /\ joined' = [joined EXCEPT ![c] = published]
        /\ UNCHANGED <<published, written, seen>>
    BY <1>2 DEF Subscribe
  <2>2. joined[c] = NotJoined
    BY <2>1 DEF IInv, Whole, Placed
  <2>3. \A kind : [d \in Clients |-> SeenNumbers(d, kind)]' = [d \in Clients |-> SeenNumbers(d, kind)]
    BY <2>1 DEF SeenNumbers
  <2>4. Bus!Join(c)
    BY <2>1, <2>2, <2>3 DEF Bus!Join
  <2>5. UNCHANGED Run!vars
    BY <2>1, <2>3 DEF Run!vars
  <2> QED
    BY <2>4, <2>5 DEF Bus!Next
<1>3. ASSUME NEW c \in Clients, RunWrites(c)
      PROVE  [Bus!Next]_Bus!vars /\ [Run!Next]_Run!vars
  <2>1. /\ written' = [written EXCEPT ![c] = @ + 1]
        /\ UNCHANGED <<published, joined, seen>>
    BY <1>3 DEF RunWrites
  <2>2. \A kind : [d \in Clients |-> SeenNumbers(d, kind)]' = [d \in Clients |-> SeenNumbers(d, kind)]
    BY <2>1 DEF SeenNumbers
  <2>3. written' = [d \in Clients |-> IF d \in {c} THEN written[d] + 1 ELSE written[d]]
    BY <1>0, <2>1
  <2>4. Run!Send({c})
    BY <2>2, <2>3 DEF Run!Send
  <2>5. UNCHANGED Bus!vars
    BY <2>1, <2>2 DEF Bus!vars
  <2>6. {c} \in SUBSET Clients
    OBVIOUS
  <2> QED
    BY <2>4, <2>5, <2>6 DEF Run!Next
<1>4. ASSUME NEW c \in Clients,
             Acknowledge(c) \/ Receive(c) \/ Lag(c) \/ Forward(c) \/ Cut(c) \/ Dispatch(c)
               \/ Leave(c)
      PROVE  [Bus!Next]_Bus!vars /\ [Run!Next]_Run!vars
  <2>1. UNCHANGED <<published, joined, written, seen>>
    BY <1>4 DEF Acknowledge, Receive, Lag, Forward, Cut, Dispatch, Leave
  <2> QED
    BY <2>1, QuietStep
<1>5. CASE UNCHANGED vars
  <2>1. UNCHANGED <<published, joined, written, seen>>
    BY <1>5 DEF vars
  <2> QED
    BY <2>1, QuietStep
<1> QED
  BY <1>1, <1>2, <1>3, <1>4, <1>5, HandleRefines DEF Next, Core

\* A connection carries two streams over its one wire and one buffer, and each keeps the
\* promise of Feed for every ring, buffer and number of clients: no event and no frame of
\* a run overtakes another, comes twice or from nowhere.
THEOREM Refinement == Spec => ImplementsFeed
<1>1. IInv /\ [Next]_vars => [Bus!Next]_Bus!vars /\ [Run!Next]_Run!vars
  BY StepFeeds
<1> QED
  BY <1>1, InitFeeds, Invariant, PTL DEF Spec, ImplementsFeed, Bus!Spec, Run!Spec

=============================================================================
