-------------------------- MODULE LiveSessionProofs --------------------------
(***************************************************************************)
(* Proofs about LiveSession, for any number of conversation runs, tasks,   *)
(* texts, frames on their way and events in the app's stream: what was     *)
(* stopped stays so, what becomes of a run's end, and which windows leave  *)
(* a frame to the wrong reader.                                            *)
(***************************************************************************)
EXTENDS LiveSession, SequenceTheorems, TLAPS

USE LiveAssumption DEF foreground, events

Kinds == {"ack", "session", "text"} \cup Ends

LEMMA AppendFacts ==
  ASSUME NEW q \in Seq(Frames), NEW f \in Frames
  PROVE  /\ Append(q, f) \in Seq(Frames)
         /\ Len(Append(q, f)) = Len(q) + 1 /\ Len(q) \in Nat
         /\ \A j \in 1..Len(q) : Append(q, f)[j] = q[j]
         /\ Append(q, f)[Len(q) + 1] = f
OBVIOUS

LEMMA TailFacts ==
  ASSUME NEW q \in Seq(Frames), q # <<>>
  PROVE  /\ Tail(q) \in Seq(Frames)
         /\ Len(q) \in Nat /\ 1 \in 1..Len(q) /\ Head(q) = q[1]
         /\ Len(Tail(q)) = Len(q) - 1
         /\ \A j \in 1..Len(q) - 1 : Tail(q)[j] = q[j + 1]
<1>1. Head(q) \in Frames /\ Tail(q) \in Seq(Frames)
  BY HeadTailProperties
<1>2. /\ Len(q) \in Nat /\ 1 \in 1..Len(q) /\ Head(q) = q[1]
      /\ Len(Tail(q)) = Len(q) - 1
      /\ \A j \in 1..Len(q) - 1 : Tail(q)[j] = q[j + 1]
  OBVIOUS
<1> QED
  BY <1>1, <1>2

\* A frame of a queue comes from a run.
LEMMA FrameFacts ==
  ASSUME NEW q \in Seq(Frames), NEW i \in 1..Len(q)
  PROVE  q[i] \in Frames /\ q[i].run \in Runs /\ q[i].kind \in Kinds
<1>1. q[i] \in Frames
  OBVIOUS
<1> QED
  BY <1>1 DEF Frames, Kinds

\* What the client's actor makes of an event: it leaves the inbox and becomes the newest of
\* the stream, which may drop its oldest.
LEMMA Yielded ==
  ASSUME TypeOK, Yield
  PROVE  /\ inbox \in Seq(Frames) /\ inbox # <<>> /\ inbox' = Tail(inbox)
         /\ Head(inbox) = inbox[1] /\ inbox[1] \in Frames /\ inbox[1].kind # "ack"
         /\ \E q \in Seq(Frames) :
              /\ buffer' = Append(q, inbox[1])
              /\ \/ q = buffer /\ missed' = missed
                 \/ /\ buffer # <<>> /\ q = Tail(buffer)
                    /\ missed' = missed \cup EndOf(buffer[1])
<1>1. inbox \in Seq(Frames) /\ buffer \in Seq(Frames)
  BY DEF TypeOK
<1>2. inbox # <<>> /\ inbox' = Tail(inbox) /\ Head(inbox).kind # "ack"
  BY DEF Yield
<1>3. Head(inbox) = inbox[1] /\ inbox[1] \in Frames
  BY <1>1, <1>2, TailFacts, FrameFacts
<1>4. CASE Len(buffer) < BufCap
  <2>1. buffer' = Append(buffer, inbox[1]) /\ missed' = missed
    BY <1>3, <1>4, <1>1 DEF Yield
  <2> QED
    BY <1>1, <1>2, <1>3, <2>1
<1>5. CASE ~(Len(buffer) < BufCap)
  <2>1. buffer # <<>>
    BY <1>1, <1>5
  <2>2. Tail(buffer) \in Seq(Frames) /\ Head(buffer) = buffer[1]
    BY <1>1, <2>1, TailFacts
  <2>3. buffer' = Append(Tail(buffer), inbox[1]) /\ missed' = missed \cup EndOf(buffer[1])
    BY <1>3, <1>5, <2>2 DEF Yield
  <2> QED
    BY <1>1, <1>2, <1>3, <2>1, <2>2, <2>3
<1> QED
  BY <1>4, <1>5

\* The two ways in which the oldest event leaves the stream alone.
LEMMA Popped ==
  ASSUME TypeOK, HandleEvent \/ Displace
  PROVE  /\ buffer \in Seq(Frames) /\ buffer # <<>> /\ buffer' = Tail(buffer)
         /\ Head(buffer) = buffer[1] /\ buffer[1] \in Frames /\ buffer[1].run \in Runs
         /\ UNCHANGED <<online, launch, stage, told, inbox, stops>>
<1>1. buffer \in Seq(Frames) /\ buffer # <<>> /\ buffer' = Tail(buffer)
  BY DEF TypeOK, HandleEvent, Displace
<1>2. Head(buffer) = buffer[1] /\ buffer[1] \in Frames /\ buffer[1].run \in Runs
  BY <1>1, TailFacts, FrameFacts
<1> QED
  BY <1>1, <1>2 DEF HandleEvent, Displace

\* A reply is taken from the head of the inbox.
LEMMA Taken ==
  ASSUME TypeOK, TakeReply
  PROVE  /\ inbox \in Seq(Frames) /\ inbox # <<>> /\ inbox' = Tail(inbox)
         /\ inbox[1].kind = "ack" /\ inbox[1].run \in Runs
         /\ launch' = [launch EXCEPT ![inbox[1].run] = IF @ = "asked" THEN "answered" ELSE @]
         /\ UNCHANGED <<online, stage, told, events, foreground, tasks, stops>>
<1>1. inbox \in Seq(Frames) /\ inbox # <<>> /\ inbox' = Tail(inbox)
  BY DEF TypeOK, TakeReply
<1>2. Head(inbox) = inbox[1] /\ inbox[1].run \in Runs
  BY <1>1, TailFacts, FrameFacts
<1> QED
  BY <1>1, <1>2 DEF TakeReply

LEMMA TypeStep == TypeOK /\ [Next]_vars => TypeOK'
<1> SUFFICES ASSUME TypeOK, [Next]_vars PROVE TypeOK'
  OBVIOUS
<1> USE DEF TypeOK
<1>1. ASSUME NEW r \in Foreground, NEW append \in BOOLEAN, StartSession(r, append)
      PROVE  TypeOK'
  BY <1>1 DEF StartSession, Runs
<1>2. ASSUME NEW b \in Background, DispatchTask(b) \/ StopTask(b) \/ DismissTask(b)
      PROVE  TypeOK'
  BY <1>2 DEF DispatchTask, StopTask, DismissTask, Runs, Settled
<1>3. CASE StopSession \/ NewChat
  BY <1>3 DEF StopSession, NewChat
<1>4. CASE Disconnect
  <2>1. /\ inbox' \in Seq(Frames) /\ buffer' \in Seq(Frames)
        /\ tasks' \in [Background -> {"none"}]
    BY <1>4 DEF Disconnect
  <2> QED
    BY <1>4, <2>1 DEF Disconnect
<1>5. ASSUME NEW r \in Runs, NEW kind \in Kinds, Sent(r, kind)
      PROVE  inbox' \in Seq(Frames)
  <2>1. Frame(r, kind) \in Frames
    BY DEF Frame, Frames, Kinds
  <2> QED
    BY <1>5, <2>1 DEF Sent
<1>6. ASSUME NEW r \in Runs, CoreStarts(r) PROVE TypeOK'
  BY <1>6, <1>5 DEF CoreStarts, Kinds
<1>7. ASSUME NEW r \in Runs, CoreTells(r) PROVE TypeOK'
  <2>1. inbox' \in Seq(Frames)
    BY <1>7, <1>5 DEF CoreTells, Kinds
  <2>2. told' \in [Runs -> 0..MaxTexts + 1]
    BY <1>7 DEF CoreTells
  <2> QED
    BY <1>7, <2>1, <2>2 DEF CoreTells
<1>8. ASSUME NEW r \in Runs, NEW kind \in Ends, NEW next \in {"resulted", "failed", "over"},
             CoreEnds(r, kind, next)
      PROVE  TypeOK'
  <2>1. inbox' \in Seq(Frames)
    BY <1>8, <1>5 DEF CoreEnds, Kinds
  <2> QED
    BY <1>8, <2>1 DEF CoreEnds
<1>9. CASE TakeReply
  <2>1. inbox' \in Seq(Frames)
    BY <1>9, Taken, TailFacts
  <2>2. launch' \in [Runs -> {"idle", "asked", "answered", "begun", "refused"}]
    BY <1>9, Taken
  <2> QED
    BY <1>9, <2>1, <2>2, Taken
<1>10. CASE Yield
  <2>1. inbox' \in Seq(Frames)
    BY <1>10, Yielded, TailFacts
  <2>2. PICK q \in Seq(Frames) :
          /\ buffer' = Append(q, inbox[1])
          /\ \/ missed' = missed
             \/ buffer # <<>> /\ missed' = missed \cup EndOf(buffer[1])
    BY <1>10, Yielded
  <2>3. buffer' \in Seq(Frames)
    BY <1>10, <2>2, Yielded, AppendFacts
  <2>4. missed' \subseteq Runs
    <3>1. buffer # <<>> => buffer[1].run \in Runs
      BY TailFacts, FrameFacts
    <3> QED
      BY <2>2, <3>1 DEF EndOf
  <2> QED
    BY <1>10, <2>1, <2>3, <2>4 DEF Yield
<1>11. CASE Displace
  <2>1. buffer' \in Seq(Frames) /\ missed' \subseteq Runs
    BY <1>11, Popped, TailFacts DEF Displace, EndOf
  <2> QED
    BY <1>11, <2>1 DEF Displace
<1>12. ASSUME NEW r \in Runs, GiveUp(r) \/ Continue(r) PROVE TypeOK'
  BY <1>12 DEF GiveUp, Continue, Settled
<1>13. CASE HandleEvent
  <2>1. /\ buffer' \in Seq(Frames) /\ Head(buffer).run \in Runs
        /\ UNCHANGED <<online, launch, stage, told, inbox, stops>>
    BY <1>13, Popped, TailFacts
  <2>2. missed' \subseteq Runs
    BY <1>13, <2>1 DEF HandleEvent, EndOf
  <2>3. CASE Listed(Head(buffer))
    BY <1>13, <2>1, <2>2, <2>3 DEF HandleEvent, UpdateTask, Settle, Settled, Listed
  <2>4. CASE ~Listed(Head(buffer))
    BY <1>13, <2>1, <2>2, <2>4 DEF HandleEvent, UpdateChat, Shows
  <2> QED
    BY <2>3, <2>4
<1>14. CASE UNCHANGED vars
  BY <1>14 DEF vars
<1> QED
  BY <1>1, <1>2, <1>3, <1>4, <1>6, <1>7, <1>8, <1>9, <1>10, <1>11, <1>12, <1>13, <1>14
  DEF Next, User, Core, App

\* Every variable has its type.
THEOREM TypeCorrect == Spec => []TypeOK
<1>1. Init => TypeOK
  BY DEF Init, TypeOK
<1> QED
  BY <1>1, TypeStep, PTL DEF Spec

\* A task has an entry only once the caller of its session.start has gone on.
Entered == \A b \in Background : tasks[b] # "none" => launch[b] = "begun"

\* With it, what one step makes of a stopped task.
StopStays ==
  \A b \in Background :
    tasks[b] = "stopped" => tasks'[b] \in {"stopped", "failed", "dismissed", "none"}

LEMMA EnteredStep ==
  ASSUME TypeOK, Entered, [Next]_vars
  PROVE  Entered' /\ StopStays
<1> USE DEF TypeOK, Entered, StopStays
<1>1. ASSUME NEW r \in Foreground, NEW append \in BOOLEAN, StartSession(r, append)
      PROVE  Entered' /\ StopStays
  BY <1>1 DEF StartSession, Runs
<1>2. ASSUME NEW b \in Background, DispatchTask(b) \/ StopTask(b) \/ DismissTask(b)
      PROVE  Entered' /\ StopStays
  BY <1>2 DEF DispatchTask, StopTask, DismissTask, Settled, Runs
<1>3. CASE StopSession \/ NewChat
  BY <1>3 DEF StopSession, NewChat
<1>4. CASE Disconnect
  <2>1. \A b \in Background : tasks'[b] = "none"
    BY <1>4 DEF Disconnect
  <2> QED
    BY <2>1
<1>5. CASE Core
  BY <1>5 DEF Core, CoreStarts, CoreTells, CoreEnds
<1>6. CASE TakeReply
  <2>1. \A b \in Background : launch[b] = "begun" => launch'[b] = "begun"
    BY <1>6, Taken DEF Runs
  <2>2. tasks' = tasks
    BY <1>6 DEF TakeReply
  <2> QED
    BY <2>1, <2>2
<1>7. CASE Yield \/ Displace
  BY <1>7 DEF Yield, Displace
<1>8. ASSUME NEW r \in Runs, GiveUp(r) \/ Continue(r) PROVE Entered' /\ StopStays
  BY <1>8 DEF GiveUp, Continue, Runs
<1>9. CASE HandleEvent
  <2>1. CASE Listed(Head(buffer))
    BY <1>9, <2>1 DEF HandleEvent, UpdateTask, Settle, Listed
  <2>2. CASE ~Listed(Head(buffer))
    BY <1>9, <2>2 DEF HandleEvent, UpdateChat
  <2> QED
    BY <2>1, <2>2
<1>10. CASE UNCHANGED vars
  BY <1>10 DEF vars
<1> QED
  BY <1>1, <1>2, <1>3, <1>4, <1>5, <1>6, <1>7, <1>8, <1>9, <1>10 DEF Next, User, App

\* A task the user stopped stays stopped, or is shown as failed, until it is dismissed or
\* forgotten (stopBackgroundTask against the frames still on their way).
THEOREM StopFinal == Spec => StopIsFinal
<1>1. Init => TypeOK /\ Entered
  BY DEF Init, TypeOK, Entered
<1>2. TypeOK /\ Entered /\ [Next]_vars => (TypeOK /\ Entered)'
  BY TypeStep, EnteredStep
<1>3. TypeOK /\ Entered /\ [Next]_vars => [StopStays]_vars
  BY EnteredStep
<1> QED
  BY <1>1, <1>2, <1>3, PTL DEF Spec, StopIsFinal, StopStays
-----------------------------------------------------------------------------
(* What becomes of the frames on their way: the safety core of EndIsSeen.  *)

\* Frame i of the inbox keeps its place or comes nearer to the client's actor; the first
\* is the reply a caller waits for, or becomes the newest event of the stream; or all are
\* forgotten.
InboxMoves(i) ==
  \/ i \in 1..Len(inbox') /\ inbox'[i] = inbox[i]
  \/ i - 1 \in 1..Len(inbox') /\ inbox'[i - 1] = inbox[i]
  \/ i = 1 /\ TakeReply /\ inbox[1].kind = "ack"
  \/ i = 1 /\ Yield /\ Len(buffer') \in 1..Len(buffer') /\ buffer'[Len(buffer')] = inbox[1]
  \/ Disconnect

\* Event i of the stream keeps its place or comes nearer to the main actor; the oldest is
\* handled, or dropped: if it is an end, its run is then among the missed.
BufferMoves(i) ==
  \/ i \in 1..Len(buffer') /\ buffer'[i] = buffer[i]
  \/ i - 1 \in 1..Len(buffer') /\ buffer'[i - 1] = buffer[i]
  \/ i = 1 /\ HandleEvent
  \/ i = 1 /\ (Yield \/ Displace) /\ EndOf(buffer[1]) \subseteq missed'
  \/ Disconnect

QueuesMove ==
  [][(\A i \in 1..Len(inbox) : InboxMoves(i)) /\ (\A i \in 1..Len(buffer) : BufferMoves(i))]_vars

EndsAreKept ==
  [][\A r \in Runs : Shown(r) /\ OnItsWay(r, Ends)
       => OnItsWay(r, Ends)' \/ ~Shown(r)' \/ r \in missed']_vars

\* The core sends a frame of run r.
Sends(r, kind) ==
  /\ online /\ inbox' = Append(inbox, Frame(r, kind))
  /\ UNCHANGED <<online, launch, events, running, tasks>>
  /\ launch[r] # "idle" \/ stage[r] # "none"
  /\ kind # "ack" => stage[r] # "none"
  /\ stage'[r] # "none"
  /\ stage'[r] = "over" => kind \in Ends
  /\ \A x \in Runs : x # r => stage'[x] = stage[x]

LEMMA CoreSends ==
  ASSUME TypeOK, Core
  PROVE  \E r \in Runs, kind \in Kinds : Sends(r, kind)
<1> USE DEF Kinds
<1>1. ASSUME NEW r \in Runs, CoreStarts(r) PROVE Sends(r, "ack")
  BY <1>1 DEF CoreStarts, Sent, Sends, TypeOK
<1>2. ASSUME NEW r \in Runs, CoreTells(r)
      PROVE  \E kind \in {"session", "text"} : Sends(r, kind)
  <2>1. PICK kind \in {"session", "text"} : Sent(r, kind)
    BY <1>2 DEF CoreTells
  <2>2. Sends(r, kind)
    BY <1>2, <2>1 DEF CoreTells, Sent, Sends
  <2> QED
    BY <2>2
<1>3. ASSUME NEW r \in Runs, NEW kind \in Ends, NEW next \in {"resulted", "failed", "over"},
             CoreEnds(r, kind, next)
      PROVE  Sends(r, kind)
  <2>1. stage[r] # "none"
    BY <1>3 DEF CoreEnds, EndingStep
  <2> QED
    BY <1>3, <2>1 DEF CoreEnds, Sent, Sends, TypeOK
<1> QED
  BY <1>1, <1>2, <1>3 DEF Core

\* The seven things a step can do to the queues.
LEMMA QueueCases ==
  ASSUME TypeOK, [Next]_vars
  PROVE  \/ UNCHANGED <<inbox, events, stage, online>>
         \/ \E r \in Runs, kind \in Kinds : Sends(r, kind)
         \/ TakeReply \/ Yield \/ Displace \/ HandleEvent \/ Disconnect
<1>1. CASE User
  BY <1>1 DEF User, StartSession, DispatchTask, StopTask, DismissTask, StopSession, NewChat
<1>2. CASE Core
  BY <1>2, CoreSends
<1>3. CASE \E r \in Runs : GiveUp(r) \/ Continue(r)
  BY <1>3 DEF GiveUp, Continue
<1>4. CASE UNCHANGED vars
  BY <1>4 DEF vars
<1> QED
  BY <1>1, <1>2, <1>3, <1>4 DEF Next, App

\* What the core sends is the last frame of the inbox.
LEMMA SentIsLast ==
  ASSUME TypeOK, NEW r \in Runs, NEW kind \in Kinds, Sends(r, kind)
  PROVE  /\ Len(inbox') = Len(inbox) + 1 /\ Len(inbox) \in Nat
         /\ \A j \in 1..Len(inbox) : inbox'[j] = inbox[j]
         /\ inbox'[Len(inbox) + 1] = Frame(r, kind)
         /\ Has(inbox', r, {kind})
<1>1. inbox \in Seq(Frames) /\ Frame(r, kind) \in Frames
  BY DEF TypeOK, Frame, Frames, Kinds
<1>2. /\ Len(inbox') = Len(inbox) + 1 /\ Len(inbox) \in Nat
      /\ \A j \in 1..Len(inbox) : inbox'[j] = inbox[j]
      /\ inbox'[Len(inbox) + 1] = Frame(r, kind)
  BY <1>1, AppendFacts DEF Sends
<1>3. Len(inbox) + 1 \in 1..Len(inbox')
  BY <1>2
<1> QED
  BY <1>2, <1>3 DEF Has, Frame

\* A queue that lost its head: the others come nearer.
LEMMA Nearer ==
  ASSUME NEW q \in Seq(Frames), q # <<>>, NEW i \in 1..Len(q), i # 1
  PROVE  i - 1 \in 1..Len(Tail(q)) /\ Tail(q)[i - 1] = q[i]
<1>1. i - 1 \in 1..Len(q) - 1 /\ (i - 1) + 1 = i /\ Len(Tail(q)) = Len(q) - 1
  BY TailFacts
<1>2. \A j \in 1..Len(q) - 1 : Tail(q)[j] = q[j + 1]
  BY TailFacts
<1> QED
  BY <1>1, <1>2

LEMMA Farther ==
  ASSUME NEW q \in Seq(Frames), q # <<>>, NEW i \in 1..Len(Tail(q))
  PROVE  i + 1 \in 1..Len(q) /\ Tail(q)[i] = q[i + 1] /\ i \in 1..Len(q) - 1
<1>1. i \in 1..Len(q) - 1 /\ Len(q) \in Nat /\ \A j \in 1..Len(q) - 1 : Tail(q)[j] = q[j + 1]
  BY TailFacts
<1> QED
  BY <1>1

LEMMA InboxStep ==
  ASSUME TypeOK, [Next]_vars, NEW i \in 1..Len(inbox)
  PROVE  InboxMoves(i)
<1>1. inbox \in Seq(Frames)
  BY DEF TypeOK
<1>2. CASE UNCHANGED inbox
  BY <1>2 DEF InboxMoves
<1>3. CASE \E r \in Runs, kind \in Kinds : Sends(r, kind)
  <2>1. PICK r \in Runs, kind \in Kinds : Sends(r, kind)
    BY <1>3
  <2>2. /\ Len(inbox') = Len(inbox) + 1 /\ Len(inbox) \in Nat
        /\ \A j \in 1..Len(inbox) : inbox'[j] = inbox[j]
    BY <2>1, SentIsLast
  <2>3. i \in 1..Len(inbox') /\ inbox'[i] = inbox[i]
    BY <2>2
  <2> QED
    BY <2>3 DEF InboxMoves
<1>4. CASE TakeReply
  <2>1. CASE i = 1
    BY <1>4, <2>1, Taken DEF InboxMoves
  <2>2. CASE i # 1
    <3>1. i - 1 \in 1..Len(inbox') /\ inbox'[i - 1] = inbox[i]
      BY <1>4, <2>2, Taken, Nearer
    <3> QED
      BY <3>1 DEF InboxMoves
  <2> QED
    BY <2>1, <2>2
<1>5. CASE Yield
  <2>1. CASE i = 1
    <3>1. PICK q \in Seq(Frames) : buffer' = Append(q, inbox[1])
      BY <1>5, Yielded
    <3>2. /\ Len(buffer') = Len(q) + 1 /\ Len(q) \in Nat
          /\ buffer'[Len(q) + 1] = inbox[1]
      BY <1>5, <3>1, Yielded, AppendFacts
    <3> QED
      BY <1>5, <2>1, <3>2 DEF InboxMoves
  <2>2. CASE i # 1
    <3>1. i - 1 \in 1..Len(inbox') /\ inbox'[i - 1] = inbox[i]
      BY <1>5, <2>2, Yielded, Nearer
    <3> QED
      BY <3>1 DEF InboxMoves
  <2> QED
    BY <2>1, <2>2
<1>6. CASE Disconnect
  BY <1>6 DEF InboxMoves
<1> QED
  BY <1>2, <1>3, <1>4, <1>5, <1>6, QueueCases DEF HandleEvent, Displace

LEMMA BufferStep ==
  ASSUME TypeOK, [Next]_vars, NEW i \in 1..Len(buffer)
  PROVE  BufferMoves(i)
<1>1. buffer \in Seq(Frames)
  BY DEF TypeOK
<1>2. CASE UNCHANGED buffer
  BY <1>2 DEF BufferMoves
<1>3. CASE Yield
  <2>1. PICK q \in Seq(Frames) :
          /\ buffer' = Append(q, inbox[1])
          /\ \/ q = buffer
             \/ /\ buffer # <<>> /\ q = Tail(buffer)
                /\ missed' = missed \cup EndOf(buffer[1])
    BY <1>3, Yielded
  <2>2. Len(buffer') = Len(q) + 1 /\ Len(q) \in Nat /\ \A j \in 1..Len(q) : buffer'[j] = q[j]
    BY <1>3, <2>1, Yielded, AppendFacts
  <2>3. CASE q = buffer
    BY <2>2, <2>3 DEF BufferMoves
  <2>4. CASE q = Tail(buffer) /\ buffer # <<>> /\ missed' = missed \cup EndOf(buffer[1])
    <3>1. CASE i = 1
      BY <1>3, <2>4, <3>1 DEF BufferMoves
    <3>2. CASE i # 1
      <4>1. i - 1 \in 1..Len(q) /\ q[i - 1] = buffer[i]
        BY <1>1, <2>4, <3>2, Nearer
      <4> QED
        BY <2>2, <4>1 DEF BufferMoves
    <3> QED
      BY <3>1, <3>2
  <2> QED
    BY <2>1, <2>3, <2>4
<1>4. CASE HandleEvent \/ Displace
  <2>1. CASE i = 1
    <3>1. Displace => EndOf(buffer[1]) \subseteq missed'
      BY Popped DEF Displace
    <3> QED
      BY <1>4, <2>1, <3>1 DEF BufferMoves
  <2>2. CASE i # 1
    <3>1. i - 1 \in 1..Len(buffer') /\ buffer'[i - 1] = buffer[i]
      BY <1>4, <2>2, Popped, Nearer
    <3> QED
      BY <3>1 DEF BufferMoves
  <2> QED
    BY <2>1, <2>2
<1>5. CASE Disconnect
  BY <1>5 DEF BufferMoves
<1> QED
  BY <1>2, <1>3, <1>4, <1>5, QueueCases DEF Sends, TakeReply

\* No frame overtakes another on its way to the main actor, and one is lost only as the
\* oldest of the app's stream, which the run's history then tells (IpcClient.dispatch and
\* yieldEvent).
THEOREM QueueGoesOn == Spec => QueuesMove
<1>1. TypeOK /\ [Next]_vars
        => [(\A i \in 1..Len(inbox) : InboxMoves(i))
              /\ (\A i \in 1..Len(buffer) : BufferMoves(i))]_vars
  BY InboxStep, BufferStep
<1> QED
  BY <1>1, TypeCorrect, PTL DEF Spec, QueuesMove

\* What the main actor does with an ending frame.
LEMMA EndHandled ==
  ASSUME TypeOK, HandleEvent, NEW r \in Runs, Head(buffer).run = r, Head(buffer).kind \in Ends,
         running \notin Background
  PROVE  ~Shown(r)'
<1> DEFINE f == Head(buffer)
<1>1. CASE Listed(f)
  <2>1. tasks' = [tasks EXCEPT ![r] = Settle(@, f.kind)] /\ running' = running
    BY <1>1 DEF HandleEvent, UpdateTask
  <2>2. r \in Background /\ tasks'[r] = Settle(tasks[r], f.kind)
    BY <1>1, <2>1 DEF Listed, TypeOK
  <2>3. tasks'[r] # "running"
    BY <2>2 DEF Settle, Ends
  <2> QED
    BY <2>1, <2>2, <2>3 DEF Shown
<1>2. CASE ~Listed(f)
  <2>1. running' = Nobody /\ tasks' = tasks
    BY <1>2 DEF HandleEvent, UpdateChat
  <2>2. r \in Background => tasks[r] # "running"
    BY <1>2 DEF Listed
  <2> QED
    BY <2>1, <2>2 DEF Shown
<1> QED
  BY <1>1, <1>2

\* A run's end that is in the app's stream stays there, unless the step handles or drops
\* it, or forgets the connection.
LEMMA BufferedEnd ==
  ASSUME TypeOK, [Next]_vars, NEW r \in Runs, Has(buffer, r, Ends)
  PROVE  \/ Has(buffer', r, Ends) \/ r \in missed' \/ Disconnect
         \/ HandleEvent /\ Head(buffer).run = r /\ Head(buffer).kind \in Ends
<1>1. PICK i \in 1..Len(buffer) : buffer[i].run = r /\ buffer[i].kind \in Ends
  BY DEF Has
<1>2. BufferMoves(i)
  BY BufferStep
<1>3. CASE i \in 1..Len(buffer') /\ buffer'[i] = buffer[i]
  BY <1>1, <1>3 DEF Has
<1>4. CASE i - 1 \in 1..Len(buffer') /\ buffer'[i - 1] = buffer[i]
  BY <1>1, <1>4 DEF Has
<1>5. CASE i = 1 /\ HandleEvent
  BY <1>1, <1>5, Popped
<1>6. CASE i = 1 /\ EndOf(buffer[1]) \subseteq missed'
  BY <1>1, <1>6 DEF EndOf
<1> QED
  BY <1>2, <1>3, <1>4, <1>5, <1>6 DEF BufferMoves

\* A run's end that the client's actor has not taken stays in the inbox or enters the
\* stream.
LEMMA InboxEnd ==
  ASSUME TypeOK, [Next]_vars, NEW r \in Runs, Has(inbox, r, Ends)
  PROVE  Has(inbox', r, Ends) \/ Has(buffer', r, Ends) \/ Disconnect
<1>1. PICK i \in 1..Len(inbox) : inbox[i].run = r /\ inbox[i].kind \in Ends
  BY DEF Has
<1>2. InboxMoves(i)
  BY InboxStep
<1>3. CASE i \in 1..Len(inbox') /\ inbox'[i] = inbox[i]
  BY <1>1, <1>3 DEF Has
<1>4. CASE i - 1 \in 1..Len(inbox') /\ inbox'[i - 1] = inbox[i]
  BY <1>1, <1>4 DEF Has
<1>5. CASE i = 1 /\ Yield /\ Len(buffer') \in 1..Len(buffer')
           /\ buffer'[Len(buffer')] = inbox[1]
  BY <1>1, <1>5 DEF Has
<1>6. ~(i = 1 /\ inbox[1].kind = "ack")
  BY <1>1 DEF Ends
<1> QED
  BY <1>2, <1>3, <1>4, <1>5, <1>6 DEF InboxMoves

LEMMA EndsKeptStep ==
  ASSUME TypeOK, [Next]_vars, running \notin Background, NEW r \in Runs,
         Shown(r), OnItsWay(r, Ends)
  PROVE  OnItsWay(r, Ends)' \/ ~Shown(r)' \/ r \in missed'
<1>1. CASE Disconnect
  <2>1. running' = Nobody /\ \A b \in Background : tasks'[b] = "none"
    BY <1>1 DEF Disconnect
  <2> QED
    BY <2>1 DEF Shown
<1>2. CASE HandleEvent /\ Head(buffer).run = r /\ Head(buffer).kind \in Ends
  BY <1>2, EndHandled
<1>3. CASE Has(buffer, r, Ends)
  BY <1>1, <1>2, <1>3, BufferedEnd DEF OnItsWay, Has
<1>4. CASE Has(inbox, r, Ends)
  BY <1>1, <1>4, InboxEnd DEF OnItsWay, Has
<1> QED
  BY <1>3, <1>4 DEF OnItsWay

\* A conversation's run is no background task; a link that is down brings nothing; and on
\* a link that is up, a task whose caller went on has its entry.
Separate ==
  /\ running \notin Background
  /\ ~online => inbox = <<>> /\ buffer = <<>>
  /\ online => \A b \in Background : launch[b] = "begun" => tasks[b] # "none"

\* Nothing is sent for a run that was not asked for.
Started ==
  /\ \A r \in Runs : launch[r] = "idle" => stage[r] = "none"
  /\ \A i \in 1..Len(inbox) : stage[inbox[i].run] # "none"
  /\ \A i \in 1..Len(buffer) : stage[buffer[i].run] # "none"

\* The caller of a run that started will have its reply, and before any other frame.
Replied ==
  \A r \in Runs :
    online /\ launch[r] = "asked" /\ stage[r] # "none" => Has(inbox, r, {"ack"})

Behind(i) ==
  inbox[i].kind # "ack" /\ launch[inbox[i].run] = "asked"
    => \E j \in 1..i - 1 : inbox[j].run = inbox[i].run /\ inbox[j].kind = "ack"

AckFirst ==
  /\ \A i \in 1..Len(inbox) : Behind(i)
  /\ \A i \in 1..Len(buffer) : buffer[i].kind # "ack" /\ launch[buffer[i].run] # "asked"

\* A run that is over, and shown as running or about to be, has its end on its way or
\* missed it.
Owed ==
  online => \A r \in Runs :
    stage[r] = "over" /\ (Shown(r) \/ launch[r] \in {"asked", "answered"})
      => OnItsWay(r, Ends) \/ r \in missed

IInv == TypeOK /\ Separate /\ Started /\ Replied /\ AckFirst /\ Owed

LEMMA LaunchStep ==
  ASSUME TypeOK, [Next]_vars, NEW r \in Runs
  PROVE  /\ launch'[r] = "idle" => launch[r] = "idle"
         /\ launch'[r] = "asked"
              => \/ launch[r] = "asked"
                 \/ launch[r] = "idle" /\ UNCHANGED <<inbox, events, stage, online>>
         /\ launch'[r] = "answered" => launch[r] \in {"asked", "answered"}
         /\ launch'[r] = "begun" => launch[r] \in {"answered", "begun"}
<1> USE DEF TypeOK
<1>1. CASE User
  BY <1>1 DEF User, StartSession, DispatchTask, StopTask, DismissTask, StopSession, NewChat,
              Disconnect, Runs
<1>2. CASE Core
  BY <1>2, CoreSends DEF Sends
<1>3. CASE TakeReply
  BY <1>3, Taken
<1>4. CASE HandleEvent \/ Yield \/ Displace
  BY <1>4 DEF HandleEvent, Yield, Displace
<1>5. CASE \E x \in Runs : GiveUp(x) \/ Continue(x)
  BY <1>5 DEF GiveUp, Continue
<1>6. CASE UNCHANGED vars
  BY <1>6 DEF vars
<1> QED
  BY <1>1, <1>2, <1>3, <1>4, <1>5, <1>6 DEF Next, App

LEMMA SeparateStep ==
  ASSUME TypeOK, Separate, [Next]_vars
  PROVE  Separate'
<1> USE DEF TypeOK, Separate
<1>1. CASE \E r \in Foreground, append \in BOOLEAN : StartSession(r, append)
  BY <1>1 DEF StartSession, Runs
<1>2. CASE \E b \in Background : DispatchTask(b) \/ StopTask(b) \/ DismissTask(b)
  BY <1>2 DEF DispatchTask, StopTask, DismissTask, Runs
<1>3. CASE StopSession \/ NewChat \/ UNCHANGED vars
  BY <1>3 DEF StopSession, NewChat, vars
<1>4. CASE Disconnect
  BY <1>4 DEF Disconnect, Runs
<1>5. CASE Core
  BY <1>5, CoreSends DEF Sends
<1>6. CASE TakeReply
  <2>1. inbox # <<>> /\ UNCHANGED <<online, buffer, running, tasks>>
    BY <1>6, Taken
  <2>2. \A b \in Background : launch'[b] = "begun" => launch[b] = "begun"
    BY <1>6, Taken DEF Runs
  <2> QED
    BY <2>1, <2>2
<1>7. CASE Yield
  BY <1>7 DEF Yield
<1>8. CASE Displace
  BY <1>8 DEF Displace
<1>9. ASSUME NEW r \in Runs, GiveUp(r) \/ Continue(r) PROVE Separate'
  BY <1>9 DEF GiveUp, Continue, Runs
<1>10. CASE HandleEvent
  <2>1. buffer # <<>> /\ UNCHANGED <<online, launch>>
    BY <1>10 DEF HandleEvent
  <2>2. running' \notin Background
    BY <1>10 DEF HandleEvent, UpdateTask, UpdateChat, Runs
  <2>3. \A b \in Background : tasks[b] # "none" => tasks'[b] # "none"
    BY <1>10 DEF HandleEvent, UpdateTask, UpdateChat, Settle, Listed
  <2> QED
    BY <2>1, <2>2, <2>3
<1> QED
  BY <1>1, <1>2, <1>3, <1>4, <1>5, <1>6, <1>7, <1>8, <1>9, <1>10 DEF Next, User, App

\* What a frame in a queue was before the step.
LEMMA InboxOrigin ==
  ASSUME TypeOK, [Next]_vars, NEW i \in 1..Len(inbox')
  PROVE  \/ \E j \in 1..Len(inbox) : inbox'[i] = inbox[j]
         \/ \E r \in Runs, kind \in Kinds : Sends(r, kind) /\ inbox'[i] = Frame(r, kind)
<1>1. inbox \in Seq(Frames)
  BY DEF TypeOK
<1>2. ASSUME NEW r \in Runs, NEW kind \in Kinds, Sends(r, kind)
      PROVE  (\E j \in 1..Len(inbox) : inbox'[i] = inbox[j]) \/ inbox'[i] = Frame(r, kind)
  <2>1. /\ Len(inbox') = Len(inbox) + 1 /\ Len(inbox) \in Nat
        /\ \A j \in 1..Len(inbox) : inbox'[j] = inbox[j]
        /\ inbox'[Len(inbox) + 1] = Frame(r, kind)
    BY <1>2, SentIsLast
  <2>2. i \in 1..Len(inbox) \/ i = Len(inbox) + 1
    BY <2>1
  <2> QED
    BY <2>1, <2>2
<1>3. CASE TakeReply
  BY <1>3, Taken, Farther
<1>4. CASE Yield
  BY <1>4, Yielded, Farther
<1>5. CASE Disconnect
  BY <1>5 DEF Disconnect
<1>6. CASE UNCHANGED inbox
  BY <1>6
<1> QED
  BY <1>2, <1>3, <1>4, <1>5, <1>6, QueueCases DEF HandleEvent, Displace

LEMMA BufferOrigin ==
  ASSUME TypeOK, [Next]_vars, NEW i \in 1..Len(buffer')
  PROVE  \/ \E j \in 1..Len(buffer) : buffer'[i] = buffer[j]
         \/ Yield /\ buffer'[i] = inbox[1]
<1>1. buffer \in Seq(Frames)
  BY DEF TypeOK
<1>2. CASE Yield
  <2>1. PICK q \in Seq(Frames) :
          /\ buffer' = Append(q, inbox[1])
          /\ \/ q = buffer /\ missed' = missed
             \/ /\ buffer # <<>> /\ q = Tail(buffer)
                /\ missed' = missed \cup EndOf(buffer[1])
    BY <1>2, Yielded
  <2>2. /\ Len(buffer') = Len(q) + 1 /\ Len(q) \in Nat
        /\ \A j \in 1..Len(q) : buffer'[j] = q[j]
        /\ buffer'[Len(q) + 1] = inbox[1]
    BY <1>2, <2>1, Yielded, AppendFacts
  <2>3. CASE i = Len(q) + 1
    BY <1>2, <2>2, <2>3
  <2>4. CASE i # Len(q) + 1
    <3>1. i \in 1..Len(q) /\ buffer'[i] = q[i]
      BY <2>2, <2>4
    <3>2. CASE q = buffer
      BY <3>1, <3>2
    <3>3. CASE buffer # <<>> /\ q = Tail(buffer)
      BY <1>1, <3>1, <3>3, Farther
    <3> QED
      BY <2>1, <3>2, <3>3
  <2> QED
    BY <2>3, <2>4
<1>3. CASE HandleEvent \/ Displace
  BY <1>3, Popped, Farther
<1>4. CASE Disconnect
  BY <1>4 DEF Disconnect
<1>5. CASE UNCHANGED buffer
  BY <1>5
<1> QED
  BY <1>2, <1>3, <1>4, <1>5, QueueCases DEF Sends, TakeReply

LEMMA StageStays ==
  ASSUME TypeOK, [Next]_vars, NEW r \in Runs
  PROVE  stage'[r] = stage[r] \/ \E kind \in Kinds : Sends(r, kind)
<1>1. CASE \E x \in Runs, kind \in Kinds : Sends(x, kind)
  <2>1. PICK x \in Runs, kind \in Kinds : Sends(x, kind)
    BY <1>1
  <2>2. x # r => stage'[r] = stage[r]
    BY <2>1 DEF Sends
  <2> QED
    BY <2>1, <2>2
<1> QED
  BY <1>1, QueueCases DEF TakeReply, Yield, Displace, HandleEvent, Disconnect

LEMMA Typed ==
  ASSUME TypeOK
  PROVE  /\ \A i \in 1..Len(inbox) : inbox[i].run \in Runs
         /\ \A i \in 1..Len(buffer) : buffer[i].run \in Runs
<1>1. inbox \in Seq(Frames) /\ buffer \in Seq(Frames)
  BY DEF TypeOK
<1> QED
  BY <1>1, FrameFacts

LEMMA StartedStep ==
  ASSUME TypeOK, Started, [Next]_vars
  PROVE  Started'
<1>1. ASSUME NEW r \in Runs, launch'[r] = "idle" PROVE stage'[r] = "none"
  <2>1. launch[r] = "idle" /\ stage[r] = "none"
    BY <1>1, LaunchStep DEF Started
  <2> QED
    BY <2>1, StageStays DEF Sends
<1>2. ASSUME NEW r \in Runs, stage[r] # "none" PROVE stage'[r] # "none"
  BY <1>2, StageStays DEF Sends
<1>3. ASSUME NEW i \in 1..Len(inbox') PROVE stage'[inbox'[i].run] # "none"
  <2>1. CASE \E j \in 1..Len(inbox) : inbox'[i] = inbox[j]
    BY <1>2, <2>1, Typed DEF Started
  <2>2. CASE \E r \in Runs, kind \in Kinds : Sends(r, kind) /\ inbox'[i] = Frame(r, kind)
    BY <2>2 DEF Sends, Frame
  <2> QED
    BY <2>1, <2>2, InboxOrigin
<1>4. ASSUME NEW i \in 1..Len(buffer') PROVE stage'[buffer'[i].run] # "none"
  <2>1. CASE \E j \in 1..Len(buffer) : buffer'[i] = buffer[j]
    BY <1>2, <2>1, Typed DEF Started
  <2>2. CASE Yield /\ buffer'[i] = inbox[1]
    <3>1. 1 \in 1..Len(inbox)
      BY <2>2, Yielded, TailFacts
    <3> QED
      BY <1>2, <2>2, <3>1, Typed DEF Started
  <2> QED
    BY <2>1, <2>2, BufferOrigin
<1> QED
  BY <1>1, <1>3, <1>4 DEF Started

LEMMA RepliedStep ==
  ASSUME TypeOK, Started, Replied, [Next]_vars
  PROVE  Replied'
<1> SUFFICES ASSUME NEW r \in Runs, online', launch'[r] = "asked", stage'[r] # "none"
             PROVE  Has(inbox', r, {"ack"})
  BY DEF Replied
<1>1. online
  BY QueueCases DEF Sends, TakeReply, Yield, Displace, HandleEvent, Disconnect
<1>2. launch[r] = "asked"
  BY LaunchStep DEF Started
<1>3. CASE stage[r] = "none"
  <2>1. PICK kind \in Kinds : Sends(r, kind)
    BY <1>3, StageStays
  <2>2. kind = "ack"
    BY <1>3, <2>1 DEF Sends
  <2> QED
    BY <2>1, <2>2, SentIsLast
<1>4. CASE stage[r] # "none"
  <2>1. PICK i \in 1..Len(inbox) : inbox[i].run = r /\ inbox[i].kind = "ack"
    BY <1>1, <1>2, <1>4 DEF Replied, Has
  <2>2. InboxMoves(i)
    BY InboxStep
  <2>3. CASE i \in 1..Len(inbox') /\ inbox'[i] = inbox[i]
    BY <2>1, <2>3 DEF Has
  <2>4. CASE i - 1 \in 1..Len(inbox') /\ inbox'[i - 1] = inbox[i]
    BY <2>1, <2>4 DEF Has
  <2>5. ~(i = 1 /\ TakeReply)
    BY <1>2, <2>1, Taken DEF TypeOK
  <2>6. ~(i = 1 /\ Yield)
    BY <2>1, Yielded
  <2>7. ~Disconnect
    BY DEF Disconnect
  <2> QED
    BY <2>2, <2>3, <2>4, <2>5, <2>6, <2>7 DEF InboxMoves
<1> QED
  BY <1>3, <1>4

\* The head of the inbox leaves: what was behind a reply of a run still asked is so still.
LEMMA HeadLeaves ==
  ASSUME TypeOK, AckFirst, inbox # <<>>, inbox' = Tail(inbox),
         \A r \in Runs : launch'[r] = "asked" => launch[r] = "asked",
         inbox[1].kind = "ack" => launch'[inbox[1].run] # "asked",
         NEW i \in 1..Len(inbox')
  PROVE  Behind(i)'
<1>1. inbox \in Seq(Frames)
  BY DEF TypeOK
<1>2. i + 1 \in 1..Len(inbox) /\ inbox'[i] = inbox[i + 1] /\ i \in 1..Len(inbox) - 1
  BY <1>1, Farther
<1>3. Len(inbox') = Len(inbox) - 1 /\ Len(inbox) \in Nat
  BY <1>1, TailFacts
<1> SUFFICES ASSUME inbox'[i].kind # "ack", launch'[inbox'[i].run] = "asked"
             PROVE  \E j \in 1..i - 1 : inbox'[j].run = inbox'[i].run /\ inbox'[j].kind = "ack"
  BY DEF Behind
<1>4. launch[inbox[i + 1].run] = "asked" /\ inbox[i + 1].kind # "ack"
  BY <1>2, Typed
<1>5. PICK j \in 1..(i + 1) - 1 : inbox[j].run = inbox[i + 1].run /\ inbox[j].kind = "ack"
  BY <1>2, <1>4 DEF AckFirst, Behind
<1>6. j # 1
  BY <1>2, <1>5
<1>7. j \in 1..Len(inbox) /\ j - 1 \in 1..i - 1
  BY <1>2, <1>3, <1>5, <1>6
<1>8. inbox'[j - 1] = inbox[j]
  BY <1>1, <1>6, <1>7, Nearer
<1> QED
  BY <1>2, <1>5, <1>7, <1>8

LEMMA BehindStep ==
  ASSUME TypeOK, Started, Replied, AckFirst, [Next]_vars, NEW i \in 1..Len(inbox')
  PROVE  Behind(i)'
<1>0. inbox \in Seq(Frames)
  BY DEF TypeOK
<1>1. CASE UNCHANGED inbox
  <2>1. launch'[inbox[i].run] = "asked" => launch[inbox[i].run] = "asked"
    BY <1>1, LaunchStep, Typed DEF Started
  <2> QED
    BY <1>1, <2>1 DEF AckFirst, Behind
<1>2. ASSUME NEW r \in Runs, NEW kind \in Kinds, Sends(r, kind)
      PROVE  Behind(i)'
  <2>1. /\ Len(inbox') = Len(inbox) + 1 /\ Len(inbox) \in Nat
        /\ \A j \in 1..Len(inbox) : inbox'[j] = inbox[j]
        /\ inbox'[Len(inbox) + 1] = Frame(r, kind)
        /\ launch' = launch
    BY <1>2, SentIsLast DEF Sends
  <2>2. CASE i \in 1..Len(inbox)
    <3>1. \A j \in 1..i - 1 : inbox'[j] = inbox[j]
      BY <2>1, <2>2
    <3> QED
      BY <2>1, <2>2, <3>1 DEF AckFirst, Behind
  <2>3. CASE i \notin 1..Len(inbox)
    <3>1. i = Len(inbox) + 1 /\ inbox'[i] = Frame(r, kind)
      BY <2>1, <2>3
    <3> SUFFICES ASSUME kind # "ack", launch[r] = "asked" PROVE Behind(i)'
      BY <2>1, <3>1 DEF Behind, Frame
    <3>2. PICK j \in 1..Len(inbox) : inbox[j].run = r /\ inbox[j].kind = "ack"
      BY <1>2 DEF Replied, Has, Sends
    <3>3. j \in 1..i - 1 /\ inbox'[j] = inbox[j]
      BY <2>1, <3>1
    <3> QED
      BY <3>1, <3>2, <3>3 DEF Behind, Frame
  <2> QED
    BY <2>2, <2>3
<1>3. CASE TakeReply
  <2>1. /\ \A r \in Runs : launch'[r] = "asked" => launch[r] = "asked"
        /\ launch'[inbox[1].run] # "asked"
    BY <1>3, Taken DEF TypeOK
  <2> QED
    BY <1>3, <2>1, Taken, HeadLeaves
<1>4. CASE Yield
  <2>1. launch' = launch
    BY <1>4 DEF Yield
  <2> QED
    BY <1>4, <2>1, Yielded, HeadLeaves
<1>5. CASE Disconnect
  BY <1>5 DEF Disconnect
<1> QED
  BY <1>1, <1>2, <1>3, <1>4, <1>5, QueueCases DEF HandleEvent, Displace

LEMMA AckFirstStep ==
  ASSUME TypeOK, Started, Replied, AckFirst, [Next]_vars
  PROVE  AckFirst'
<1>1. ASSUME NEW i \in 1..Len(buffer')
      PROVE  buffer'[i].kind # "ack" /\ launch'[buffer'[i].run] # "asked"
  <2>1. CASE \E j \in 1..Len(buffer) : buffer'[i] = buffer[j]
    <3>1. PICK j \in 1..Len(buffer) : buffer'[i] = buffer[j]
      BY <2>1
    <3>2. launch[buffer[j].run] # "idle"
      BY Typed DEF Started
    <3>3. launch'[buffer[j].run] # "asked"
      BY <3>2, LaunchStep, Typed DEF AckFirst
    <3> QED
      BY <3>1, <3>3 DEF AckFirst
  <2>2. CASE Yield /\ buffer'[i] = inbox[1]
    <3>1. 1 \in 1..Len(inbox) /\ inbox[1].kind # "ack" /\ launch' = launch
      BY <2>2, Yielded, TailFacts DEF Yield
    <3>2. launch[inbox[1].run] # "asked"
      BY <3>1 DEF AckFirst, Behind
    <3> QED
      BY <2>2, <3>1, <3>2
  <2> QED
    BY <2>1, <2>2, BufferOrigin
<1> QED
  BY <1>1, BehindStep DEF AckFirst

LEMMA HeadFacts ==
  ASSUME IInv, HandleEvent
  PROVE  /\ Head(buffer).run \in Runs /\ online
         /\ launch[Head(buffer).run] \in {"answered", "begun", "refused"}
<1>1. /\ buffer \in Seq(Frames) /\ buffer # <<>> /\ Head(buffer) = buffer[1]
      /\ Head(buffer).run \in Runs /\ online
  BY Popped DEF IInv, Separate, TypeOK
<1>2. 1 \in 1..Len(buffer)
  BY <1>1, TailFacts
<1>3. launch[Head(buffer).run] \notin {"idle", "asked"}
  BY <1>1, <1>2 DEF IInv, Started, AckFirst
<1> QED
  BY <1>1, <1>3 DEF IInv, TypeOK

LEMMA ShownStep ==
  ASSUME TypeOK, [Next]_vars, NEW r \in Runs, Shown(r)'
  PROVE  Shown(r) \/ launch[r] = "answered"
<1> USE DEF TypeOK, Shown
<1>1. CASE User
  BY <1>1 DEF User, StartSession, DispatchTask, StopTask, DismissTask, StopSession, NewChat,
              Disconnect, Runs
<1>2. CASE Core
  BY <1>2, CoreSends DEF Sends
<1>3. CASE TakeReply \/ Yield \/ Displace
  BY <1>3 DEF TakeReply, Yield, Displace
<1>4. CASE HandleEvent
  <2>1. running' = running \/ running' = Nobody
    BY <1>4 DEF HandleEvent, UpdateTask, UpdateChat
  <2>2. \A b \in Background : tasks'[b] = "running" => tasks[b] = "running"
    BY <1>4 DEF HandleEvent, UpdateTask, UpdateChat, Settle, Listed
  <2> QED
    BY <2>1, <2>2
<1>5. ASSUME NEW x \in Runs, GiveUp(x) \/ Continue(x)
      PROVE  Shown(r) \/ launch[r] = "answered"
  BY <1>5 DEF GiveUp, Continue, Runs
<1>6. CASE UNCHANGED vars
  BY <1>6 DEF vars
<1> QED
  BY <1>1, <1>2, <1>3, <1>4, <1>5, <1>6 DEF Next, App

\* What was missed stays so.
LEMMA MissedStays ==
  ASSUME TypeOK, [Next]_vars
  PROVE  missed \subseteq missed'
BY QueueCases DEF Sends, TakeReply, Yield, Displace, HandleEvent, Disconnect

LEMMA OwedStep ==
  ASSUME IInv, [Next]_vars
  PROVE  Owed'
<1> USE DEF IInv
<1> SUFFICES ASSUME NEW r \in Runs, online', stage'[r] = "over",
                    Shown(r)' \/ launch'[r] \in {"asked", "answered"}
             PROVE  OnItsWay(r, Ends)' \/ r \in missed'
  BY DEF Owed
<1>1. online /\ ~Disconnect
  BY QueueCases DEF Sends, TakeReply, Yield, Displace, HandleEvent, Disconnect
<1>2. CASE stage[r] # "over"
  <2>1. PICK kind \in Kinds : Sends(r, kind)
    BY <1>2, StageStays
  <2>2. kind \in Ends /\ Has(inbox', r, {kind})
    BY <2>1, SentIsLast DEF Sends
  <2> QED
    BY <2>2 DEF OnItsWay, Has
<1>3. CASE stage[r] = "over"
  <2>1. launch[r] # "idle"
    BY <1>3 DEF Started
  <2>2. Shown(r) \/ launch[r] \in {"asked", "answered"}
    BY <2>1, ShownStep, LaunchStep
  <2>3. OnItsWay(r, Ends) \/ r \in missed
    BY <1>1, <1>3, <2>2 DEF Owed
  <2>4. CASE r \in missed
    BY <2>4, MissedStays
  <2>5. CASE HandleEvent /\ Head(buffer).run = r /\ Head(buffer).kind \in Ends
    <3>1. launch' = launch /\ launch[r] # "asked"
      BY <2>5, HeadFacts DEF HandleEvent
    <3>2. ~Shown(r)'
      BY <2>5, EndHandled DEF Separate
    <3>3. launch[r] = "answered"
      BY <3>1, <3>2
    <3> QED
      BY <2>5, <3>3 DEF HandleEvent, EndOf
  <2>6. CASE Has(buffer, r, Ends)
    BY <1>1, <2>5, <2>6, BufferedEnd DEF OnItsWay, Has
  <2>7. CASE Has(inbox, r, Ends)
    BY <1>1, <2>7, InboxEnd DEF OnItsWay, Has
  <2> QED
    BY <2>3, <2>4, <2>6, <2>7 DEF OnItsWay
<1> QED
  BY <1>2, <1>3

LEMMA StepInv == IInv /\ [Next]_vars => IInv'
BY TypeStep, SeparateStep, StartedStep, RepliedStep, AckFirstStep, OwedStep DEF IInv

\* The inductive invariant of the app's picture: what is asked for, what has started and
\* what is on its way agree, a run's reply is ahead of its frames, and a run shown after
\* its end is owed one.
THEOREM Invariant == Spec => []IInv
<1>1. Init => IInv
  <2> SUFFICES ASSUME Init PROVE IInv
    OBVIOUS
  <2>1. TypeOK
    BY DEF Init, TypeOK
  <2>2. Separate
    BY DEF Init, Separate, Runs
  <2>3. Started /\ Replied /\ AckFirst /\ Owed
    BY DEF Init, Started, Replied, AckFirst, Owed
  <2> QED
    BY <2>1, <2>2, <2>3 DEF IInv
<1> QED
  BY <1>1, StepInv, PTL DEF Spec

\* An ending frame of a run that is shown as running stays on its way until the run is no
\* longer shown, or the stream drops it: no stop, dismissal, timeout or other run's frame
\* loses it.
THEOREM EndsKept == Spec => EndsAreKept
<1>1. IInv /\ [Next]_vars
        => [\A r \in Runs : Shown(r) /\ OnItsWay(r, Ends)
              => OnItsWay(r, Ends)' \/ ~Shown(r)' \/ r \in missed']_vars
  BY EndsKeptStep DEF IInv, Separate
<1> QED
  BY <1>1, Invariant, PTL DEF Spec, EndsAreKept

\* A run that is over and shown as running has its end on its way, unless one of its ends
\* was dropped by the full stream or handled between the reply and its caller's turn: there
\* is no third way in which a run stays shown for ever.
THEOREM ShownEnds == Spec => []ShownIsLive
<1>1. IInv => ShownIsLive
  BY DEF IInv, Owed, ShownIsLive
<1> QED
  BY <1>1, Invariant, PTL

-----------------------------------------------------------------------------
(* When a task disturbs the conversation.                                  *)

\* ForegroundUndisturbed does not hold.  A task's frame changes the conversation only
\* while the task has no entry: its caller was answered and has not had its turn, or gave
\* up; or the user dismissed it.
StraysOnly ==
  [][HandleEvent /\ Head(buffer).run \in Background /\ foreground' # foreground
       => \/ launch[Head(buffer).run] \in {"answered", "refused"}
          \/ tasks[Head(buffer).run] = "dismissed"]_vars

\* The two windows of handleEvent's "not a background task's": the only ways in which a
\* task's events touch the foreground conversation.
THEOREM Windows == Spec => StraysOnly
<1> DEFINE Act == HandleEvent /\ Head(buffer).run \in Background /\ foreground' # foreground
                    => \/ launch[Head(buffer).run] \in {"answered", "refused"}
                       \/ tasks[Head(buffer).run] = "dismissed"
<1>1. IInv /\ [Next]_vars => [Act]_vars
  <2> SUFFICES ASSUME IInv, HandleEvent, Head(buffer).run \in Background,
                      foreground' # foreground,
                      launch[Head(buffer).run] \notin {"answered", "refused"},
                      tasks[Head(buffer).run] # "dismissed"
               PROVE  FALSE
    OBVIOUS
  <2>1. ~Listed(Head(buffer))
    BY DEF HandleEvent, UpdateTask
  <2>2. tasks[Head(buffer).run] = "none"
    BY <2>1 DEF Listed
  <2>3. online /\ launch[Head(buffer).run] = "begun"
    BY HeadFacts
  <2> QED
    BY <2>2, <2>3 DEF IInv, Separate
<1> QED
  BY <1>1, Invariant, PTL DEF Spec, StraysOnly
=============================================================================
