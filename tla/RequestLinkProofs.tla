-------------------------- MODULE RequestLinkProofs --------------------------
(***************************************************************************)
(* Proofs about RequestLink for any number of requests and any size of the *)
(* socket buffer: types, an inductive invariant in three parts, the safety *)
(* invariants of the runs, what keeps every call on its way to an answer,  *)
(* and that the link implements RemoteCall.                                *)
(***************************************************************************)
EXTENDS RequestLink, SequenceTheorems, TLAPS

\* A request is in one place only on its way to the core, untouched until it arrives,
\* and nothing is carried out for a call that was not made.
Queued ==
  /\ \A i \in 1..Len(toCore) :
       /\ work[toCore[i]] = "none"
       /\ call[toCore[i]] # "idle"
       /\ toCore[i] # writing
  /\ \A i, j \in 1..Len(toCore) : i # j => toCore[i] # toCore[j]
  /\ writing # NoCall => writing \in pending /\ work[writing] = "none"
  /\ \A k \in Calls : call[k] = "idle" => work[k] = "none"

\* A response on its way to the app is about a request that was carried out.
Truthful ==
  \A i \in 1..Len(toApp) : toApp[i].kind = "response" => work[toApp[i].id] = "done"

IInv == TypeOK /\ NobodyLeftWaiting /\ ResumedOnce /\ Queued /\ Truthful

-----------------------------------------------------------------------------
USE LinkAssumption DEF actor, core, Failures, PoolStages, CommitStages

\* A reply leaves both queues well formed (handle_connection).
LEMMA ReplyTypes ==
  ASSUME TypeOK, serving \in Calls, NEW kind \in {"response", "error"}, Reply(kind)
  PROVE  /\ toApp' \in Seq(Replies)
         /\ toCore' \in Seq(Calls) /\ Len(toCore') <= SendBuffer
         /\ server' \in {"open", "closed"}
         /\ serving' = NoCall
<1>1. [id |-> serving, kind |-> kind] \in Replies
  BY DEF Replies
<1>2. toApp \in Seq(Replies) /\ toCore \in Seq(Calls) /\ Len(toCore) <= SendBuffer
  BY DEF TypeOK
<1>3. CASE up /\ toApp' = Append(toApp, [id |-> serving, kind |-> kind])
           /\ server' = server /\ toCore' = toCore
  BY <1>1, <1>2, <1>3 DEF Reply, TypeOK
<1>4. CASE ~up /\ server' = "closed" /\ toCore' = <<>> /\ toApp' = toApp
  BY <1>2, <1>4 DEF Reply
<1>. QED
  BY <1>3, <1>4 DEF Reply

\* Every step of either end keeps the types.
LEMMA TypeStep ==
  ASSUME TypeOK, [Next]_vars
  PROVE  TypeOK'
<1>. USE DEF TypeOK
<1>1. ASSUME NEW k \in Calls, Refuse(k) PROVE TypeOK'
  BY <1>1 DEF Refuse
<1>2. ASSUME NEW k \in Calls, Send(k) PROVE TypeOK'
  BY <1>2 DEF Send
<1>3. ASSUME NEW k \in Calls, TimerFires(k) PROVE TypeOK'
  BY <1>3 DEF TimerFires
<1>4. ASSUME NEW k \in Calls, FailTimedOut(k) PROVE TypeOK'
  BY <1>4 DEF FailTimedOut, Free
<1>5. CASE Written
  BY <1>5 DEF Written, Free
<1>6. CASE WriteFails
  BY <1>6 DEF WriteFails, Resume, Free
<1>7. CASE TakeReply
  BY <1>7 DEF TakeReply, Addressee, Resume, Free
<1>8. CASE SeeClose
  <2>1. Resume(pending, "closed")
    BY <1>8 DEF SeeClose, Teardown
  <2>2. call' \in [Calls -> {"idle", "waiting", "answered"} \cup Failures]
    BY <2>1 DEF Resume
  <2>3. resumes' \in [Calls -> Nat] /\ timer' \in [Calls -> {"off", "armed", "fired"}]
    BY <2>1 DEF Resume
  <2>4. up' = FALSE /\ pending' = {} /\ toApp' \in Seq(Replies)
    BY <1>8 DEF SeeClose, Teardown
  <2>. QED
    BY <1>8, <2>2, <2>3, <2>4 DEF SeeClose
<1>9. CASE Disconnect
  <2>1. Resume(pending, "closed")
    BY <1>9 DEF Disconnect, Teardown
  <2>2. call' \in [Calls -> {"idle", "waiting", "answered"} \cup Failures]
    BY <2>1 DEF Resume
  <2>3. resumes' \in [Calls -> Nat] /\ timer' \in [Calls -> {"off", "armed", "fired"}]
    BY <2>1 DEF Resume
  <2>4. up' = FALSE /\ pending' = {} /\ toApp' \in Seq(Replies)
    BY <1>9 DEF Disconnect, Teardown
  <2>. QED
    BY <1>9, <2>2, <2>3, <2>4 DEF Disconnect
<1>10. CASE Receive
  BY <1>10 DEF Receive
<1>11. CASE Respond
  <2>. DEFINE kind == IF work[serving] = "done" THEN "response" ELSE "error"
  <2>1. Reply(kind) /\ kind \in {"response", "error"} /\ serving \in Calls
    BY <1>11 DEF Respond
  <2>. HIDE DEF kind
  <2>. QED
    BY <1>11, <2>1, ReplyTypes DEF Respond
<1>12. CASE Deadline
  <2>1. Reply("error") /\ serving \in Calls
    BY <1>12 DEF Deadline
  <2>. QED
    BY <1>12, <2>1, ReplyTypes DEF Deadline
<1>13. CASE SeeHangup
  BY <1>13 DEF SeeHangup
<1>14. CASE CoreExit
  BY <1>14 DEF CoreExit
<1>15. ASSUME NEW k \in Calls, NEW result \in {"staged", "done", "failed"}, PoolEnds(k, result)
     PROVE  TypeOK'
  BY <1>15 DEF PoolEnds
<1>16. ASSUME NEW k \in Calls, NEW result \in {"staged", "done", "failed"}, GitEnds(k, result)
     PROVE  TypeOK'
  BY <1>16 DEF GitEnds
<1>17. ASSUME NEW k \in Calls, GitCommit(k) PROVE TypeOK'
  BY <1>17 DEF GitCommit
<1>18. CASE UNCHANGED <<up, call, resumes, pending, timer, writing, toCore, toApp, server, serving, work, dropped>>
  BY <1>18
<1>. HIDE DEF TypeOK
<1>. QED
  BY <1>1, <1>2, <1>3, <1>4, <1>5, <1>6, <1>7, <1>8, <1>9, <1>10, <1>11, <1>12, <1>13, <1>14, <1>15, <1>16, <1>17, <1>18 DEF Next, Client, Core, Work, vars

\* Whoever returns a call takes it out of the table, and the teardown empties it.
LEMMA WaitingStep ==
  ASSUME TypeOK, Queued, NobodyLeftWaiting, [Next]_vars
  PROVE  NobodyLeftWaiting'
<1>. USE DEF TypeOK, NobodyLeftWaiting
<1>1. ASSUME NEW k \in Calls, Refuse(k) PROVE NobodyLeftWaiting'
  BY <1>1 DEF Refuse
<1>2. ASSUME NEW k \in Calls, Send(k) PROVE NobodyLeftWaiting'
  BY <1>2 DEF Send
<1>3. ASSUME NEW k \in Calls, FailTimedOut(k) PROVE NobodyLeftWaiting'
  BY <1>3 DEF FailTimedOut, Free
<1>4. CASE WriteFails
  BY <1>4 DEF WriteFails, Resume, Free
<1>5. CASE TakeReply
  BY <1>5 DEF TakeReply, Addressee, Resume, Free
<1>6. CASE SeeClose
  BY <1>6 DEF SeeClose, Teardown, Resume, Free
<1>7. CASE Disconnect
  BY <1>7 DEF Disconnect, Teardown, Resume, Free
<1>8. CASE UNCHANGED <<up, call, pending>>
  BY <1>8
<1>. HIDE DEF TypeOK, NobodyLeftWaiting
<1>. QED
  BY <1>1, <1>2, <1>3, <1>4, <1>5, <1>6, <1>7, <1>8 DEF TimerFires, Written, Free, Receive, Respond, Reply, Deadline, SeeHangup, CoreExit, PoolEnds, GitEnds, GitCommit, Next, Client, Core, Work, vars

\* Only a call in the table is resumed.
LEMMA ResumedStep ==
  ASSUME TypeOK, NobodyLeftWaiting, Queued, ResumedOnce, [Next]_vars
  PROVE  ResumedOnce'
<1>. USE DEF TypeOK, NobodyLeftWaiting, ResumedOnce, Queued
<1>1. ASSUME NEW k \in Calls, Refuse(k) PROVE ResumedOnce'
  BY <1>1 DEF Refuse
<1>2. ASSUME NEW k \in Calls, Send(k) PROVE ResumedOnce'
  BY <1>2 DEF Send
<1>3. ASSUME NEW k \in Calls, FailTimedOut(k) PROVE ResumedOnce'
  BY <1>3 DEF FailTimedOut, Free
<1>4. CASE WriteFails
  BY <1>4 DEF WriteFails, Resume, Free
<1>5. CASE TakeReply
  BY <1>5 DEF TakeReply, Addressee, Resume, Free
<1>6. CASE SeeClose
  BY <1>6 DEF SeeClose, Teardown, Resume, Free
<1>7. CASE Disconnect
  BY <1>7 DEF Disconnect, Teardown, Resume, Free
<1>8. CASE UNCHANGED <<call, resumes>>
  BY <1>8
<1>. HIDE DEF TypeOK, NobodyLeftWaiting, Queued, ResumedOnce
<1>. QED
  BY <1>1, <1>2, <1>3, <1>4, <1>5, <1>6, <1>7, <1>8 DEF TimerFires, Written, Free, Receive, Respond, Reply, Deadline, SeeHangup, CoreExit, PoolEnds, GitEnds, GitCommit, Next, Client, Core, Work, vars

\* Requests arrive one by one, each once.
LEMMA QueuedStep ==
  ASSUME TypeOK, NobodyLeftWaiting, Queued, [Next]_vars
  PROVE  Queued'
<1>. USE DEF TypeOK, NobodyLeftWaiting, Queued
<1>1. ASSUME NEW k \in Calls, Refuse(k) PROVE Queued'
  BY <1>1 DEF Refuse
<1>2. ASSUME NEW k \in Calls, Send(k) PROVE Queued'
  BY <1>2 DEF Send
<1>3. ASSUME NEW k \in Calls, FailTimedOut(k) PROVE Queued'
  BY <1>3 DEF FailTimedOut, Free
<1>4. CASE Written
  <2>1. Len(toCore') = Len(toCore) + 1 /\ toCore'[Len(toCore')] = writing
    BY <1>4 DEF Written, Free
  <2>2. \A i \in 1..Len(toCore) : toCore'[i] = toCore[i] /\ toCore[i] # writing
    BY <1>4 DEF Written, Free
  <2>. QED
    BY <1>4, <2>1, <2>2 DEF Written, Free
<1>5. CASE WriteFails
  BY <1>5 DEF WriteFails, Resume, Free
<1>6. CASE TakeReply
  BY <1>6 DEF TakeReply, Addressee, Resume, Free
<1>7. CASE SeeClose
  BY <1>7 DEF SeeClose, Teardown, Resume, Free
<1>8. CASE Disconnect
  BY <1>8 DEF Disconnect, Teardown, Resume, Free
<1>9. CASE Receive
  BY <1>9 DEF Receive
<1>10. CASE Respond
  BY <1>10 DEF Respond, Reply
<1>11. CASE Deadline
  BY <1>11 DEF Deadline, Reply
<1>12. CASE CoreExit
  BY <1>12 DEF CoreExit
<1>13. ASSUME NEW k \in Calls, NEW result \in {"staged", "done", "failed"}, PoolEnds(k, result)
     PROVE  Queued'
  BY <1>13 DEF PoolEnds
<1>14. ASSUME NEW k \in Calls, NEW result \in {"staged", "done", "failed"}, GitEnds(k, result)
     PROVE  Queued'
  BY <1>14 DEF GitEnds
<1>15. ASSUME NEW k \in Calls, GitCommit(k) PROVE Queued'
  BY <1>15 DEF GitCommit
<1>. HIDE DEF TypeOK, NobodyLeftWaiting, Queued
<1>16. CASE UNCHANGED <<call, pending, writing, toCore, work>>
  BY <1>16 DEF Queued
<1>. QED
  BY <1>1, <1>2, <1>3, <1>4, <1>5, <1>6, <1>7, <1>8, <1>9, <1>10, <1>11, <1>12, <1>13, <1>14, <1>15, <1>16 DEF TimerFires, SeeHangup, Next, Client, Core, Work, vars

\* A response is written when the work is done, and done work stays done.
LEMMA TruthfulStep ==
  ASSUME TypeOK, Queued, Truthful, [Next]_vars
  PROVE  Truthful'
<1>. USE DEF TypeOK, Truthful
<1>0. \A i \in 1..Len(toApp) : toApp[i] \in Replies /\ toApp[i].id \in Calls
  <2>1. \A i \in 1..Len(toApp) : toApp[i] \in Replies
    OBVIOUS
  <2>. QED
    BY <2>1 DEF Replies
<1>1. CASE TakeReply
  <2>1. toApp # <<>> /\ toApp' = Tail(toApp) /\ work' = work
    BY <1>1 DEF TakeReply
  <2>2. \A i \in 1..Len(toApp') : i + 1 \in 1..Len(toApp) /\ toApp'[i] = toApp[i + 1]
    BY <2>1
  <2>. QED
    BY <2>1, <2>2
<1>2. CASE Disconnect
  BY <1>2 DEF Disconnect, Teardown, Resume, Free
<1>3. CASE Receive
  <2>1. Head(toCore) = toCore[1] /\ work[toCore[1]] = "none"
    BY <1>3 DEF Receive, Queued
  <2>. QED
    BY <1>0, <1>3, <2>1 DEF Receive
<1>4. CASE Respond
  <2>. DEFINE kind == IF work[serving] = "done" THEN "response" ELSE "error"
  <2>1. Reply(kind)
    BY <1>4 DEF Respond
  <2>2. CASE toApp' = Append(toApp, [id |-> serving, kind |-> kind])
    BY <1>4, <2>2 DEF Respond
  <2>3. CASE toApp' = toApp
    BY <1>4, <2>3 DEF Respond
  <2>. QED
    BY <2>1, <2>2, <2>3 DEF Reply
<1>5. CASE Deadline
  <2>1. Reply("error")
    BY <1>5 DEF Deadline
  <2>2. [id |-> serving, kind |-> "error"].kind # "response"
    OBVIOUS
  <2>3. CASE toApp' = Append(toApp, [id |-> serving, kind |-> "error"])
    BY <1>5, <2>2, <2>3 DEF Deadline
  <2>4. CASE toApp' = toApp
    BY <1>5, <2>4 DEF Deadline
  <2>. QED
    BY <2>1, <2>3, <2>4 DEF Reply
<1>6. CASE CoreExit
  BY <1>0, <1>6 DEF CoreExit
<1>7. ASSUME NEW k \in Calls, NEW result \in {"staged", "done", "failed"}, PoolEnds(k, result)
     PROVE  Truthful'
  <2>1. toApp' = toApp /\ \A q \in Calls : work[q] = "done" => work'[q] = "done"
    BY <1>7 DEF PoolEnds
  <2>. QED
    BY <1>0, <2>1
<1>8. ASSUME NEW k \in Calls, NEW result \in {"staged", "done", "failed"}, GitEnds(k, result)
     PROVE  Truthful'
  <2>1. toApp' = toApp /\ \A q \in Calls : work[q] = "done" => work'[q] = "done"
    BY <1>8 DEF GitEnds
  <2>. QED
    BY <1>0, <2>1
<1>9. ASSUME NEW k \in Calls, GitCommit(k) PROVE Truthful'
  <2>1. toApp' = toApp /\ \A q \in Calls : work[q] = "done" => work'[q] = "done"
    BY <1>9 DEF GitCommit
  <2>. QED
    BY <1>0, <2>1
<1>10. CASE UNCHANGED <<toApp, work>>
  BY <1>10
<1>. HIDE DEF TypeOK, Truthful
<1>. QED
  BY <1>1, <1>2, <1>3, <1>4, <1>5, <1>6, <1>7, <1>8, <1>9, <1>10 DEF Refuse, Send, TimerFires, FailTimedOut, Free, Written, WriteFails, Resume, SeeClose, Teardown, SeeHangup, Next, Client, Core, Work, vars

-----------------------------------------------------------------------------
\* The initial state satisfies every part.
LEMMA InitIInv == Init => IInv
  BY DEF Init, IInv, TypeOK, NobodyLeftWaiting, ResumedOnce, Queued, Truthful

\* Every variable keeps its type, for any number of requests (IpcClient, dispatch).
THEOREM TypeCorrect == Spec => []TypeOK
<1>1. Init => TypeOK
  BY DEF Init, TypeOK
<1>2. TypeOK /\ [Next]_vars => TypeOK'
  BY TypeStep
<1>. QED
  BY <1>1, <1>2, PTL DEF Spec

\* The inductive invariant of the link.
THEOREM Invariant == Spec => []IInv
<1>1. IInv /\ [Next]_vars => IInv'
  BY TypeStep, WaitingStep, ResumedStep, QueuedStep, TruthfulStep DEF IInv
<1>. QED
  BY <1>1, InitIInv, PTL DEF Spec

\* A continuation is resumed exactly once (failTimedOut, dispatch, send, teardown).
THEOREM OnceResumed == Spec => []ResumedOnce
<1>1. IInv => ResumedOnce
  BY DEF IInv
<1>. QED
  BY <1>1, Invariant, PTL

\* Nobody waits on a link that is down (teardown).
THEOREM NoneLeft == Spec => []NobodyLeftWaiting
<1>1. IInv => NobodyLeftWaiting
  BY DEF IInv
<1>. QED
  BY <1>1, Invariant, PTL


-----------------------------------------------------------------------------
(* What keeps every call on its way to an answer: its timer, and its       *)
(* request or reply on an open link.                                       *)

\* The request or the reply of a call is somewhere on the link.
OnTheLink(k) ==
  \/ writing = k \/ serving = k
  \/ \E i \in 1..Len(toCore) : toCore[i] = k
  \/ \E i \in 1..Len(toApp) : toApp[i].id = k

\* A call that waits has a timer that was not cancelled, a timer that sleeps has a call
\* that waits, and on an open link the call's request or reply is not lost.
EveryCallIsTimed ==
  /\ \A k \in pending : timer[k] \in {"armed", "fired"}
  /\ \A k \in Calls : timer[k] = "armed" => k \in pending

NothingIsLost == \A k \in pending : server = "open" => OnTheLink(k)

\* A request has one reply at most, and only once it is no longer to be handled.
OneReplyEach ==
  /\ serving # NoCall => work[serving] # "none"
  /\ \A i \in 1..Len(toApp) : work[toApp[i].id] # "none" /\ toApp[i].id # serving
  /\ \A i, j \in 1..Len(toApp) : i # j => toApp[i].id # toApp[j].id

\* The stages a request goes through are those of its kind.
ByKind ==
  \A k \in Calls : work[k] \in IF k \in Commits THEN CommitStages ELSE PoolStages

\* Only a git.commit can be dropped with its work half done.
OnlyCommitsAreHalfDone == \A k \in dropped : work[k] = "staged" => k \in Commits
\* What a handler dropped between the two git commands staged is never committed.
AbandonedStaysStaged ==
  [][\A k \in Calls : work[k] = "staged" /\ serving # k => work'[k] = "staged"]_<<work, serving>>

\* Timers are cancelled only for calls that return, and fire into the table.
LEMMA TimedStep ==
  ASSUME TypeOK, NobodyLeftWaiting, Queued, EveryCallIsTimed, [Next]_vars
  PROVE  EveryCallIsTimed'
<1>. USE DEF TypeOK, NobodyLeftWaiting, EveryCallIsTimed
<1>1. ASSUME NEW k \in Calls, Send(k) PROVE EveryCallIsTimed'
  BY <1>1 DEF Send
<1>2. ASSUME NEW k \in Calls, TimerFires(k) PROVE EveryCallIsTimed'
  BY <1>2 DEF TimerFires
<1>3. ASSUME NEW k \in Calls, FailTimedOut(k) PROVE EveryCallIsTimed'
  BY <1>3 DEF FailTimedOut, Free
<1>4. CASE WriteFails
  BY <1>4 DEF WriteFails, Resume, Free, Queued
<1>5. CASE TakeReply
  BY <1>5 DEF TakeReply, Addressee, Resume, Free
<1>6. CASE SeeClose \/ Disconnect
  BY <1>6 DEF SeeClose, Disconnect, Teardown, Resume
<1>7. CASE UNCHANGED <<pending, timer>>
  BY <1>7
<1>. HIDE DEF TypeOK, NobodyLeftWaiting, EveryCallIsTimed
<1>. QED
  BY <1>1, <1>2, <1>3, <1>4, <1>5, <1>6, <1>7
     DEF Refuse, Written, Receive, Respond, Deadline, SeeHangup, CoreExit, PoolEnds,
         GitEnds, GitCommit, Next, Client, Core, Work, vars

\* A reply takes a request from the handler to the app, or closes the link.
LEMMA LostByReply ==
  ASSUME TypeOK, NobodyLeftWaiting, NothingIsLost, serving \in Calls, UNCHANGED actor,
         NEW kind \in {"response", "error"}, Reply(kind)
  PROVE  NothingIsLost'
<1>1. CASE up /\ toApp' = Append(toApp, [id |-> serving, kind |-> kind])
           /\ server' = server /\ toCore' = toCore
  <2>. SUFFICES ASSUME NEW k \in pending, server = "open"
                PROVE  OnTheLink(k)'
    BY <1>1 DEF NothingIsLost
  <2>1. Len(toApp') = Len(toApp) + 1 /\ toApp'[Len(toApp) + 1].id = serving
    BY <1>1 DEF TypeOK
  <2>2. \A i \in 1..Len(toApp) : i \in 1..Len(toApp') /\ toApp'[i] = toApp[i]
    BY <1>1 DEF TypeOK
  <2>3. Len(toApp) + 1 \in 1..Len(toApp')
    BY <2>1 DEF TypeOK
  <2>4. OnTheLink(k)
    BY DEF NothingIsLost
  <2>5. CASE serving = k
    BY <2>1, <2>3, <2>5 DEF OnTheLink
  <2>6. CASE \E i \in 1..Len(toApp) : toApp[i].id = k
    BY <2>2, <2>6 DEF OnTheLink
  <2>. QED
    BY <1>1, <2>4, <2>5, <2>6 DEF OnTheLink
<1>2. CASE ~up
  BY <1>2 DEF NobodyLeftWaiting, NothingIsLost
<1>. QED
  BY <1>1, <1>2 DEF Reply

\* The frame of a call moves from the actor to the socket, to the handler and back.
LEMMA LostStep ==
  ASSUME TypeOK, NobodyLeftWaiting, Queued, NothingIsLost, [Next]_vars
  PROVE  NothingIsLost'
<1>. USE DEF TypeOK, NobodyLeftWaiting, NothingIsLost
<1>1. ASSUME NEW k \in Calls, Send(k) PROVE NothingIsLost'
  BY <1>1 DEF Send, OnTheLink, Free
<1>2. ASSUME NEW k \in Calls, FailTimedOut(k) PROVE NothingIsLost'
  BY <1>2 DEF FailTimedOut, OnTheLink
<1>3. CASE Written
  <2>1. Len(toCore') = Len(toCore) + 1 /\ toCore'[Len(toCore) + 1] = writing
    BY <1>3 DEF Written, Free
  <2>2. \A i \in 1..Len(toCore) : i \in 1..Len(toCore') /\ toCore'[i] = toCore[i]
    BY <1>3 DEF Written, Free
  <2>3. Len(toCore) + 1 \in 1..Len(toCore')
    BY <2>1
  <2>. SUFFICES ASSUME NEW k \in pending, server = "open"
                PROVE  OnTheLink(k)'
    BY <1>3 DEF Written
  <2>4. OnTheLink(k) /\ serving' = serving /\ toApp' = toApp
    BY <1>3 DEF Written
  <2>5. CASE writing = k
    BY <2>1, <2>3, <2>5 DEF OnTheLink
  <2>6. CASE \E i \in 1..Len(toCore) : toCore[i] = k
    BY <2>2, <2>6 DEF OnTheLink
  <2>. HIDE DEF TypeOK, NobodyLeftWaiting, NothingIsLost
  <2>. QED
    BY <2>4, <2>5, <2>6 DEF OnTheLink
<1>4. CASE WriteFails
  BY <1>4 DEF WriteFails
<1>5. CASE TakeReply
  <2>. SUFFICES ASSUME NEW k \in pending', server = "open"
                PROVE  OnTheLink(k)'
    BY <1>5 DEF TakeReply, core
  <2>1. k \in pending /\ k # Head(toApp).id
    BY <1>5 DEF TakeReply, Addressee
  <2>2. Head(toApp) = toApp[1] /\ toApp # <<>> /\ toApp' = Tail(toApp)
    BY <1>5 DEF TakeReply
  <2>3. \A i \in 1..Len(toApp) : i # 1 => i - 1 \in 1..Len(toApp') /\ toApp'[i - 1] = toApp[i]
    BY <2>2
  <2>4. OnTheLink(k)
    BY <2>1
  <2>5. CASE \E i \in 1..Len(toApp) : toApp[i].id = k
    <3>1. PICK i \in 1..Len(toApp) : toApp[i].id = k
      BY <2>5
    <3>2. i - 1 \in 1..Len(toApp') /\ toApp'[i - 1].id = k
      BY <2>1, <2>2, <2>3, <3>1
    <3>. QED
      BY <3>2 DEF OnTheLink
  <2>6. writing' = writing /\ serving' = serving /\ toCore' = toCore
    BY <1>5 DEF TakeReply, core
  <2>. HIDE DEF TypeOK, NobodyLeftWaiting, NothingIsLost
  <2>. QED
    BY <2>4, <2>5, <2>6 DEF OnTheLink
<1>6. CASE SeeClose \/ Disconnect
  BY <1>6 DEF SeeClose, Disconnect, Teardown
<1>7. CASE Receive
  <2>1. Head(toCore) = toCore[1] /\ toCore # <<>> /\ toCore' = Tail(toCore)
    BY <1>7 DEF Receive
  <2>2. \A i \in 1..Len(toCore) : i # 1 => i - 1 \in 1..Len(toCore') /\ toCore'[i - 1] = toCore[i]
    BY <2>1
  <2>3. serving' = toCore[1] /\ serving = NoCall
    BY <1>7, <2>1 DEF Receive
  <2>4. ASSUME NEW k \in pending, OnTheLink(k)
        PROVE  OnTheLink(k)'
    <3>1. writing' = writing /\ toApp' = toApp /\ k # NoCall
      BY <1>7 DEF Receive, actor
    <3>2. CASE \E i \in 1..Len(toCore) : toCore[i] = k
      BY <2>2, <2>3, <3>2 DEF OnTheLink
    <3>. HIDE DEF TypeOK, NobodyLeftWaiting, NothingIsLost
    <3>. QED
      BY <2>3, <2>4, <3>1, <3>2 DEF OnTheLink
  <2>. QED
    BY <1>7, <2>4 DEF Receive, actor
<1>8. CASE Respond
  <2>. DEFINE kind == IF work[serving] = "done" THEN "response" ELSE "error"
  <2>1. Reply(kind) /\ kind \in {"response", "error"} /\ serving \in Calls
    BY <1>8 DEF Respond
  <2>. HIDE DEF kind
  <2>. QED
    BY <1>8, <2>1, LostByReply DEF Respond
<1>9. CASE Deadline
  <2>1. Reply("error") /\ serving \in Calls
    BY <1>9 DEF Deadline
  <2>. QED
    BY <1>9, <2>1, LostByReply DEF Deadline
<1>10. CASE SeeHangup \/ CoreExit
  BY <1>10 DEF SeeHangup, CoreExit
<1>11. CASE UNCHANGED <<pending, writing, toCore, toApp, server, serving>>
  BY <1>11 DEF OnTheLink
<1>. HIDE DEF TypeOK, NobodyLeftWaiting, NothingIsLost
<1>. QED
  BY <1>1, <1>2, <1>3, <1>4, <1>5, <1>6, <1>7, <1>8, <1>9, <1>10, <1>11
     DEF Refuse, TimerFires, PoolEnds, GitEnds, GitCommit, Next, Client, Core, Work, vars

\* A reply on its way bears the id of a request.
LEMMA ReplyIds ==
  ASSUME TypeOK
  PROVE  \A i \in 1..Len(toApp) : toApp[i].id \in Calls
<1>1. \A i \in 1..Len(toApp) : toApp[i] \in Replies
  BY DEF TypeOK
<1>. QED
  BY <1>1 DEF Replies

\* The handler's reply is the first and the last to its request.
LEMMA OneByReply ==
  ASSUME TypeOK, OneReplyEach, serving \in Calls, work' = work,
         NEW kind \in {"response", "error"}, Reply(kind)
  PROVE  OneReplyEach'
<1>1. serving' = NoCall
  BY DEF Reply
<1>2. CASE toApp' = toApp
  <2>1. \A i \in 1..Len(toApp) : toApp[i].id # NoCall
    BY ReplyIds
  <2>. QED
    BY <1>1, <1>2, <2>1 DEF OneReplyEach
<1>3. CASE toApp' = Append(toApp, [id |-> serving, kind |-> kind])
  <2>1. Len(toApp') = Len(toApp) + 1 /\ toApp'[Len(toApp) + 1].id = serving
    BY <1>3 DEF TypeOK
  <2>2. \A i \in 1..Len(toApp) : toApp'[i] = toApp[i]
    BY <1>3 DEF TypeOK
  <2>3. \A i \in 1..Len(toApp') : i = Len(toApp) + 1 \/ i \in 1..Len(toApp)
    BY <2>1 DEF TypeOK
  <2>4. \A i \in 1..Len(toApp) : toApp[i].id # NoCall
    BY ReplyIds
  <2>. QED
    BY <1>1, <2>1, <2>2, <2>3, <2>4 DEF OneReplyEach
<1>. QED
  BY <1>2, <1>3 DEF Reply

\* Work goes on after its reply, but a request that has one is not taken up again.
LEMMA OneStep ==
  ASSUME TypeOK, Queued, OneReplyEach, [Next]_vars
  PROVE  OneReplyEach'
<1>. USE DEF TypeOK, OneReplyEach
<1>0. \A i \in 1..Len(toApp) : toApp[i].id \in Calls
  BY ReplyIds
<1>1. CASE TakeReply
  <2>1. toApp # <<>> /\ toApp' = Tail(toApp) /\ work' = work /\ serving' = serving
    BY <1>1 DEF TakeReply
  <2>2. \A i \in 1..Len(toApp') : i + 1 \in 1..Len(toApp) /\ toApp'[i] = toApp[i + 1]
    BY <2>1
  <2>3. ASSUME NEW i \in 1..Len(toApp'), NEW j \in 1..Len(toApp'), i # j
        PROVE  toApp'[i].id # toApp'[j].id
    <3>1. i \in Nat /\ j \in Nat
      BY <2>1
    <3>2. /\ i + 1 \in 1..Len(toApp) /\ toApp'[i] = toApp[i + 1]
          /\ j + 1 \in 1..Len(toApp) /\ toApp'[j] = toApp[j + 1]
      BY <2>2
    <3>3. i + 1 # j + 1
      BY <2>3, <3>1
    <3>. QED
      BY <3>2, <3>3
  <2>. HIDE DEF TypeOK
  <2>. QED
    BY <2>1, <2>2, <2>3
<1>2. CASE Disconnect
  BY <1>2 DEF Disconnect, Teardown
<1>3. CASE Receive
  <2>1. Head(toCore) = toCore[1] /\ work[toCore[1]] = "none" /\ toCore[1] \in Calls
    BY <1>3 DEF Receive, Queued
  <2>2. serving' = toCore[1] /\ work'[toCore[1]] # "none" /\ toApp' = toApp
    BY <1>3, <2>1 DEF Receive
  <2>3. \A k \in Calls \ {toCore[1]} : work'[k] = work[k]
    BY <1>3, <2>1 DEF Receive
  <2>. QED
    BY <1>0, <2>1, <2>2, <2>3
<1>4. CASE Respond
  <2>. DEFINE kind == IF work[serving] = "done" THEN "response" ELSE "error"
  <2>1. Reply(kind) /\ kind \in {"response", "error"} /\ serving \in Calls /\ work' = work
    BY <1>4 DEF Respond
  <2>. HIDE DEF kind
  <2>. QED
    BY <2>1, OneByReply
<1>5. CASE Deadline
  <2>1. Reply("error") /\ serving \in Calls /\ work' = work
    BY <1>5 DEF Deadline
  <2>. QED
    BY <2>1, OneByReply
<1>6. CASE CoreExit
  <2>1. \A k \in Calls : work[k] # "none" => work'[k] # "none"
    BY <1>6 DEF CoreExit
  <2>2. \A i \in 1..Len(toApp) : toApp[i].id # NoCall
    BY <1>0
  <2>. QED
    BY <1>0, <1>6, <2>1, <2>2 DEF CoreExit
<1>7. ASSUME NEW k \in Calls, NEW result \in {"staged", "done", "failed"},
             PoolEnds(k, result) \/ GitEnds(k, result) \/ GitCommit(k)
      PROVE  OneReplyEach'
  <2>1. \A q \in Calls : work[q] # "none" => work'[q] # "none"
    BY <1>7 DEF PoolEnds, GitEnds, GitCommit
  <2>2. toApp' = toApp /\ serving' = serving
    BY <1>7 DEF PoolEnds, GitEnds, GitCommit
  <2>. QED
    BY <1>0, <2>1, <2>2
<1>8. CASE UNCHANGED <<toApp, serving, work>>
  BY <1>8
<1>. HIDE DEF TypeOK, OneReplyEach
<1>. QED
  BY <1>1, <1>2, <1>3, <1>4, <1>5, <1>6, <1>7, <1>8
     DEF Refuse, Send, TimerFires, FailTimedOut, Written, WriteFails, SeeClose, SeeHangup,
         Next, Client, Core, Work, vars

\* A handler's stages do not change its kind.
LEMMA ByKindStep ==
  ASSUME TypeOK, ByKind, [Next]_vars
  PROVE  ByKind'
<1>. USE DEF TypeOK, ByKind
<1>1. CASE Receive
  BY <1>1 DEF Receive
<1>2. CASE CoreExit
  BY <1>2 DEF CoreExit
<1>3. ASSUME NEW k \in Calls, NEW result \in {"staged", "done", "failed"},
             PoolEnds(k, result) \/ GitEnds(k, result) \/ GitCommit(k)
      PROVE  ByKind'
  BY <1>3 DEF PoolEnds, GitEnds, GitCommit
<1>4. CASE UNCHANGED work
  BY <1>4
<1>. HIDE DEF TypeOK, ByKind
<1>. QED
  BY <1>1, <1>2, <1>3, <1>4
     DEF Refuse, Send, TimerFires, FailTimedOut, Written, WriteFails, TakeReply, SeeClose,
         Disconnect, Respond, Deadline, SeeHangup, Next, Client, Core, Work, vars

Accounted == IInv /\ EveryCallIsTimed /\ NothingIsLost /\ OneReplyEach /\ ByKind

\* Timers, frames and replies account for every call.
THEOREM CallsAccounted == Spec => []Accounted
<1>1. Init => Accounted
  BY InitIInv DEF Init, Accounted, EveryCallIsTimed, NothingIsLost, OneReplyEach, ByKind
<1>2. Accounted /\ [Next]_vars => Accounted'
  BY TypeStep, WaitingStep, ResumedStep, QueuedStep, TruthfulStep, TimedStep, LostStep,
     OneStep, ByKindStep DEF IInv, Accounted
<1>. QED
  BY <1>1, <1>2, PTL DEF Spec

\* Every call that waits has its timeout running or fired, and its request or reply is on
\* the link as long as the core's end is open: what CallersReturn rests on.
THEOREM CallsAreKept == Spec => [](EveryCallIsTimed /\ NothingIsLost)
<1>1. Accounted => EveryCallIsTimed /\ NothingIsLost
  BY DEF Accounted
<1>. QED
  BY <1>1, CallsAccounted, PTL

\* A request is answered at most once, by its handler or by the deadline, never by both.
THEOREM RepliedOnce == Spec => []OneReplyEach
<1>1. Accounted => OneReplyEach
  BY DEF Accounted
<1>. QED
  BY <1>1, CallsAccounted, PTL

\* How far the half-applied write that the deadline leaves can go: it is a git.commit's, and
\* once its handler is gone what was staged stays staged, uncommitted.
THEOREM HalfWritesAreCommits == Spec => []OnlyCommitsAreHalfDone /\ AbandonedStaysStaged
<1>1. Accounted => OnlyCommitsAreHalfDone
  BY DEF Accounted, IInv, TypeOK, ByKind, OnlyCommitsAreHalfDone, PoolStages
<1>2. Accounted /\ [Next]_vars =>
        [\A k \in Calls : work[k] = "staged" /\ serving # k => work'[k] = "staged"]_<<work, serving>>
  <2>. SUFFICES ASSUME Accounted, [Next]_vars, NEW k \in Calls, work[k] = "staged", serving # k
                PROVE  work'[k] = "staged"
    OBVIOUS
  <2>. USE DEF Accounted, IInv, TypeOK
  <2>1. CASE Receive
    <3>1. Head(toCore) = toCore[1] /\ work[toCore[1]] = "none"
      BY <2>1 DEF Receive, Queued
    <3>. QED
      BY <2>1, <3>1 DEF Receive
  <2>2. CASE CoreExit
    BY <2>2 DEF CoreExit
  <2>3. ASSUME NEW q \in Calls, NEW result \in {"staged", "done", "failed"},
               PoolEnds(q, result) \/ GitEnds(q, result) \/ GitCommit(q)
        PROVE  work'[k] = "staged"
    BY <2>3 DEF PoolEnds, GitEnds, GitCommit
  <2>4. CASE UNCHANGED work
    BY <2>4
  <2>. HIDE DEF Accounted, IInv, TypeOK
  <2>. QED
    BY <2>1, <2>2, <2>3, <2>4
       DEF Refuse, Send, TimerFires, FailTimedOut, Written, WriteFails, TakeReply, SeeClose,
           Disconnect, Respond, Deadline, SeeHangup, Next, Client, Core, Work, vars
<1>. QED
  BY <1>1, <1>2, CallsAccounted, PTL DEF Spec, AbandonedStaysStaged

-----------------------------------------------------------------------------
\* What the promise speaks of does not change.
Silent == outcome' = outcome /\ carriedOut' = carriedOut
Kept == RPC!Next \/ Silent

\* The steps of the promise.
LEMMA PromiseSteps ==
  /\ \A k \in Calls : RPC!Begin(k) \/ RPC!Perform(k) \/ RPC!Answer(k) => Kept
  /\ \A S \in SUBSET Calls : RPC!Fail(S) => Kept
  BY DEF Kept, RPC!Next

\* A step that leaves calls and work alone is none of the promise's.
LEMMA SilentSteps == UNCHANGED <<call, work>> => Kept
  BY DEF Kept, Silent, outcome, carriedOut

\* Calls that are made or fail change their outcome and nothing else.
LEMMA FailRefines ==
  ASSUME TypeOK, NobodyLeftWaiting, NEW S \in SUBSET pending, NEW result \in Failures,
         Resume(S, result), work' = work
  PROVE  Kept
<1>1. \A k \in S : outcome[k] = "waiting"
  BY DEF NobodyLeftWaiting, outcome, Failures
<1>2. outcome' = [k \in Calls |-> IF k \in S THEN "failed" ELSE outcome[k]]
  BY DEF Resume, outcome, TypeOK
<1>3. carriedOut' = carriedOut
  BY DEF carriedOut
<1>. QED
  <2>1. RPC!Fail(S)
    BY <1>1, <1>2, <1>3 DEF RPC!Fail
  <2>2. S \in SUBSET Calls
    BY DEF TypeOK
  <2>. QED
    BY <2>1, <2>2, PromiseSteps

\* A call that begins waits or has failed already.
LEMMA BeginRefines ==
  ASSUME TypeOK, NEW k \in Calls, NEW first \in {"waiting", "refused"},
         call[k] = "idle", call' = [call EXCEPT ![k] = first], work' = work
  PROVE  Kept
<1>. DEFINE seen == IF first = "waiting" THEN "waiting" ELSE "failed"
<1>1. outcome[k] = "idle" /\ seen \in {"waiting", "failed"}
  BY DEF outcome, Failures
<1>2. outcome' = [outcome EXCEPT ![k] = seen]
  BY DEF outcome, Failures, TypeOK
<1>3. carriedOut' = carriedOut
  BY DEF carriedOut
<1>. QED
  <2>1. RPC!Begin(k)
    BY <1>1, <1>2, <1>3 DEF RPC!Begin
  <2>. QED
    BY <2>1, PromiseSteps

\* Work that ends well performs its request, any other changes nothing.
LEMMA WorkRefines ==
  ASSUME TypeOK, Queued, NEW k \in Calls, NEW result \in {"staged", "done", "failed"},
         work[k] \in {"running", "adding", "committing"},
         work' = [work EXCEPT ![k] = result], call' = call
  PROVE  Kept
<1>1. outcome' = outcome
  BY DEF outcome
<1>2. outcome[k] # "idle" /\ k \notin carriedOut
  BY DEF outcome, carriedOut, Queued, Failures
<1>3. CASE result = "done"
  <2>1. carriedOut' = carriedOut \cup {k}
    BY <1>3 DEF carriedOut, TypeOK
  <2>. QED
    BY <1>1, <1>2, <2>1, PromiseSteps DEF RPC!Perform
<1>4. CASE result # "done"
  <2>1. carriedOut' = carriedOut
    BY <1>4 DEF carriedOut, TypeOK
  <2>. QED
    BY <1>1, <2>1 DEF Silent, Kept
<1>. QED
  BY <1>3, <1>4

\* A reply that finds its call answers it or fails it, a late one changes nothing.
LEMMA TakeReplyRefines ==
  ASSUME IInv, TakeReply
  PROVE  Kept
<1>. DEFINE reply == Head(toApp)
<1>1. TypeOK /\ NobodyLeftWaiting /\ Truthful /\ work' = work /\ toApp # <<>>
  BY DEF IInv, TakeReply, core
<1>2. reply \in Replies /\ reply = toApp[1]
  BY <1>1 DEF TypeOK
<1>3. reply.id \in Calls /\ reply.kind \in {"response", "error"}
  BY <1>2 DEF Replies
<1>4. reply.kind = "response" => work[reply.id] = "done"
  BY <1>1, <1>2 DEF Truthful, TypeOK
<1>5. Resume({reply.id} \cap pending, IF reply.kind = "response" THEN "answered" ELSE "remote")
  BY DEF TakeReply, Addressee
<1>. HIDE DEF reply
<1>6. carriedOut' = carriedOut
  BY <1>1 DEF carriedOut
<1>7. CASE reply.id \notin pending
  <2>1. outcome' = outcome
    BY <1>1, <1>5, <1>7 DEF Resume, outcome, TypeOK
  <2>. QED
    BY <1>6, <2>1 DEF Silent, Kept
<1>8. CASE reply.id \in pending /\ reply.kind = "response"
  <2>1. outcome[reply.id] = "waiting"
    BY <1>1, <1>8 DEF NobodyLeftWaiting, outcome, Failures
  <2>2. outcome' = [outcome EXCEPT ![reply.id] = "answered"]
    BY <1>1, <1>3, <1>5, <1>8 DEF Resume, outcome, TypeOK, Failures
  <2>3. reply.id \in carriedOut
    BY <1>3, <1>4, <1>8 DEF carriedOut
  <2>. QED
    BY <1>3, <1>6, <2>1, <2>2, <2>3, PromiseSteps DEF RPC!Answer
<1>9. CASE reply.id \in pending /\ reply.kind = "error"
  <2>1. {reply.id} \cap pending = {reply.id} /\ {reply.id} \in SUBSET pending
    BY <1>9
  <2>2. Resume({reply.id}, "remote")
    BY <1>5, <1>9, <2>1
  <2>. QED
    BY <1>1, <1>3, <2>1, <2>2, FailRefines DEF Failures
<1>. QED
  BY <1>3, <1>7, <1>8, <1>9

\* The initial states map to the promise's initial states.
LEMMA InitRefines == Init => RPC!Init
  BY DEF Init, RPC!Init, outcome, carriedOut, Failures

\* Every step of either end is a step of the promise or changes nothing it speaks of.
LEMMA StepRefines ==
  ASSUME IInv, [Next]_vars
  PROVE  [RPC!Next]_RPC!vars
<1>. SUFFICES Kept
  BY DEF Kept, RPC!vars, Silent
<1>0. TypeOK /\ NobodyLeftWaiting /\ Queued /\ Truthful
  BY DEF IInv
<1>1. ASSUME NEW k \in Calls, Refuse(k) PROVE Kept
  BY <1>0, <1>1, BeginRefines DEF Refuse, core
<1>2. ASSUME NEW k \in Calls, Send(k) PROVE Kept
  BY <1>0, <1>2, BeginRefines DEF Send, core
<1>3. ASSUME NEW k \in Calls, FailTimedOut(k) PROVE Kept
  <2>1. work' = work
    BY <1>3 DEF FailTimedOut, core
  <2>2. CASE k \in pending
    <3>1. outcome[k] = "waiting"
      BY <1>0, <2>2 DEF NobodyLeftWaiting, outcome, Failures
    <3>2. outcome' = [q \in Calls |-> IF q \in {k} THEN "failed" ELSE outcome[q]]
      BY <1>0, <1>3, <2>2 DEF FailTimedOut, outcome, TypeOK, Failures
    <3>3. carriedOut' = carriedOut
      BY <2>1 DEF carriedOut
    <3>4. RPC!Fail({k})
      BY <3>1, <3>2, <3>3 DEF RPC!Fail
    <3>. QED
      BY <3>4, PromiseSteps
  <2>3. CASE k \notin pending
    <3>1. call' = call
      BY <1>0, <1>3, <2>3 DEF FailTimedOut, TypeOK
    <3>. QED
      BY <2>1, <3>1, SilentSteps
  <2>. QED
    BY <2>2, <2>3
<1>4. CASE WriteFails
  <2>1. writing \in pending /\ Resume({writing}, "unsent") /\ work' = work
    BY <1>0, <1>4 DEF WriteFails, Free, Queued, core
  <2>2. {writing} \in SUBSET pending /\ "unsent" \in Failures
    BY <2>1 DEF Failures
  <2>. QED
    BY <1>0, <2>1, <2>2, FailRefines
<1>5. CASE TakeReply
  BY <1>5, TakeReplyRefines
<1>6. CASE SeeClose \/ Disconnect
  <2>1. Resume(pending, "closed") /\ work' = work
    BY <1>6 DEF SeeClose, Disconnect, Teardown, core
  <2>2. pending \in SUBSET pending /\ "closed" \in Failures
    BY DEF Failures
  <2>. QED
    BY <1>0, <2>1, <2>2, FailRefines
<1>7. CASE Receive
  <2>1. Head(toCore) = toCore[1] /\ work[toCore[1]] = "none" /\ toCore[1] \in Calls
    BY <1>0, <1>7 DEF Receive, Queued, TypeOK
  <2>2. work'[toCore[1]] # "done" /\ \A k \in Calls \ {toCore[1]} : work'[k] = work[k]
    BY <1>0, <1>7, <2>1 DEF Receive, TypeOK
  <2>3. carriedOut' = carriedOut
    BY <2>1, <2>2 DEF carriedOut
  <2>4. call' = call
    BY <1>7 DEF Receive, actor
  <2>. QED
    BY <2>3, <2>4 DEF Kept, Silent, outcome
<1>8. CASE CoreExit
  <2>1. \A k \in Calls : (work'[k] = "done") = (work[k] = "done")
    BY <1>0, <1>8 DEF CoreExit, TypeOK
  <2>2. call' = call
    BY <1>8 DEF CoreExit, actor
  <2>. QED
    BY <2>1, <2>2 DEF Kept, Silent, outcome, carriedOut
<1>9. ASSUME NEW k \in Calls, NEW result \in {"staged", "done", "failed"},
             PoolEnds(k, result) \/ GitEnds(k, result)
      PROVE  Kept
  BY <1>0, <1>9, WorkRefines DEF PoolEnds, GitEnds, actor
<1>10. ASSUME NEW k \in Calls, GitCommit(k) PROVE Kept
  <2>1. \A q \in Calls : (work'[q] = "done") = (work[q] = "done")
    BY <1>0, <1>10 DEF GitCommit, TypeOK
  <2>2. call' = call
    BY <1>10 DEF GitCommit, actor
  <2>. QED
    BY <2>1, <2>2 DEF Kept, Silent, outcome, carriedOut
<1>11. CASE UNCHANGED <<call, work>>
  BY <1>11, SilentSteps
<1>. QED
  BY <1>1, <1>2, <1>3, <1>4, <1>5, <1>6, <1>7, <1>8, <1>9, <1>10, <1>11
     DEF Next, Client, Core, Work, vars, actor, core, TimerFires, Written, Respond,
         Deadline, SeeHangup

\* The two ends implement the promise the callers rely on.
THEOREM Refinement == Spec => ImplementsRemoteCall
<1>1. IInv /\ [Next]_vars => [RPC!Next]_RPC!vars
  BY StepRefines
<1>. QED
  BY <1>1, InitRefines, Invariant, PTL DEF Spec, ImplementsRemoteCall, RPC!Spec
=============================================================================
