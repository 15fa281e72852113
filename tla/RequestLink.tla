----------------------------- MODULE RequestLink -----------------------------
(***************************************************************************)
(* One client connection, from both ends: the app's IpcClient actor with   *)
(* its table of pending requests, its timers and its read thread, and the  *)
(* core's connection handler, which takes one request at a time and races  *)
(* its handler against a deadline.                                         *)
(*                                                                         *)
(* An action is what one task does between two awaits.  The actor runs one *)
(* of its methods at a time, and writing a request is not an await: an     *)
(* actor whose socket buffer is full runs nothing else.                    *)
(***************************************************************************)
EXTENDS Naturals, Sequences, FiniteSets

CONSTANTS
  Calls,       \* the requests the app sends, each with an id of its own
  Commits,     \* those that are git.commit: handled inline, with two git children
  SendBuffer,  \* bound: requests that fit in the socket unread by the core
  NoCall

ASSUME LinkAssumption ==
  /\ Commits \subseteq Calls
  /\ NoCall \notin Calls
  /\ SendBuffer \in Nat \ {0}

VARIABLES
  up,       \* the client's state is connected
  call,     \* a call: "idle", "waiting", "answered" or how it failed
  resumes,  \* how many times a call's continuation was resumed
  pending,  \* the calls in the table of continuations
  timer,    \* a call's timeout task: "off", "armed" or, its sleep over, "fired"
  writing,  \* the call whose frame the actor is writing
  toCore,   \* frames on their way to the core
  toApp,    \* frames on their way to the app, up to its actor
  server,   \* the core's end of the connection is "open" or "closed"
  serving,  \* the request the core's connection handler is at
  work,     \* how far a request was carried out
  dropped   \* the requests whose handler was dropped at its deadline

actor == <<up, call, resumes, pending, timer, writing>>
core == <<server, serving, work, dropped>>
vars == <<up, call, resumes, pending, timer, writing, toCore, toApp, server,
          serving, work, dropped>>

Failures == {"refused", "unsent", "remote", "timedOut", "closed"}

\* Stages of a request on the blocking pool, and of a git.commit.
PoolStages == {"none", "running", "done", "failed", "lost"}
CommitStages == {"none", "adding", "staged", "committing", "done", "failed"}

Replies == [id : Calls, kind : {"response", "error"}]

Init ==
  /\ up = TRUE
  /\ call = [k \in Calls |-> "idle"]
  /\ resumes = [k \in Calls |-> 0]
  /\ pending = {}
  /\ timer = [k \in Calls |-> "off"]
  /\ writing = NoCall
  /\ toCore = <<>>
  /\ toApp = <<>>
  /\ server = "open"
  /\ serving = NoCall
  /\ work = [k \in Calls |-> "none"]
  /\ dropped = {}

-----------------------------------------------------------------------------
(* The client: every action but TimerFires runs on the actor.              *)

Free == writing = NoCall

\* The continuations of S are resumed; the callers' timers are cancelled if they
\* still sleep.
Resume(S, result) ==
  /\ call' = [k \in Calls |-> IF k \in S THEN result ELSE call[k]]
  /\ resumes' = [k \in Calls |-> IF k \in S THEN resumes[k] + 1 ELSE resumes[k]]
  /\ timer' = [k \in Calls |-> IF k \in S /\ timer[k] = "armed" THEN "off"
                                                                ELSE timer[k]]

\* A disconnected client refuses; no continuation and no timer is made.
Refuse(k) ==
  /\ Free
  /\ call[k] = "idle"
  /\ ~up
  /\ call' = [call EXCEPT ![k] = "refused"]
  /\ UNCHANGED <<up, resumes, pending, timer, writing, toCore, toApp, core>>

\* Mutant: no timeout.
Send_NoTimer(k) ==
  /\ Free
  /\ call[k] = "idle"
  /\ up
  /\ call' = [call EXCEPT ![k] = "waiting"]
  /\ pending' = pending \cup {k}
  /\ writing' = k
  /\ UNCHANGED <<up, resumes, timer, toCore, toApp, core>>

\* The timer is armed and the continuation registered before the frame is written.
Send(k) ==
  /\ Free
  /\ call[k] = "idle"
  /\ up
  /\ timer' = [timer EXCEPT ![k] = "armed"]
  /\ call' = [call EXCEPT ![k] = "waiting"]
  /\ pending' = pending \cup {k}
  /\ writing' = k
  /\ UNCHANGED <<up, resumes, toCore, toApp, core>>

\* Mutant: a frame is given up to the socket before it has room.
Written_Overfull ==
  /\ ~Free
  /\ server = "open"
  /\ toCore' = Append(toCore, writing)
  /\ writing' = NoCall
  /\ UNCHANGED <<up, call, resumes, pending, timer, toApp, core>>

\* `send` returns once the socket took the whole frame.
Written ==
  /\ ~Free
  /\ server = "open"
  /\ Len(toCore) < SendBuffer
  /\ toCore' = Append(toCore, writing)
  /\ writing' = NoCall
  /\ UNCHANGED <<up, call, resumes, pending, timer, toApp, core>>

\* The core's end is closed: the caller learns it from `send`.
WriteFails ==
  /\ ~Free
  /\ server = "closed"
  /\ pending' = pending \ {writing}
  /\ Resume({writing}, "unsent")
  /\ writing' = NoCall
  /\ UNCHANGED <<up, toCore, toApp, core>>

\* The timeout task's sleep is over and it was not cancelled; it now waits for the
\* actor.
TimerFires(k) ==
  /\ timer[k] = "armed"
  /\ timer' = [timer EXCEPT ![k] = "fired"]
  /\ UNCHANGED <<up, call, resumes, pending, writing, toCore, toApp, core>>

\* Mutant: the table is not asked whether the call still waits.
FailTimedOut_Always(k) ==
  /\ Free
  /\ timer[k] = "fired"
  /\ pending' = pending \ {k}
  /\ call' = [call EXCEPT ![k] = "timedOut"]
  /\ resumes' = [resumes EXCEPT ![k] = @ + 1]
  /\ timer' = [timer EXCEPT ![k] = "off"]
  /\ UNCHANGED <<up, writing, toCore, toApp, core>>

\* A no-op when the call has returned in the meantime.
FailTimedOut(k) ==
  /\ Free
  /\ timer[k] = "fired"
  /\ pending' = pending \ {k}
  /\ call' = [call EXCEPT ![k] = IF k \in pending THEN "timedOut" ELSE @]
  /\ resumes' = [resumes EXCEPT ![k] = IF k \in pending THEN @ + 1 ELSE @]
  /\ timer' = [timer EXCEPT ![k] = "off"]
  /\ UNCHANGED <<up, writing, toCore, toApp, core>>

\* Mutant: a reply is taken for the answer to the oldest call that waits.
Addressee_Oldest(reply) ==
  IF pending = {} THEN {}
  ELSE {CHOOSE k \in pending : TRUE}

\* The pending call a reply is for: none, if it has returned.
Addressee(reply) == {reply.id} \cap pending

\* A reply is correlated by its id; a late one finds no continuation.
TakeReply ==
  /\ Free
  /\ up
  /\ toApp # <<>>
  /\ toApp' = Tail(toApp)
  /\ LET S == Addressee(Head(toApp)) IN
     /\ pending' = pending \ S
     /\ Resume(S, IF Head(toApp).kind = "response" THEN "answered" ELSE "remote")
  /\ UNCHANGED <<up, writing, toCore, core>>

\* Mutant: the calls that wait are forgotten.
Teardown_Forgets ==
  /\ up' = FALSE
  /\ pending' = {}
  /\ UNCHANGED <<call, resumes, timer>>

\* The socket is closed and every call that waits fails.
Teardown ==
  /\ up' = FALSE
  /\ pending' = {}
  /\ Resume(pending, "closed")

\* The read thread found the end of the stream, after every frame before it.
SeeClose ==
  /\ Free
  /\ up
  /\ server = "closed"
  /\ toApp = <<>>
  /\ Teardown
  /\ UNCHANGED <<writing, toCore, toApp, core>>

\* The app leaves; what the consumer did not take is lost.
Disconnect ==
  /\ Free
  /\ up
  /\ Teardown
  /\ toApp' = <<>>
  /\ UNCHANGED <<writing, toCore, core>>

-----------------------------------------------------------------------------
(* The core's connection handler.                                          *)

Receive ==
  /\ server = "open"
  /\ serving = NoCall
  /\ toCore # <<>>
  /\ serving' = Head(toCore)
  /\ toCore' = Tail(toCore)
  /\ work' = [work EXCEPT ![Head(toCore)] =
                IF Head(toCore) \in Commits THEN "adding" ELSE "running"]
  /\ UNCHANGED <<actor, toApp, server, dropped>>

\* The handler's result is written.  To a client that left it cannot be: the
\* connection handler returns and what is unread goes with it.
Reply(kind) ==
  /\ serving' = NoCall
  /\ \/ /\ up
        /\ toApp' = Append(toApp, [id |-> serving, kind |-> kind])
        /\ UNCHANGED <<server, toCore>>
     \/ /\ ~up
        /\ server' = "closed"
        /\ toCore' = <<>>
        /\ UNCHANGED toApp

Respond ==
  /\ serving # NoCall
  /\ work[serving] \in {"done", "failed"}
  /\ Reply(IF work[serving] = "done" THEN "response" ELSE "error")
  /\ UNCHANGED <<actor, work, dropped>>

\* Mutant: handlers run on the connection's own task and never yield.
Deadline_Blocking == FALSE

\* The deadline passes first: the handler is dropped, at an await of its own or at
\* the join of its pool job, and the client gets an error.
Deadline ==
  /\ serving # NoCall
  /\ work[serving] \notin {"done", "failed"}
  /\ dropped' = dropped \cup {serving}
  /\ Reply("error")
  /\ UNCHANGED <<actor, work>>

\* read_frame finds the end of the stream.
SeeHangup ==
  /\ server = "open"
  /\ ~up
  /\ serving = NoCall
  /\ toCore = <<>>
  /\ server' = "closed"
  /\ UNCHANGED <<actor, toCore, toApp, serving, work, dropped>>

\* The core exits.  Pool jobs are waited for when it exits in good order, and lost
\* when it crashes; git children go on.
CoreExit ==
  /\ server = "open"
  /\ server' = "closed"
  /\ serving' = NoCall
  /\ toCore' = <<>>
  /\ \/ UNCHANGED work
     \/ work' = [k \in Calls |-> IF work[k] = "running" THEN "lost" ELSE work[k]]
  /\ UNCHANGED <<actor, toApp, dropped>>

-----------------------------------------------------------------------------
(* The work itself, on pool threads and in git processes: it goes on when  *)
(* the handler that waited for it is gone.                                 *)

PoolEnds(k, result) ==
  /\ work[k] = "running"
  /\ result \in {"done", "failed"}
  /\ work' = [work EXCEPT ![k] = result]
  /\ UNCHANGED <<actor, toCore, toApp, server, serving, dropped>>

GitEnds(k, result) ==
  /\ \/ work[k] = "adding" /\ result \in {"staged", "failed"}
     \/ work[k] = "committing" /\ result \in {"done", "failed"}
  /\ work' = [work EXCEPT ![k] = result]
  /\ UNCHANGED <<actor, toCore, toApp, server, serving, dropped>>

\* The inline handler goes from `git add` to `git commit`, unless it was dropped.
GitCommit(k) ==
  /\ serving = k
  /\ work[k] = "staged"
  /\ work' = [work EXCEPT ![k] = "committing"]
  /\ UNCHANGED <<actor, toCore, toApp, server, serving, dropped>>

-----------------------------------------------------------------------------
Client ==
  \/ \E k \in Calls : Refuse(k) \/ Send(k) \/ TimerFires(k) \/ FailTimedOut(k)
  \/ Written \/ WriteFails \/ TakeReply \/ SeeClose \/ Disconnect

Core == Receive \/ Respond \/ Deadline \/ SeeHangup \/ CoreExit

Work ==
  \E k \in Calls :
    \/ \E result \in {"staged", "done", "failed"} :
         PoolEnds(k, result) \/ GitEnds(k, result)
    \/ GitCommit(k)

Next == Client \/ Core \/ Work

Spec == Init /\ [][Next]_vars

\* The actor, the timers and the read thread run; nothing is asked of the core.
ClientFairness ==
  /\ \A k \in Calls : WF_vars(TimerFires(k)) /\ WF_vars(FailTimedOut(k))
  /\ WF_vars(Written) /\ WF_vars(WriteFails)
  /\ WF_vars(TakeReply) /\ WF_vars(SeeClose)

\* The connection's task and the deadline run; nothing is asked of the handlers.
CoreFairness == WF_vars(Receive) /\ WF_vars(Respond) /\ WF_vars(Deadline)

ClientSpec == Spec /\ ClientFairness

-----------------------------------------------------------------------------
\* Every variable has its type; the frames in the socket fit its buffer.
TypeOK ==
  /\ up \in BOOLEAN
  /\ call \in [Calls -> {"idle", "waiting", "answered"} \cup Failures]
  /\ resumes \in [Calls -> Nat]
  /\ pending \subseteq Calls
  /\ timer \in [Calls -> {"off", "armed", "fired"}]
  /\ writing \in Calls \cup {NoCall}
  /\ toCore \in Seq(Calls) /\ Len(toCore) <= SendBuffer
  /\ toApp \in Seq(Replies)
  /\ server \in {"open", "closed"}
  /\ serving \in Calls \cup {NoCall}
  /\ work \in [Calls -> PoolStages \cup CommitStages]
  /\ dropped \subseteq Calls

\* A continuation is resumed exactly once (twice is a trap in Swift): a reply, the
\* timeout, a failing write and the teardown of the link all claim it through the
\* table of pending calls.
ResumedOnce ==
  \A k \in Calls :
    resumes[k] = IF call[k] \in {"answered", "remote", "timedOut", "closed", "unsent"}
                 THEN 1 ELSE 0

\* Nobody waits on a link that is down: each call that waits is in the table that
\* the teardown empties, and none is added to it afterwards.
NobodyLeftWaiting ==
  /\ pending = {k \in Calls : call[k] = "waiting"}
  /\ pending # {} => up

\* The calls a client sees, and the requests carried out.
outcome == [k \in Calls |-> IF call[k] \in Failures THEN "failed" ELSE call[k]]
carriedOut == {k \in Calls : work[k] = "done"}

RPC == INSTANCE RemoteCall WITH call <- outcome, performed <- carriedOut

\* The two ends keep the link's promise: an answer is the caller's own, its request
\* was carried out, and no request is carried out twice.
ImplementsRemoteCall == RPC!Spec

\* Every call returns, even when the core is bound to the socket but never answers,
\* unless its actor stays inside a blocking send for ever.
CallersReturn ==
  []<>(writing = NoCall) =>
    \A k \in Calls : (call[k] = "waiting") ~> (call[k] # "waiting")

\* A handler that never ends does not pin its connection: the deadline passes and
\* the requests behind it are taken up.
RequestsTakenUp ==
  CoreFairness => \A k \in Calls :
    (\E i \in 1..Len(toCore) : toCore[i] = k) ~> (work[k] # "none" \/ server = "closed")

\* What the comment on deadline_for says: a handler dropped at its deadline leaves
\* no half-applied write behind.
NoHalfWrite ==
  \A k \in Calls : k \in dropped => work[k] # "staged"
=============================================================================
