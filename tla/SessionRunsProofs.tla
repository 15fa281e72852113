-------------------------- MODULE SessionRunsProofs --------------------------
(***************************************************************************)
(* Proofs about SessionRuns for any number of runs, connections and        *)
(* events: the type invariant, an inductive invariant in six parts, the    *)
(* safety invariants it implies, the order of the frames a client is sent, *)
(* that no run stalls, and the refinement to RunRegistry.                  *)
(***************************************************************************)
EXTENDS SessionRuns, SequenceTheorems, TLAPS

Active == {"armed", "spawned"} \cup Streaming
PastLoop == {"hook", "hooked", "finishing", "over"}
BeforeLaunch == {"new", "row", "armed", "spawned", "failing"}

\* A run has a connection from its request on; an aborted run's is closed.
Placed ==
  \A r \in Runs :
    /\ pc[r] # "new" => home[r] \in Conns /\ conn[home[r]] # "new"
    /\ pc[r] = "aborted" => conn[home[r]] = "closed"
    /\ home[r] # NoConn => pc[r] # "new"

\* The process exists only after its launch, its owner reports only what happened, and
\* past the loop a process is alive only if its client has gone or one of its frames
\* could not be written, which ends the loop.
Processes ==
  \A r \in Runs :
    /\ pc[r] \in BeforeLaunch => proc[r] = "none"
    /\ pc[r] \in Streaming => proc[r] # "none"
    /\ proc[r] = "none" => outcome[r] = "none"
    /\ outcome[r] \in {"Ok", "Failed", "Stopped"} => ~Alive(r)
    /\ pc[r] \in PastLoop /\ Alive(r) => conn[home[r]] # "open" \/ frame[r] = "lost"
    /\ frame[r] = "lost" => pc[r] \in PastLoop \cup {"aborted"} /\ proc[r] # "none"

\* The registries follow the forwarder, except those of an aborted run.
Registered ==
  \A r \in Runs \ FailingRows :
    /\ pc[r] \in Active => cancels[r] = r
    /\ pc[r] \notin Active \cup {"aborted"} => cancels[r] # r
    /\ pc[r] \notin Streaming \cup {"aborted"} => pids[r] # r

\* The stories an event log can tell.
Untold == <<>>
Begun == <<"started">>
NotSpawned == <<"started", "spawn_failed">>
Ended == <<"started", "completed">>
Hooked == <<"started", "completed", "post_run_hook">>

\* The lifecycle events a run has at each point of its life.
Logged ==
  \A r \in Runs :
    /\ r \in FailingRows => events[r] = Untold
    /\ r \notin FailingRows =>
         /\ pc[r] \in {"new", "row"} => events[r] = Untold
         /\ pc[r] \in Active => events[r] = Begun
         /\ pc[r] = "failing" => events[r] = NotSpawned
         /\ pc[r] = "hook" => events[r] = Ended
         /\ pc[r] \in {"hooked", "finishing"} => events[r] \in {Ended, Hooked}
         /\ pc[r] \in {"over", "aborted"} =>
              events[r] \in {Untold, Begun, NotSpawned, Ended, Hooked}

\* Only a run past its loop, its process gone or its stream broken, is reported.
Reported ==
  \A r \in Runs :
    wire[r] = "done" =>
      /\ pc[r] = "over" /\ (Alive(r) => frame[r] = "lost")
      /\ (r \notin FailingRows => events[r] \in {Ended, Hooked})

\* The archive is even with the client, or one message ahead of it.
Archived ==
  \A r \in Runs \ FailingRows :
    /\ job[r] => pc[r] \in {"saving", "aborted"} /\ saved[r] = shown[r]
    /\ pc[r] = "saving" => job[r] /\ frame[r] = "text"
    /\ pc[r] \in BeforeLaunch \cup {"streaming", "saving"} => saved[r] = shown[r]
    /\ pc[r] = "writing" => saved[r] = IF frame[r] = "text" THEN shown[r] + 1 ELSE shown[r]
    /\ shown[r] <= saved[r] /\ saved[r] <= shown[r] + 1

IInv == TypeOK /\ Placed /\ Processes /\ Registered /\ Logged /\ Reported /\ Archived

-----------------------------------------------------------------------------
USE RunsAssumption DEF links, task, registry, control, cli, archive, client

\* What Append makes of a one-element sequence.
LEMMA AppendToOne ==
  ASSUME NEW a, NEW b
  PROVE  Append(<<a>>, b) = <<a, b>>
<1>1. <<a>> \in Seq({a, b}) /\ <<a, b>> \in Seq({a, b})
  OBVIOUS
<1>2. Append(<<a>>, b) \in Seq({a, b}) /\ Len(Append(<<a>>, b)) = 2
  BY <1>1
<1>3. \A i \in 1..2 : Append(<<a>>, b)[i] = <<a, b>>[i]
  BY <1>1
<1>. QED
  BY <1>1, <1>2, <1>3, SeqEqual

\* What Append makes of a two-element sequence.
LEMMA AppendToTwo ==
  ASSUME NEW a, NEW b, NEW c
  PROVE  Append(<<a, b>>, c) = <<a, b, c>>
<1>1. <<a, b>> \in Seq({a, b, c}) /\ <<a, b, c>> \in Seq({a, b, c})
  OBVIOUS
<1>2. Append(<<a, b>>, c) \in Seq({a, b, c}) /\ Len(Append(<<a, b>>, c)) = 3
  BY <1>1
<1>3. \A i \in 1..3 : Append(<<a, b>>, c)[i] = <<a, b, c>>[i]
  BY <1>1
<1>. QED
  BY <1>1, <1>2, <1>3, SeqEqual

\* Each lifecycle event takes the log from one story to the next (record_run_event).
LEMMA Stories ==
  /\ Append(Untold, "started") = Begun
  /\ Append(Begun, "spawn_failed") = NotSpawned
  /\ Append(Begun, "completed") = Ended
  /\ Append(Ended, "post_run_hook") = Hooked
<1>1. Append(Untold, "started") = Begun
  BY DEF Untold, Begun
<1>. QED
  BY <1>1, AppendToOne, AppendToTwo DEF Begun, NotSpawned, Ended, Hooked

\* No story but the first is empty.
LEMMA OnlyUntoldIsEmpty == Untold = <<>> /\ <<>> \notin {Begun, NotSpawned, Ended, Hooked}
  BY DEF Untold, Begun, NotSpawned, Ended, Hooked

-----------------------------------------------------------------------------
\* The hook's frame reaches the client or it does not; the forwarder goes on.
LEMMA HookReported ==
  ASSUME TypeOK, NEW r \in Runs, ReportHook(r)
  PROVE  /\ pc[r] = "hooked" /\ pc' = [pc EXCEPT ![r] = "finishing"]
         /\ wire' = [wire EXCEPT ![r] = wire'[r]] /\ wire'[r] \in {wire[r], "hook"}
         /\ UNCHANGED <<conn, home, frame, cancels, pids, stop, signal, proc, outcome,
                        unread, emitted, job, saved, shown, events>>
<1>1. CASE LastFrame(r, "hooked", "finishing", "hook")
  BY <1>1 DEF LastFrame, TypeOK
<1>2. CASE LastFrame(r, "hooked", "finishing", wire[r])
  BY <1>2 DEF LastFrame, TypeOK
<1>. QED
  BY <1>1, <1>2 DEF ReportHook

\* What the forwarder takes from the output is a line of the CLI.
LEMMA LineTaken ==
  ASSUME TypeOK, NEW r \in Runs, TakeLine(r)
  PROVE  Head(unread[r]) \in Lines /\ Tail(unread[r]) \in Seq(Lines)
  BY DEF TakeLine, TypeOK

\* Every step of every task keeps the types.
LEMMA TypeStep ==
  ASSUME TypeOK, [Next]_vars
  PROVE  TypeOK'
<1>. USE DEF TypeOK, Ids, Phases, Handling, Forwarding, Streaming
<1>1. ASSUME NEW c \in Conns, Connect(c)
      PROVE  TypeOK'
  BY <1>1 DEF Connect
<1>2. ASSUME NEW c \in Conns, Hangup(c)
      PROVE  TypeOK'
  BY <1>2 DEF Hangup
<1>3. ASSUME NEW c \in Conns, CloseConn(c)
      PROVE  TypeOK'
  BY <1>3 DEF CloseConn, Return, Guarded
<1>4. ASSUME NEW c \in Conns, NEW r \in Runs, StartRun(c, r)
      PROVE  TypeOK'
  BY <1>4 DEF StartRun
<1>5. ASSUME NEW c \in Conns, NEW i \in Ids, Stop(c, i)
      PROVE  TypeOK'
  <2>1. cancels[i] \in Runs
    BY <1>5 DEF Stop
  <2>2. stop' \subseteq Runs
    BY <1>5, <2>1 DEF Stop
  <2>. QED
    BY <1>5, <2>2 DEF Stop
<1>6. ASSUME NEW c \in Conns, NEW i \in Ids, NEW kind \in {"STOP", "CONT"}, FindPid(c, i, kind)
      PROVE  TypeOK'
  BY <1>6 DEF FindPid
<1>7. ASSUME NEW c \in Conns, Signal(c)
      PROVE  TypeOK'
  BY <1>7 DEF Signal, NoSignal, Alive
<1>8. ASSUME NEW r \in Runs, Arm(r)
      PROVE  TypeOK'
  BY <1>8 DEF Arm, Log, Id
<1>9. ASSUME NEW r \in Runs, Ack(r)
      PROVE  TypeOK'
  BY <1>9 DEF Ack
<1>10. ASSUME NEW r \in Runs, AckFails(r)
      PROVE  TypeOK'
  <2>1. conn' \in [Conns -> {"new", "open", "hungup", "closed"}]
    BY <1>10 DEF AckFails, Return
  <2>2. pc' \in [Runs -> Phases] /\ unread' \in [Runs -> Seq(Lines)]
    BY <1>10 DEF AckFails, Return
  <2>. QED
    BY <1>10, <2>1, <2>2 DEF AckFails
<1>11. ASSUME NEW r \in Runs, Launch(r)
      PROVE  TypeOK'
  BY <1>11 DEF Launch, Id
<1>12. ASSUME NEW r \in Runs, LaunchFails(r)
      PROVE  TypeOK'
  BY <1>12 DEF LaunchFails, Log, Disarm, Id
<1>13. ASSUME NEW r \in Runs, ReportFailure(r)
      PROVE  TypeOK'
  BY <1>13 DEF ReportFailure, LastFrame
<1>14. ASSUME NEW r \in Runs, TakeLine(r)
      PROVE  TypeOK'
  <2>1. Head(unread[r]) \in Lines /\ Tail(unread[r]) \in Seq(Lines)
    BY <1>14, LineTaken
  <2>2. /\ frame' \in [Runs -> {"none", "spawned", "text", "info", "end", "lost"}]
        /\ unread' \in [Runs -> Seq(Lines)]
    BY <1>14, <2>1 DEF TakeLine
  <2>3. job' \in [Runs -> BOOLEAN] /\ pc' \in [Runs -> Phases]
    BY <1>14 DEF TakeLine
  <2>. QED
    BY <1>14, <2>2, <2>3 DEF TakeLine
<1>15. ASSUME NEW r \in Runs, TakeEnd(r)
      PROVE  TypeOK'
  BY <1>15 DEF TakeEnd
<1>16. ASSUME NEW r \in Runs, WriteFrame(r)
      PROVE  TypeOK'
  BY <1>16 DEF WriteFrame
<1>17. ASSUME NEW r \in Runs, WriteFails(r)
      PROVE  TypeOK'
  <2>1. unread' \in [Runs -> Seq(Lines)]
    BY <1>17 DEF WriteFails
  <2>2. frame' \in [Runs -> {"none", "spawned", "text", "info", "end", "lost"}]
    BY <1>17 DEF WriteFails
  <2>. QED
    BY <1>17, <2>1, <2>2 DEF WriteFails, Conclude, Log, Disarm, Id
<1>18. ASSUME NEW r \in Runs, StreamEnds(r)
      PROVE  TypeOK'
  BY <1>18 DEF StreamEnds, Conclude, Log, Disarm, Id
<1>19. ASSUME NEW r \in Runs, HookEnds(r)
      PROVE  TypeOK'
  BY <1>19 DEF HookEnds, Log
<1>20. ASSUME NEW r \in Runs, ReportHook(r)
      PROVE  TypeOK'
  <2>1. /\ pc[r] = "hooked" /\ pc' = [pc EXCEPT ![r] = "finishing"]
        /\ wire' = [wire EXCEPT ![r] = wire'[r]] /\ wire'[r] \in {wire[r], "hook"}
        /\ UNCHANGED <<conn, home, frame, cancels, pids, stop, signal, proc, outcome,
                       unread, emitted, job, saved, shown, events>>
    BY <1>20, HookReported
  <2>2. wire' \in [Runs -> {"none", "ack", "streaming", "ended", "hook", "done"}]
    BY <2>1
  <2>3. pc' \in [Runs -> Phases]
    BY <2>1
  <2>. QED
    BY <2>1, <2>2, <2>3
<1>21. ASSUME NEW r \in Runs, ReportDone(r)
      PROVE  TypeOK'
  BY <1>21 DEF ReportDone, LastFrame
<1>22. ASSUME NEW r \in Runs, SaveText(r)
      PROVE  TypeOK'
  BY <1>22 DEF SaveText
<1>23. ASSUME NEW r \in Runs, OwnerReaps(r)
      PROVE  TypeOK'
  BY <1>23 DEF OwnerReaps
<1>24. ASSUME NEW r \in Runs, OwnerKills(r)
      PROVE  TypeOK'
  BY <1>24 DEF OwnerKills, Alive
<1>25. ASSUME NEW r \in Runs, NEW line \in Lines, CliWrites(r, line)
      PROVE  TypeOK'
  <2>1. Append(unread[r], line) \in Seq(Lines)
    OBVIOUS
  <2>2. unread' \in [Runs -> Seq(Lines)] /\ emitted' \in [Runs -> 0..MaxLines]
    BY <1>25, <2>1 DEF CliWrites
  <2>. QED
    BY <1>25, <2>2 DEF CliWrites
<1>26. ASSUME NEW r \in Runs, NEW status \in {"ok", "bad"}, CliExits(r, status)
      PROVE  TypeOK'
  BY <1>26 DEF CliExits
<1>27. CASE CoreExit
  BY <1>27 DEF CoreExit, NoSignal
<1>28. CASE UNCHANGED vars
  BY <1>28 DEF vars
<1>. HIDE DEF TypeOK
<1>. QED
  BY <1>1, <1>2, <1>3, <1>4, <1>5, <1>6, <1>7, <1>8, <1>9, <1>10, <1>11, <1>12, <1>13,
     <1>14, <1>15, <1>16, <1>17, <1>18, <1>19, <1>20, <1>21, <1>22, <1>23, <1>24, <1>25,
     <1>26, <1>27, <1>28
     DEF Next, Handler, Forwarder, Owner, Cli, Request

\* Every variable has its type in every reachable state, for any number of runs and
\* connections (main.rs, router.rs, cs-claude).
THEOREM TypeCorrect == Spec => []TypeOK
<1>1. Init => TypeOK
  BY DEF Init, TypeOK, Ids, Phases, NoSignal
<1>2. TypeOK /\ [Next]_vars => TypeOK'
  BY TypeStep
<1>. QED
  BY <1>1, <1>2, PTL DEF Spec

-----------------------------------------------------------------------------
\* Connections close and runs move on, but a run never loses its connection, and only
\* the end of a connection (or of the core) aborts a run.
LEMMA PlacedStep ==
  ASSUME TypeOK, Placed, [Next]_vars
  PROVE  Placed'
<1>. USE DEF TypeOK, Placed, Handling, Forwarding, Streaming, Serving
<1>1. ASSUME NEW c \in Conns, Connect(c)
      PROVE  Placed'
  BY <1>1 DEF Connect
<1>2. ASSUME NEW c \in Conns, Hangup(c)
      PROVE  Placed'
  BY <1>2 DEF Hangup
<1>3. ASSUME NEW c \in Conns, CloseConn(c)
      PROVE  Placed'
  BY <1>3 DEF CloseConn, Return, Guarded
<1>4. ASSUME NEW c \in Conns, NEW r \in Runs, StartRun(c, r)
      PROVE  Placed'
  BY <1>4 DEF StartRun
<1>5. ASSUME NEW r \in Runs, Arm(r)
      PROVE  Placed'
  BY <1>5 DEF Arm
<1>6. ASSUME NEW r \in Runs, Ack(r)
      PROVE  Placed'
  BY <1>6 DEF Ack
<1>7. ASSUME NEW r \in Runs, AckFails(r)
      PROVE  Placed'
  BY <1>7 DEF AckFails, Return, Guarded
<1>8. ASSUME NEW r \in Runs, Launch(r)
      PROVE  Placed'
  BY <1>8 DEF Launch
<1>9. ASSUME NEW r \in Runs, LaunchFails(r)
      PROVE  Placed'
  BY <1>9 DEF LaunchFails
<1>10. ASSUME NEW r \in Runs, ReportFailure(r)
      PROVE  Placed'
  BY <1>10 DEF ReportFailure, LastFrame
<1>11. ASSUME NEW r \in Runs, TakeLine(r)
      PROVE  Placed'
  BY <1>11 DEF TakeLine
<1>12. ASSUME NEW r \in Runs, TakeEnd(r)
      PROVE  Placed'
  BY <1>12 DEF TakeEnd
<1>13. ASSUME NEW r \in Runs, WriteFrame(r)
      PROVE  Placed'
  BY <1>13 DEF WriteFrame
<1>14. ASSUME NEW r \in Runs, WriteFails(r)
      PROVE  Placed'
  BY <1>14 DEF WriteFails, Conclude
<1>15. ASSUME NEW r \in Runs, StreamEnds(r)
      PROVE  Placed'
  BY <1>15 DEF StreamEnds, Conclude
<1>16. ASSUME NEW r \in Runs, HookEnds(r)
      PROVE  Placed'
  BY <1>16 DEF HookEnds
<1>17. ASSUME NEW r \in Runs, ReportHook(r)
      PROVE  Placed'
  BY <1>17 DEF ReportHook, LastFrame
<1>18. ASSUME NEW r \in Runs, ReportDone(r)
      PROVE  Placed'
  BY <1>18 DEF ReportDone, LastFrame
<1>19. ASSUME NEW r \in Runs, SaveText(r)
      PROVE  Placed'
  BY <1>19 DEF SaveText
<1>20. CASE CoreExit
  BY <1>20 DEF CoreExit
<1>21. CASE UNCHANGED <<conn, home, pc>>
  BY <1>21
<1>. QED
  BY <1>1, <1>2, <1>3, <1>4, <1>5, <1>6, <1>7, <1>8, <1>9, <1>10, <1>11, <1>12, <1>13,
     <1>14, <1>15, <1>16, <1>17, <1>18, <1>19, <1>20, <1>21
     DEF vars, Next, Handler, Forwarder, Owner, Cli, Request, Stop, FindPid, Signal,
         OwnerReaps, OwnerKills, CliWrites, CliExits

\* No step leaves the loop with the process alive but a failing write.
LEMMA ProcessesStep ==
  ASSUME TypeOK, Placed, Processes, [Next]_vars
  PROVE  Processes'
<1>. USE DEF TypeOK, Placed, Processes, Alive, BeforeLaunch, PastLoop, Handling,
            Forwarding, Streaming
<1>1. ASSUME NEW c \in Conns, Connect(c)
      PROVE  Processes'
  BY <1>1 DEF Connect
<1>2. ASSUME NEW c \in Conns, Hangup(c)
      PROVE  Processes'
  BY <1>2 DEF Hangup
<1>3. ASSUME NEW c \in Conns, CloseConn(c)
      PROVE  Processes'
  BY <1>3 DEF CloseConn, Return, Guarded
<1>4. ASSUME NEW c \in Conns, NEW r \in Runs, StartRun(c, r)
      PROVE  Processes'
  BY <1>4 DEF StartRun
<1>5. ASSUME NEW c \in Conns, Signal(c)
      PROVE  Processes'
  BY <1>5 DEF Signal
<1>6. ASSUME NEW r \in Runs, Arm(r)
      PROVE  Processes'
  BY <1>6 DEF Arm
<1>7. ASSUME NEW r \in Runs, Ack(r)
      PROVE  Processes'
  BY <1>7 DEF Ack
<1>8. ASSUME NEW r \in Runs, AckFails(r)
      PROVE  Processes'
  BY <1>8 DEF AckFails, Return, Guarded
<1>9. ASSUME NEW r \in Runs, Launch(r)
      PROVE  Processes'
  BY <1>9 DEF Launch
<1>10. ASSUME NEW r \in Runs, LaunchFails(r)
      PROVE  Processes'
  BY <1>10 DEF LaunchFails
<1>11. ASSUME NEW r \in Runs, ReportFailure(r)
      PROVE  Processes'
  BY <1>11 DEF ReportFailure, LastFrame
<1>12. ASSUME NEW r \in Runs, TakeLine(r)
      PROVE  Processes'
  <2>1. Head(unread[r]) # "lost"
    BY <1>12, LineTaken
  <2>2. /\ pc[r] = "streaming" /\ frame' = [frame EXCEPT ![r] = Head(unread[r])]
        /\ pc' = [pc EXCEPT ![r] = pc'[r]] /\ pc'[r] \in {"saving", "writing"}
        /\ UNCHANGED <<conn, home, proc, outcome>>
    BY <1>12 DEF TakeLine
  <2>. QED
    BY <2>1, <2>2
<1>13. ASSUME NEW r \in Runs, TakeEnd(r)
      PROVE  Processes'
  BY <1>13 DEF TakeEnd
<1>14. ASSUME NEW r \in Runs, WriteFrame(r)
      PROVE  Processes'
  BY <1>14 DEF WriteFrame
<1>15. ASSUME NEW r \in Runs, WriteFails(r)
      PROVE  Processes'
  BY <1>15 DEF WriteFails, Conclude
<1>16. ASSUME NEW r \in Runs, StreamEnds(r)
      PROVE  Processes'
  BY <1>16 DEF StreamEnds, Conclude
<1>17. ASSUME NEW r \in Runs, HookEnds(r)
      PROVE  Processes'
  BY <1>17 DEF HookEnds
<1>18. ASSUME NEW r \in Runs, ReportHook(r)
      PROVE  Processes'
  <2>1. /\ pc[r] = "hooked" /\ pc' = [pc EXCEPT ![r] = "finishing"]
        /\ wire' = [wire EXCEPT ![r] = wire'[r]] /\ wire'[r] \in {wire[r], "hook"}
        /\ UNCHANGED <<conn, home, frame, cancels, pids, stop, signal, proc, outcome,
                       unread, emitted, job, saved, shown, events>>
    BY <1>18, HookReported
  <2>. QED
    BY <2>1
<1>19. ASSUME NEW r \in Runs, ReportDone(r)
      PROVE  Processes'
  BY <1>19 DEF ReportDone, LastFrame
<1>20. ASSUME NEW r \in Runs, SaveText(r)
      PROVE  Processes'
  BY <1>20 DEF SaveText
<1>21. ASSUME NEW r \in Runs, OwnerReaps(r)
      PROVE  Processes'
  BY <1>21 DEF OwnerReaps
<1>22. ASSUME NEW r \in Runs, OwnerKills(r)
      PROVE  Processes'
  BY <1>22 DEF OwnerKills
<1>23. ASSUME NEW r \in Runs, NEW status \in {"ok", "bad"}, CliExits(r, status)
      PROVE  Processes'
  BY <1>23 DEF CliExits
<1>24. CASE CoreExit
  BY <1>24 DEF CoreExit
<1>25. CASE UNCHANGED <<conn, home, pc, frame, proc, outcome>>
  BY <1>25
<1>. HIDE DEF TypeOK, Placed, Processes, Alive, BeforeLaunch, PastLoop, Handling,
              Forwarding, Streaming
<1>. QED
  BY <1>1, <1>2, <1>3, <1>4, <1>5, <1>6, <1>7, <1>8, <1>9, <1>10, <1>11, <1>12, <1>13,
     <1>14, <1>15, <1>16, <1>17, <1>18, <1>19, <1>20, <1>21, <1>22, <1>23, <1>24, <1>25
     DEF vars, Next, Handler, Forwarder, Owner, Cli, Request, Stop, FindPid, CliWrites

\* Only Arm registers a signal and only clear_cancel, at the end of the loop or on a
\* failed spawn, or the end of the core removes it; no other run's id is touched.
LEMMA RegisteredStep ==
  ASSUME TypeOK, Registered, [Next]_vars
  PROVE  Registered'
<1>. USE DEF TypeOK, Registered, Active, Ids, Handling, Forwarding, Streaming
<1>1. ASSUME NEW c \in Conns, CloseConn(c)
      PROVE  Registered'
  BY <1>1 DEF CloseConn, Return, Guarded
<1>2. ASSUME NEW c \in Conns, NEW r \in Runs, StartRun(c, r)
      PROVE  Registered'
  BY <1>2 DEF StartRun
<1>3. ASSUME NEW r \in Runs, Arm(r)
      PROVE  Registered'
  BY <1>3 DEF Arm, Id
<1>4. ASSUME NEW r \in Runs, Ack(r)
      PROVE  Registered'
  BY <1>4 DEF Ack
<1>5. ASSUME NEW r \in Runs, AckFails(r)
      PROVE  Registered'
  BY <1>5 DEF AckFails, Return, Guarded
<1>6. ASSUME NEW r \in Runs, Launch(r)
      PROVE  Registered'
  BY <1>6 DEF Launch, Id
<1>7. ASSUME NEW r \in Runs, LaunchFails(r)
      PROVE  Registered'
  BY <1>7 DEF LaunchFails, Disarm, Id
<1>8. ASSUME NEW r \in Runs, ReportFailure(r)
      PROVE  Registered'
  BY <1>8 DEF ReportFailure, LastFrame
<1>9. ASSUME NEW r \in Runs, TakeLine(r)
      PROVE  Registered'
  BY <1>9 DEF TakeLine
<1>10. ASSUME NEW r \in Runs, TakeEnd(r)
      PROVE  Registered'
  BY <1>10 DEF TakeEnd
<1>11. ASSUME NEW r \in Runs, WriteFrame(r)
      PROVE  Registered'
  BY <1>11 DEF WriteFrame
<1>12. ASSUME NEW r \in Runs, WriteFails(r)
      PROVE  Registered'
  BY <1>12 DEF WriteFails, Conclude, Disarm, Id
<1>13. ASSUME NEW r \in Runs, StreamEnds(r)
      PROVE  Registered'
  BY <1>13 DEF StreamEnds, Conclude, Disarm, Id
<1>14. ASSUME NEW r \in Runs, HookEnds(r)
      PROVE  Registered'
  BY <1>14 DEF HookEnds
<1>15. ASSUME NEW r \in Runs, ReportHook(r)
      PROVE  Registered'
  <2>1. /\ pc[r] = "hooked" /\ pc' = [pc EXCEPT ![r] = "finishing"]
        /\ wire' = [wire EXCEPT ![r] = wire'[r]] /\ wire'[r] \in {wire[r], "hook"}
        /\ UNCHANGED <<conn, home, frame, cancels, pids, stop, signal, proc, outcome,
                       unread, emitted, job, saved, shown, events>>
    BY <1>15, HookReported
  <2>. QED
    BY <2>1
<1>16. ASSUME NEW r \in Runs, ReportDone(r)
      PROVE  Registered'
  BY <1>16 DEF ReportDone, LastFrame
<1>17. ASSUME NEW r \in Runs, SaveText(r)
      PROVE  Registered'
  BY <1>17 DEF SaveText
<1>18. CASE CoreExit
  BY <1>18 DEF CoreExit
<1>19. CASE UNCHANGED <<pc, cancels, pids>>
  BY <1>19
<1>. QED
  BY <1>1, <1>2, <1>3, <1>4, <1>5, <1>6, <1>7, <1>8, <1>9, <1>10, <1>11, <1>12, <1>13,
     <1>14, <1>15, <1>16, <1>17, <1>18, <1>19
     DEF vars, Next, Handler, Forwarder, Owner, Cli, Request, Connect, Hangup, Stop,
         FindPid, Signal, OwnerReaps, OwnerKills, CliWrites, CliExits

\* The end of the loop tells the end of the story, whichever way the loop was left.
LEMMA LoggedByConclude ==
  ASSUME TypeOK, Logged, NEW r \in Runs, pc[r] \in Streaming, Conclude(r)
  PROVE  Logged'
  BY Stories DEF Conclude, Log, TypeOK, Logged, Active, Streaming

\* Events are appended only where the forwarder's state says what is already there.
LEMMA LoggedStep ==
  ASSUME TypeOK, Logged, [Next]_vars
  PROVE  Logged'
<1>. USE DEF TypeOK, Logged, Active, Handling, Forwarding, Streaming
<1>1. ASSUME NEW c \in Conns, CloseConn(c)
      PROVE  Logged'
  BY <1>1 DEF CloseConn, Return, Guarded
<1>2. ASSUME NEW c \in Conns, NEW r \in Runs, StartRun(c, r)
      PROVE  Logged'
  BY <1>2 DEF StartRun
<1>3. ASSUME NEW r \in Runs, Arm(r)
      PROVE  Logged'
  BY <1>3, Stories DEF Arm, Log
<1>4. ASSUME NEW r \in Runs, Ack(r)
      PROVE  Logged'
  BY <1>4 DEF Ack
<1>5. ASSUME NEW r \in Runs, AckFails(r)
      PROVE  Logged'
  BY <1>5 DEF AckFails, Return, Guarded
<1>6. ASSUME NEW r \in Runs, Launch(r)
      PROVE  Logged'
  BY <1>6 DEF Launch
<1>7. ASSUME NEW r \in Runs, LaunchFails(r)
      PROVE  Logged'
  BY <1>7, Stories DEF LaunchFails, Log
<1>8. ASSUME NEW r \in Runs, ReportFailure(r)
      PROVE  Logged'
  BY <1>8 DEF ReportFailure, LastFrame
<1>9. ASSUME NEW r \in Runs, TakeLine(r)
      PROVE  Logged'
  BY <1>9 DEF TakeLine
<1>10. ASSUME NEW r \in Runs, TakeEnd(r)
      PROVE  Logged'
  BY <1>10 DEF TakeEnd
<1>11. ASSUME NEW r \in Runs, WriteFrame(r)
      PROVE  Logged'
  BY <1>11 DEF WriteFrame
<1>12. ASSUME NEW r \in Runs, WriteFails(r)
      PROVE  Logged'
  BY <1>12, LoggedByConclude DEF WriteFails
<1>13. ASSUME NEW r \in Runs, StreamEnds(r)
      PROVE  Logged'
  BY <1>13, LoggedByConclude DEF StreamEnds
<1>14. ASSUME NEW r \in Runs, HookEnds(r)
      PROVE  Logged'
  BY <1>14, Stories DEF HookEnds, Log
<1>15. ASSUME NEW r \in Runs, ReportHook(r)
      PROVE  Logged'
  BY <1>15 DEF ReportHook, LastFrame
<1>16. ASSUME NEW r \in Runs, ReportDone(r)
      PROVE  Logged'
  BY <1>16 DEF ReportDone, LastFrame
<1>17. ASSUME NEW r \in Runs, SaveText(r)
      PROVE  Logged'
  BY <1>17 DEF SaveText
<1>18. CASE CoreExit
  BY <1>18 DEF CoreExit
<1>19. CASE UNCHANGED <<pc, events>>
  BY <1>19
<1>. QED
  BY <1>1, <1>2, <1>3, <1>4, <1>5, <1>6, <1>7, <1>8, <1>9, <1>10, <1>11, <1>12, <1>13,
     <1>14, <1>15, <1>16, <1>17, <1>18, <1>19
     DEF vars, Next, Handler, Forwarder, Owner, Cli, Request, Connect, Hangup, Stop,
         FindPid, Signal, OwnerReaps, OwnerKills, CliWrites, CliExits

\* "done" is written last, and what it rests on is never undone.
LEMMA ReportedStep ==
  ASSUME TypeOK, Placed, Processes, Logged, Reported, [Next]_vars
  PROVE  Reported'
<1>. USE DEF TypeOK, Placed, Processes, Logged, Reported, Alive, PastLoop, Handling,
            Forwarding, Streaming
<1>1. ASSUME NEW c \in Conns, Connect(c)
      PROVE  Reported'
  BY <1>1 DEF Connect
<1>2. ASSUME NEW c \in Conns, Hangup(c)
      PROVE  Reported'
  BY <1>2 DEF Hangup
<1>3. ASSUME NEW c \in Conns, CloseConn(c)
      PROVE  Reported'
  BY <1>3 DEF CloseConn, Return, Guarded
<1>4. ASSUME NEW c \in Conns, NEW r \in Runs, StartRun(c, r)
      PROVE  Reported'
  BY <1>4 DEF StartRun
<1>5. ASSUME NEW c \in Conns, Signal(c)
      PROVE  Reported'
  BY <1>5 DEF Signal
<1>6. ASSUME NEW r \in Runs, Arm(r)
      PROVE  Reported'
  BY <1>6 DEF Arm, Log
<1>7. ASSUME NEW r \in Runs, Ack(r)
      PROVE  Reported'
  BY <1>7 DEF Ack
<1>8. ASSUME NEW r \in Runs, AckFails(r)
      PROVE  Reported'
  BY <1>8 DEF AckFails, Return, Guarded
<1>9. ASSUME NEW r \in Runs, Launch(r)
      PROVE  Reported'
  BY <1>9 DEF Launch
<1>10. ASSUME NEW r \in Runs, LaunchFails(r)
      PROVE  Reported'
  BY <1>10 DEF LaunchFails, Log
<1>11. ASSUME NEW r \in Runs, ReportFailure(r)
      PROVE  Reported'
  BY <1>11 DEF ReportFailure, LastFrame
<1>12. ASSUME NEW r \in Runs, TakeLine(r)
      PROVE  Reported'
  BY <1>12 DEF TakeLine
<1>13. ASSUME NEW r \in Runs, TakeEnd(r)
      PROVE  Reported'
  BY <1>13 DEF TakeEnd
<1>14. ASSUME NEW r \in Runs, WriteFrame(r)
      PROVE  Reported'
  BY <1>14 DEF WriteFrame
<1>15. ASSUME NEW r \in Runs, WriteFails(r)
      PROVE  Reported'
  BY <1>15 DEF WriteFails, Conclude, Log
<1>16. ASSUME NEW r \in Runs, StreamEnds(r)
      PROVE  Reported'
  BY <1>16 DEF StreamEnds, Conclude, Log
<1>17. ASSUME NEW r \in Runs, HookEnds(r)
      PROVE  Reported'
  BY <1>17 DEF HookEnds, Log
<1>18. ASSUME NEW r \in Runs, ReportHook(r)
      PROVE  Reported'
  BY <1>18 DEF ReportHook, LastFrame
<1>19. ASSUME NEW r \in Runs, ReportDone(r)
      PROVE  Reported'
  BY <1>19 DEF ReportDone, LastFrame
<1>20. ASSUME NEW r \in Runs, SaveText(r)
      PROVE  Reported'
  BY <1>20 DEF SaveText
<1>21. ASSUME NEW r \in Runs, OwnerKills(r)
      PROVE  Reported'
  BY <1>21 DEF OwnerKills
<1>22. ASSUME NEW r \in Runs, NEW status \in {"ok", "bad"}, CliExits(r, status)
      PROVE  Reported'
  BY <1>22 DEF CliExits
<1>23. CASE CoreExit
  BY <1>23 DEF CoreExit
<1>24. CASE UNCHANGED <<conn, home, pc, frame, proc, events, wire>>
  BY <1>24
<1>. QED
  BY <1>1, <1>2, <1>3, <1>4, <1>5, <1>6, <1>7, <1>8, <1>9, <1>10, <1>11, <1>12, <1>13,
     <1>14, <1>15, <1>16, <1>17, <1>18, <1>19, <1>20, <1>21, <1>22, <1>23, <1>24
     DEF vars, Next, Handler, Forwarder, Owner, Cli, Request, Stop, FindPid, OwnerReaps,
         CliWrites

\* The forwarder waits for the pool, so the archive is at most one message ahead.
LEMMA ArchivedStep ==
  ASSUME TypeOK, Archived, [Next]_vars
  PROVE  Archived'
<1>. USE DEF TypeOK, Archived, BeforeLaunch, Handling, Forwarding, Streaming
<1>1. ASSUME NEW c \in Conns, CloseConn(c)
      PROVE  Archived'
  BY <1>1 DEF CloseConn, Return, Guarded
<1>2. ASSUME NEW c \in Conns, NEW r \in Runs, StartRun(c, r)
      PROVE  Archived'
  BY <1>2 DEF StartRun
<1>3. ASSUME NEW r \in Runs, Arm(r)
      PROVE  Archived'
  BY <1>3 DEF Arm
<1>4. ASSUME NEW r \in Runs, Ack(r)
      PROVE  Archived'
  BY <1>4 DEF Ack
<1>5. ASSUME NEW r \in Runs, AckFails(r)
      PROVE  Archived'
  BY <1>5 DEF AckFails, Return, Guarded
<1>6. ASSUME NEW r \in Runs, Launch(r)
      PROVE  Archived'
  BY <1>6 DEF Launch
<1>7. ASSUME NEW r \in Runs, LaunchFails(r)
      PROVE  Archived'
  BY <1>7 DEF LaunchFails
<1>8. ASSUME NEW r \in Runs, ReportFailure(r)
      PROVE  Archived'
  BY <1>8 DEF ReportFailure, LastFrame
<1>9. ASSUME NEW r \in Runs, TakeLine(r)
      PROVE  Archived'
  <2>1. CASE Head(unread[r]) = "text"
    <3>1. /\ job' = [job EXCEPT ![r] = TRUE]
          /\ pc' = [pc EXCEPT ![r] = "saving"]
          /\ frame' = [frame EXCEPT ![r] = "text"]
      BY <1>9, <2>1 DEF TakeLine
    <3>. QED
      BY <1>9, <3>1 DEF TakeLine
  <2>2. CASE Head(unread[r]) # "text"
    <3>1. /\ job' = [job EXCEPT ![r] = FALSE]
          /\ pc' = [pc EXCEPT ![r] = "writing"]
          /\ frame' = [frame EXCEPT ![r] = Head(unread[r])]
      BY <1>9, <2>2 DEF TakeLine
    <3>. QED
      BY <1>9, <2>2, <3>1 DEF TakeLine
  <2>. QED
    BY <2>1, <2>2
<1>10. ASSUME NEW r \in Runs, TakeEnd(r)
      PROVE  Archived'
  BY <1>10 DEF TakeEnd
<1>11. ASSUME NEW r \in Runs, WriteFrame(r)
      PROVE  Archived'
  BY <1>11 DEF WriteFrame
<1>12. ASSUME NEW r \in Runs, WriteFails(r)
      PROVE  Archived'
  BY <1>12 DEF WriteFails, Conclude
<1>13. ASSUME NEW r \in Runs, StreamEnds(r)
      PROVE  Archived'
  BY <1>13 DEF StreamEnds, Conclude
<1>14. ASSUME NEW r \in Runs, HookEnds(r)
      PROVE  Archived'
  BY <1>14 DEF HookEnds
<1>15. ASSUME NEW r \in Runs, ReportHook(r)
      PROVE  Archived'
  BY <1>15 DEF ReportHook, LastFrame
<1>16. ASSUME NEW r \in Runs, ReportDone(r)
      PROVE  Archived'
  BY <1>16 DEF ReportDone, LastFrame
<1>17. ASSUME NEW r \in Runs, SaveText(r)
      PROVE  Archived'
  BY <1>17 DEF SaveText
<1>18. CASE CoreExit
  BY <1>18 DEF CoreExit
<1>19. CASE UNCHANGED <<pc, frame, job, saved, shown>>
  BY <1>19
<1>. QED
  BY <1>1, <1>2, <1>3, <1>4, <1>5, <1>6, <1>7, <1>8, <1>9, <1>10, <1>11, <1>12, <1>13,
     <1>14, <1>15, <1>16, <1>17, <1>18, <1>19
     DEF vars, Next, Handler, Forwarder, Owner, Cli, Request, Connect, Hangup, Stop,
         FindPid, Signal, OwnerReaps, OwnerKills, CliWrites, CliExits

-----------------------------------------------------------------------------
\* The inductive invariant: where the handlers, the owner and the pool can be relative
\* to each other when a run, a registry entry, an event or a message is there.
THEOREM Invariant == Spec => []IInv
<1>1. Init => IInv
  BY DEF Init, IInv, TypeOK, Ids, Phases, NoSignal, Placed, Processes, Registered, Active,
         Streaming, Logged, Untold, Reported, Archived, PastLoop, Alive
<1>2. IInv /\ [Next]_vars => IInv'
  BY TypeStep, PlacedStep, ProcessesStep, RegisteredStep, LoggedStep, ReportedStep,
     ArchivedStep DEF IInv
<1>. QED
  BY <1>1, <1>2, PTL DEF Spec

\* A run whose client is connected, and whose frames could all be written, can be stopped
\* as long as its process exists (register_cancel before the spawn, clear_cancel past the
\* loop, which a failing write leaves too early).
THEOREM Stoppable == Spec => []RunIsStoppable
<1>1. IInv => RunIsStoppable
  <2>. SUFFICES ASSUME IInv, NEW r \in Runs \ FailingRows, Alive(r), ClientThere(r),
                       frame[r] # "lost"
                PROVE  cancels[r] = r
    BY DEF RunIsStoppable
  <2>1. pc[r] \notin BeforeLaunch
    BY DEF IInv, Processes, Alive
  <2>2. pc[r] \notin PastLoop \cup {"aborted"}
    BY DEF IInv, Processes, Placed, ClientThere
  <2>. QED
    BY <2>1, <2>2 DEF IInv, TypeOK, Registered, Active, BeforeLaunch, PastLoop, Phases,
                      Handling, Forwarding
<1>. QED
  BY <1>1, Invariant, PTL

\* What os.running_agents lists for a connected client is still being worked on.
THEOREM NoGhosts == Spec => []NoGhostAgents
<1>1. IInv => NoGhostAgents
  BY DEF IInv, NoGhostAgents, Registered, Placed, ClientThere, Active
<1>. QED
  BY <1>1, Invariant, PTL

\* A client told "done" finds the run unlisted and its completion archived, and its
\* process gone unless a frame of it could not be written.
THEOREM DoneIsGone == Spec => []DoneMeansGone
<1>1. IInv => DoneMeansGone
  <2>. SUFFICES ASSUME IInv, NEW r \in Runs \ FailingRows, wire[r] = "done"
                PROVE  /\ cancels[r] # r /\ pids[r] # r
                       /\ Alive(r) => frame[r] = "lost"
                       /\ \E k \in DOMAIN events[r] : events[r][k] = "completed"
    BY DEF DoneMeansGone
  <2>1. pc[r] = "over" /\ (Alive(r) => frame[r] = "lost") /\ events[r] \in {Ended, Hooked}
    BY DEF IInv, Reported
  <2>2. cancels[r] # r /\ pids[r] # r
    BY <2>1 DEF IInv, Registered, Active, Streaming
  <2>3. 2 \in DOMAIN events[r] /\ events[r][2] = "completed"
    BY <2>1 DEF Ended, Hooked
  <2>. QED
    BY <2>1, <2>2, <2>3
<1>. QED
  BY <1>1, Invariant, PTL

\* No assistant message is on the wire before the archive has it, and at most one is in
\* the archive and not on the wire.
THEOREM ArchiveIsAhead == Spec => []ArchiveAheadOfWire
<1>1. IInv => ArchiveAheadOfWire
  BY DEF IInv, ArchiveAheadOfWire, Archived
<1>. QED
  BY <1>1, Invariant, PTL

\* The archived lifecycle is one of three stories or a beginning of one.
THEOREM LogTellsAStory == Spec => []LifecycleLog
<1>1. IInv => LifecycleLog
  BY DEF IInv, TypeOK, LifecycleLog, Logged, Active, Streaming, Phases, Handling, Forwarding,
         Untold, Begun, NotSpawned, Ended, Hooked
<1>. QED
  BY <1>1, Invariant, PTL
-----------------------------------------------------------------------------
(* What the client is sent, and who has the next step of a run.            *)

\* The last frame sent follows the forwarder; once it has taken the terminal event the
\* process is gone and its output read.
Wired ==
  \A r \in Runs :
    /\ pc[r] \in {"new", "row", "armed"} => wire[r] = "none"
    /\ pc[r] \in {"spawned", "failing"} => wire[r] = "ack"
    /\ pc[r] \in Streaming /\ frame[r] # "end" => wire[r] \in {"ack", "streaming"}
    /\ pc[r] \in Streaming /\ frame[r] = "end" =>
         /\ unread[r] = <<>> /\ outcome[r] \in {"Stopped", "Failed"}
         /\ pc[r] = "writing" => wire[r] \in {"ack", "streaming"}
         /\ pc[r] # "writing" => pc[r] = "streaming" /\ wire[r] = "ended"
    /\ pc[r] \in {"hook", "hooked"} => wire[r] \in {"ack", "streaming", "ended"}
    /\ pc[r] = "finishing" => wire[r] \in {"ack", "streaming", "ended", "hook"}

\* A streaming forwarder has a process, a saving one a pool job; what was lost with the
\* core was lost with its connection; a run is over only with its last frame sent or its
\* client gone; only a run past its first archive job can be stopped.
Attended ==
  \A r \in Runs :
    /\ pc[r] \in Streaming => proc[r] # "none"
    /\ pc[r] = "saving" => job[r]
    /\ outcome[r] = "lost" => pc[r] # "new" /\ conn[home[r]] = "closed"
    /\ pc[r] = "over" /\ conn[home[r]] = "open" => wire[r] \in {"ended", "done"}
    /\ \A i \in Ids : cancels[i] = r => pc[r] \notin {"new", "row"}
    /\ r \in stop => pc[r] \notin {"new", "row"}

\* The steps of a run's tasks that wait for no other task of the run: the handler's, the
\* forwarder's (which may be writing to the client or waiting for the user's hook), the
\* blocking pool's and the owner's.
HandlerReady(r) == pc[r] \in Handling

ForwarderReady(r) ==
  \/ pc[r] \in Forwarding \ {"streaming", "saving"}
  \/ /\ pc[r] = "streaming"
     /\ unread[r] # <<>> \/ outcome[r] \in {"Ok", "Stopped", "Failed"}

OwnerReady(r) ==
  outcome[r] = "none" /\ (proc[r] \in {"ok", "bad"} \/ (r \in stop /\ Alive(r)))

\* The client of a run is there and has not been told its end: then one of the run's tasks
\* can take a step, or the run waits for a CLI process that nobody has stopped.
NothingStalls ==
  \A r \in Runs :
    pc[r] # "new" /\ ClientThere(r) /\ ~Told(r) =>
      \/ HandlerReady(r) \/ ForwarderReady(r) \/ job[r] \/ OwnerReady(r)
      \/ Alive(r) /\ r \notin stop

\* A frame is written from the state that follows it only, and after the terminal event
\* was taken no output can arrive.
LEMMA WiredStep ==
  ASSUME TypeOK, Processes, Wired, [Next]_vars
  PROVE  Wired'
<1>. USE DEF TypeOK, Processes, Wired, Alive, BeforeLaunch, Handling, Forwarding,
             Streaming
<1>1. ASSUME NEW c \in Conns, CloseConn(c)
      PROVE  Wired'
  BY <1>1 DEF CloseConn, Return, Guarded
<1>2. ASSUME NEW c \in Conns, NEW r \in Runs, StartRun(c, r)
      PROVE  Wired'
  BY <1>2 DEF StartRun
<1>3. ASSUME NEW r \in Runs, Arm(r)
      PROVE  Wired'
  BY <1>3 DEF Arm
<1>4. ASSUME NEW r \in Runs, Ack(r)
      PROVE  Wired'
  BY <1>4 DEF Ack
<1>5. ASSUME NEW r \in Runs, AckFails(r)
      PROVE  Wired'
  BY <1>5 DEF AckFails, Return, Guarded
<1>6. ASSUME NEW r \in Runs, Launch(r)
      PROVE  Wired'
  BY <1>6 DEF Launch
<1>7. ASSUME NEW r \in Runs, LaunchFails(r)
      PROVE  Wired'
  BY <1>7 DEF LaunchFails
<1>8. ASSUME NEW r \in Runs, ReportFailure(r)
      PROVE  Wired'
  BY <1>8 DEF ReportFailure, LastFrame
<1>9. ASSUME NEW r \in Runs, TakeLine(r)
      PROVE  Wired'
  <2>1. unread[r] \in Seq(Lines) /\ unread[r] # <<>>
    BY <1>9 DEF TakeLine
  <2>2. Head(unread[r]) \in Lines
    BY <2>1
  <2>3. pc[r] = "streaming" /\ frame[r] # "end"
    BY <1>9, <2>1 DEF TakeLine
  <2>. QED
    BY <1>9, <2>2, <2>3 DEF TakeLine
<1>10. ASSUME NEW r \in Runs, TakeEnd(r)
      PROVE  Wired'
  BY <1>10 DEF TakeEnd
<1>11. ASSUME NEW r \in Runs, WriteFrame(r)
      PROVE  Wired'
  BY <1>11 DEF WriteFrame
<1>12. ASSUME NEW r \in Runs, WriteFails(r)
      PROVE  Wired'
  BY <1>12 DEF WriteFails, Conclude
<1>13. ASSUME NEW r \in Runs, StreamEnds(r)
      PROVE  Wired'
  BY <1>13 DEF StreamEnds, Conclude
<1>14. ASSUME NEW r \in Runs, HookEnds(r)
      PROVE  Wired'
  BY <1>14 DEF HookEnds
<1>15. ASSUME NEW r \in Runs, ReportHook(r)
      PROVE  Wired'
  <2>1. /\ pc[r] = "hooked" /\ pc' = [pc EXCEPT ![r] = "finishing"]
        /\ wire' = [wire EXCEPT ![r] = wire'[r]] /\ wire'[r] \in {wire[r], "hook"}
        /\ UNCHANGED <<conn, home, frame, cancels, pids, stop, signal, proc, outcome,
                       unread, emitted, job, saved, shown, events>>
    BY <1>15, HookReported
  <2>. QED
    BY <2>1
<1>16. ASSUME NEW r \in Runs, ReportDone(r)
      PROVE  Wired'
  BY <1>16 DEF ReportDone, LastFrame
<1>17. ASSUME NEW r \in Runs, SaveText(r)
      PROVE  Wired'
  BY <1>17 DEF SaveText
<1>18. ASSUME NEW r \in Runs, OwnerReaps(r)
      PROVE  Wired'
  BY <1>18 DEF OwnerReaps
<1>19. ASSUME NEW r \in Runs, OwnerKills(r)
      PROVE  Wired'
  BY <1>19 DEF OwnerKills
<1>20. ASSUME NEW r \in Runs, NEW line \in Lines, CliWrites(r, line)
      PROVE  Wired'
  BY <1>20 DEF CliWrites
<1>21. CASE CoreExit
  BY <1>21 DEF CoreExit
<1>22. CASE UNCHANGED <<pc, frame, unread, outcome, wire>>
  BY <1>22
<1>. HIDE DEF TypeOK, Processes, Wired, Alive, BeforeLaunch, Handling, Forwarding,
              Streaming
<1>. QED
  BY <1>1, <1>2, <1>3, <1>4, <1>5, <1>6, <1>7, <1>8, <1>9, <1>10, <1>11, <1>12, <1>13,
     <1>14, <1>15, <1>16, <1>17, <1>18, <1>19, <1>20, <1>21, <1>22
     DEF vars, Next, Handler, Forwarder, Owner, Cli, Request, Connect, Hangup, Stop,
         FindPid, Signal, CliExits

\* What has no process, no pool job or no reader left has no client left either, and a
\* signal is registered, and fired, only past the first archive job.
LEMMA AttendedStep ==
  ASSUME TypeOK, Placed, Processes, Attended, [Next]_vars
  PROVE  Attended'
<1>. USE DEF TypeOK, Placed, Processes, Attended, Alive, Ids, BeforeLaunch, Handling,
             Forwarding, Streaming
<1>1. ASSUME NEW c \in Conns, CloseConn(c)
      PROVE  Attended'
  BY <1>1 DEF CloseConn, Return, Guarded
<1>2. ASSUME NEW c \in Conns, NEW r \in Runs, StartRun(c, r)
      PROVE  Attended'
  BY <1>2 DEF StartRun
<1>3. ASSUME NEW r \in Runs, Arm(r)
      PROVE  Attended'
  BY <1>3 DEF Arm, Id
<1>4. ASSUME NEW r \in Runs, Ack(r)
      PROVE  Attended'
  BY <1>4 DEF Ack
<1>5. ASSUME NEW r \in Runs, AckFails(r)
      PROVE  Attended'
  BY <1>5 DEF AckFails, Return, Guarded
<1>6. ASSUME NEW r \in Runs, Launch(r)
      PROVE  Attended'
  BY <1>6 DEF Launch
<1>7. ASSUME NEW r \in Runs, LaunchFails(r)
      PROVE  Attended'
  BY <1>7 DEF LaunchFails, Disarm, Id
<1>8. ASSUME NEW r \in Runs, ReportFailure(r)
      PROVE  Attended'
  BY <1>8 DEF ReportFailure, LastFrame
<1>9. ASSUME NEW r \in Runs, TakeLine(r)
      PROVE  Attended'
  <2>1. CASE Head(unread[r]) = "text"
    <3>1. pc' = [pc EXCEPT ![r] = "saving"] /\ job' = [job EXCEPT ![r] = TRUE]
      BY <1>9, <2>1 DEF TakeLine
    <3>. QED
      BY <1>9, <3>1 DEF TakeLine
  <2>2. CASE Head(unread[r]) # "text"
    <3>1. pc' = [pc EXCEPT ![r] = "writing"] /\ job' = [job EXCEPT ![r] = FALSE]
      BY <1>9, <2>2 DEF TakeLine
    <3>. QED
      BY <1>9, <3>1 DEF TakeLine
  <2>. QED
    BY <2>1, <2>2
<1>10. ASSUME NEW r \in Runs, TakeEnd(r)
      PROVE  Attended'
  BY <1>10 DEF TakeEnd
<1>11. ASSUME NEW r \in Runs, WriteFrame(r)
      PROVE  Attended'
  BY <1>11 DEF WriteFrame
<1>12. ASSUME NEW r \in Runs, WriteFails(r)
      PROVE  Attended'
  BY <1>12 DEF WriteFails, Conclude, Disarm, Id
<1>13. ASSUME NEW r \in Runs, StreamEnds(r)
      PROVE  Attended'
  BY <1>13 DEF StreamEnds, Conclude, Disarm, Id
<1>14. ASSUME NEW r \in Runs, HookEnds(r)
      PROVE  Attended'
  BY <1>14 DEF HookEnds
<1>15. ASSUME NEW r \in Runs, ReportHook(r)
      PROVE  Attended'
  BY <1>15 DEF ReportHook, LastFrame
<1>16. ASSUME NEW r \in Runs, ReportDone(r)
      PROVE  Attended'
  BY <1>16 DEF ReportDone, LastFrame
<1>17. ASSUME NEW r \in Runs, SaveText(r)
      PROVE  Attended'
  BY <1>17 DEF SaveText
<1>18. ASSUME NEW r \in Runs, OwnerReaps(r)
      PROVE  Attended'
  BY <1>18 DEF OwnerReaps
<1>19. ASSUME NEW r \in Runs, OwnerKills(r)
      PROVE  Attended'
  BY <1>19 DEF OwnerKills
<1>20. ASSUME NEW r \in Runs, NEW status \in {"ok", "bad"}, CliExits(r, status)
      PROVE  Attended'
  BY <1>20 DEF CliExits
<1>21. ASSUME NEW c \in Conns, Signal(c)
      PROVE  Attended'
  BY <1>21 DEF Signal
<1>22. ASSUME NEW c \in Conns, NEW i \in Ids, Stop(c, i)
      PROVE  Attended'
  BY <1>22 DEF Stop
<1>23. ASSUME NEW c \in Conns, Connect(c)
      PROVE  Attended'
  BY <1>23 DEF Connect
<1>24. ASSUME NEW c \in Conns, Hangup(c)
      PROVE  Attended'
  BY <1>24 DEF Hangup
<1>25. CASE CoreExit
  BY <1>25 DEF CoreExit
<1>26. CASE UNCHANGED <<conn, home, pc, cancels, stop, proc, outcome, job, wire>>
  BY <1>26
<1>. HIDE DEF TypeOK, Placed, Processes, Attended, Alive, Ids, BeforeLaunch, Handling,
              Forwarding, Streaming
<1>. QED
  BY <1>1, <1>2, <1>3, <1>4, <1>5, <1>6, <1>7, <1>8, <1>9, <1>10, <1>11, <1>12, <1>13,
     <1>14, <1>15, <1>16, <1>17, <1>18, <1>19, <1>20, <1>21, <1>22, <1>23, <1>24,
     <1>25, <1>26
     DEF vars, Next, Handler, Forwarder, Owner, Cli, Request, FindPid, CliWrites

\* Every state of a run's frames, and of who must act next, for any number of runs.
THEOREM Followed == Spec => [](IInv /\ Wired /\ Attended)
<1>1. Init => Wired /\ Attended
  BY DEF Init, Wired, Attended, Streaming, Ids
<1>2. IInv /\ Wired /\ Attended /\ [Next]_vars => Wired' /\ Attended'
  BY WiredStep, AttendedStep DEF IInv
<1>. QED
  BY <1>1, <1>2, Invariant, PTL DEF Spec

\* Where each stage of a run's stream is in the order.
LEMMA StageOrder ==
  /\ DOMAIN Stages = 1..6
  /\ Stages[1] = "none" /\ Stages[2] = "ack" /\ Stages[3] = "streaming"
  /\ Stages[4] = "ended" /\ Stages[5] = "hook" /\ Stages[6] = "done"
  BY DEF Stages

\* A stage may follow another one.
Follows(b, a) == \E i, j \in 1..6 : a = Stages[i] /\ b = Stages[j] /\ i <= j

\* The frames of a run come in the order ack, events, terminal event, hook, done, and
\* nothing follows "done", whatever is aborted, stopped or lost (the forwarder's loop).
THEOREM FramesInOrder == Spec => WireOrder
<1>1. IInv /\ Wired /\ [Next]_vars => \A r \in Runs : Follows(wire'[r], wire[r])
  <2>. SUFFICES ASSUME IInv, Wired, [Next]_vars, NEW r \in Runs
                PROVE  Follows(wire'[r], wire[r])
    OBVIOUS
  <2>. USE DEF IInv, TypeOK, Wired, Streaming
  <2>1. wire'[r] = wire[r] => Follows(wire'[r], wire[r])
    BY StageOrder DEF Follows
  <2>2. CASE \E q \in Runs : Ack(q)
    BY <2>1, <2>2, StageOrder DEF Ack, Follows
  <2>3. CASE \E q \in Runs : WriteFrame(q)
    BY <2>1, <2>3, StageOrder DEF WriteFrame, Follows
  <2>4. CASE \E q \in Runs : ReportFailure(q)
    BY <2>1, <2>4, StageOrder DEF ReportFailure, LastFrame, Follows
  <2>5. CASE \E q \in Runs : ReportHook(q)
    BY <2>1, <2>5, StageOrder DEF ReportHook, LastFrame, Follows
  <2>6. CASE \E q \in Runs : ReportDone(q)
    BY <2>1, <2>6, StageOrder DEF ReportDone, LastFrame, Follows
  <2>7. CASE UNCHANGED wire
    BY <2>1, <2>7
  <2>. HIDE DEF IInv, TypeOK, Wired, Streaming
  <2>. QED
    BY <2>2, <2>3, <2>4, <2>5, <2>6, <2>7
       DEF vars, Next, Handler, Forwarder, Owner, Cli, Request, Connect, Hangup, CloseConn,
           Return, StartRun, Stop, FindPid, Signal, Arm, AckFails, Launch, LaunchFails,
           TakeLine, TakeEnd, WriteFails, StreamEnds, Conclude, HookEnds, SaveText,
           OwnerReaps, OwnerKills, CliWrites, CliExits, CoreExit
<1>2. (\A r \in Runs : Follows(wire'[r], wire[r])) =>
        [\A r \in Runs :
           \E a, b \in DOMAIN Stages : wire[r] = Stages[a] /\ wire'[r] = Stages[b] /\ a <= b]_wire
  BY StageOrder DEF Follows
<1>. QED
  BY <1>1, <1>2, Followed, PTL DEF Spec, WireOrder

\* No interleaving of aborts, stops, pauses, exits and failing writes leaves a connected
\* client waiting for a run on which nothing can happen (StopTakesEffect without fairness).
THEOREM RunsNeverStall == Spec => []NothingStalls
<1>1. IInv /\ Attended => NothingStalls
  <2>. SUFFICES ASSUME IInv, Attended, NEW r \in Runs,
                       pc[r] # "new", ClientThere(r), ~Told(r),
                       ~HandlerReady(r), ~ForwarderReady(r), ~job[r]
                PROVE  OwnerReady(r) \/ (Alive(r) /\ r \notin stop)
    BY DEF NothingStalls
  <2>1. pc[r] \in Streaming
    BY DEF IInv, TypeOK, Placed, Attended, ClientThere, Told, Phases, HandlerReady,
           ForwarderReady, Forwarding, Streaming
  <2>2. pc[r] = "streaming"
    BY <2>1 DEF Attended, ForwarderReady, Forwarding, Streaming
  <2>3. proc[r] \in {"running", "paused", "ok", "bad"}
    BY <2>1 DEF IInv, TypeOK, Attended
  <2>4. outcome[r] = "none"
    BY <2>2 DEF IInv, TypeOK, Attended, ClientThere, ForwarderReady
  <2>. QED
    BY <2>3, <2>4 DEF OwnerReady, Alive
<1>. QED
  BY <1>1, Followed, PTL

-----------------------------------------------------------------------------
(* The tasks of SessionRuns together implement RunRegistry, for every run  *)
(* that has a session row: each step of a task is a step of the registry,  *)
(* or none.                                                                *)

RegistryStep == [Registry!Next]_(Registry!vars)

\* The phase of one run, told by its events and its entry among the cancel signals.
Phase(r) ==
  IF events[r] = Untold THEN "fresh" ELSE IF cancels[r] = r THEN "armed" ELSE "released"

\* runPhase, run by run.
LEMMA PhaseOf == \A r \in Recorded : runPhase[r] = Phase(r)
  BY OnlyUntoldIsEmpty DEF runPhase, Phase

\* No run's phase changes.
LEMMA PhaseKept ==
  ASSUME \A q \in Recorded : Phase(q)' = Phase(q)
  PROVE  runPhase' = runPhase
  BY OnlyUntoldIsEmpty DEF runPhase, Phase

\* One run's phase changes.
LEMMA PhaseMoved ==
  ASSUME NEW r \in Recorded, \A q \in Recorded \ {r} : Phase(q)' = Phase(q)
  PROVE  runPhase' = [runPhase EXCEPT ![r] = Phase(r)']
  BY OnlyUntoldIsEmpty DEF runPhase, Phase

\* One run's process is spawned.
LEMMA ProcessMoved ==
  ASSUME NEW r \in Recorded, proc[r] = "none",
         \A q \in Recorded : proc'[q] = IF q = r THEN "running" ELSE proc[q]
  PROVE  runProcess[r] = "none" /\ runProcess' = [runProcess EXCEPT ![r] = "alive"]
<1>. DEFINE P(x) == IF x = "none" THEN "none" ELSE IF x \in {"running", "paused"} THEN "alive" ELSE "dead"
<1>1. runProcess = [q \in Recorded |-> P(proc[q])] /\ runProcess' = [q \in Recorded |-> P(proc'[q])]
  BY DEF runProcess, Alive, Recorded
<1>2. P("none") = "none" /\ P("running") = "alive"
  OBVIOUS
<1>. HIDE DEF P
<1>. QED
  BY <1>1, <1>2

\* A step the registry does not see.
LEMMA Stutter ==
  ASSUME UNCHANGED <<runPhase, runProcess, watchedRuns, reportedRuns, brokenRuns>>
  PROVE  RegistryStep
  BY DEF RegistryStep, Registry!vars

-----------------------------------------------------------------------------
(* Connections.                                                            *)

\* A client that leaves takes the runs it started out of the watched ones.
LEMMA HangupStep ==
  ASSUME IInv, NEW c \in Conns, Hangup(c)
  PROVE  RegistryStep
<1>. USE DEF IInv, TypeOK
<1>1. UNCHANGED <<runPhase, runProcess, reportedRuns, brokenRuns>>
  BY DEF Hangup, runProcess, reportedRuns, brokenRuns, runPhase, Alive
<1>2. watchedRuns' = watchedRuns \ {r \in Recorded : home[r] = c}
  BY DEF Hangup, watchedRuns, ClientThere
<1>3. Registry!Unwatch({r \in Recorded : home[r] = c})
  BY <1>1, <1>2 DEF Registry!Unwatch
<1>. QED
  BY <1>3 DEF RegistryStep, Registry!Next

\* A connection that opens, or closes after its client left, changes nothing.
LEMMA LinkStep ==
  ASSUME IInv, NEW c \in Conns, Connect(c) \/ CloseConn(c)
  PROVE  RegistryStep
<1>. USE DEF IInv, TypeOK
<1>1. UNCHANGED <<runPhase, runProcess, reportedRuns, brokenRuns>>
  BY DEF Connect, CloseConn, Return, runProcess, reportedRuns, brokenRuns, runPhase, Alive
<1>2. watchedRuns' = watchedRuns
  BY DEF Connect, CloseConn, Return, watchedRuns, ClientThere, Placed, Recorded
<1>. QED
  BY <1>1, <1>2, Stutter

\* An acknowledgement that cannot be written was for a client that had left.
LEMMA AckFailsStep ==
  ASSUME IInv, NEW r \in Runs, AckFails(r)
  PROVE  RegistryStep
<1>. USE DEF IInv, TypeOK
<1>1. UNCHANGED <<runPhase, runProcess, reportedRuns, brokenRuns>>
  BY DEF AckFails, Return, runProcess, reportedRuns, brokenRuns, runPhase, Alive
<1>2. watchedRuns' = watchedRuns
  BY DEF AckFails, Return, watchedRuns, ClientThere, Placed, Recorded
<1>. QED
  BY <1>1, <1>2, Stutter

\* The core's exit loses the registry and every client.
LEMMA CoreExitStep ==
  ASSUME IInv, CoreExit
  PROVE  RegistryStep
<1>. USE DEF IInv, TypeOK
<1>1. UNCHANGED <<runProcess, reportedRuns, brokenRuns>>
  BY DEF CoreExit, runProcess, reportedRuns, brokenRuns, Alive
<1>2. runPhase' = [r \in Recorded |->
                     IF runPhase[r] = "armed" THEN "released" ELSE runPhase[r]]
  BY DEF CoreExit, runPhase, Recorded, Ids
<1>3. watchedRuns' = {r \in Recorded : home[r] = NoConn}
  BY DEF CoreExit, watchedRuns, Recorded, ClientThere
<1>4. \A r \in Recorded : runPhase[r] = "armed" => home[r] # NoConn
  BY PhaseOf DEF Phase, Logged, Placed, Recorded
<1>5. Registry!Lose
  BY <1>1, <1>2, <1>3, <1>4 DEF Registry!Lose, watchedRuns
<1>. QED
  BY <1>5 DEF RegistryStep, Registry!Next

-----------------------------------------------------------------------------
(* Steps that arm and release.                                             *)

\* session.start: a run is watched from before its request, so its start is no step.
LEMMA StartStep ==
  ASSUME IInv, NEW c \in Conns, NEW r \in Runs, StartRun(c, r)
  PROVE  RegistryStep
<1>. USE DEF IInv, TypeOK
<1>1. UNCHANGED <<runPhase, runProcess, reportedRuns, brokenRuns>>
  BY DEF StartRun, runProcess, reportedRuns, brokenRuns, runPhase, Alive
<1>2. watchedRuns' = watchedRuns
  BY DEF StartRun, Serving, watchedRuns, ClientThere, Placed, Recorded
<1>. QED
  BY <1>1, <1>2, Stutter

\* The cancel signal is registered with the "started" event.
LEMMA ArmStep ==
  ASSUME IInv, IInv', NEW r \in Runs, Arm(r)
  PROVE  RegistryStep
<1>. USE DEF IInv, TypeOK
<1>1. UNCHANGED <<runProcess, watchedRuns, reportedRuns, brokenRuns>>
  BY DEF Arm, runProcess, watchedRuns, reportedRuns, brokenRuns, Alive, ClientThere
<1>2. CASE r \in FailingRows
  <2>1. \A q \in Recorded : Phase(q)' = Phase(q)
    BY <1>2 DEF Arm, Log, Id, Phase, Recorded
  <2>. QED
    BY <1>1, <2>1, PhaseKept, Stutter
<1>3. CASE r \in Recorded
  <2>1. runPhase[r] = "fresh"
    BY <1>3, PhaseOf DEF Arm, Logged, Recorded, Phase
  <2>2. Phase(r)' = "armed"
    BY <1>3, OnlyUntoldIsEmpty DEF Arm, Phase, Recorded, Logged, Active, Registered
  <2>3. \A q \in Recorded \ {r} : Phase(q)' = Phase(q)
    BY <1>3 DEF Arm, Log, Id, Phase, Recorded
  <2>4. Registry!Arm(r)
    BY <1>1, <1>3, <2>1, <2>2, <2>3, PhaseMoved DEF Registry!Arm
  <2>. QED
    BY <2>4, <1>3 DEF RegistryStep, Registry!Next
<1>. QED
  BY <1>2, <1>3 DEF Recorded

\* A failed spawn releases a run that never had a process.
LEMMA LaunchFailsStep ==
  ASSUME IInv, IInv', NEW r \in Runs, LaunchFails(r)
  PROVE  RegistryStep
<1>. USE DEF IInv, TypeOK
<1>1. UNCHANGED <<runProcess, watchedRuns, reportedRuns, brokenRuns>>
  BY DEF LaunchFails, runProcess, watchedRuns, reportedRuns, brokenRuns, Alive, ClientThere
<1>2. CASE r \in FailingRows
  <2>1. \A q \in Recorded : Phase(q)' = Phase(q)
    BY <1>2 DEF LaunchFails, Log, Disarm, Id, Phase, Recorded
  <2>. QED
    BY <1>1, <2>1, PhaseKept, Stutter
<1>3. CASE r \in Recorded
  <2>1. runPhase[r] = "armed" /\ Phase(r)' = "released"
    <3>1. pc[r] = "spawned" /\ pc'[r] = "failing"
      BY DEF LaunchFails
    <3>2. Phase(r) = "armed"
      BY <1>3, <3>1, OnlyUntoldIsEmpty DEF Logged, Recorded, Phase, Active, Registered
    <3>3. Phase(r)' = "released"
      BY <1>3, <3>1, OnlyUntoldIsEmpty
         DEF Logged, Recorded, Phase, Active, Streaming, Registered
    <3>. QED
      BY <1>3, <3>2, <3>3, PhaseOf
  <2>2. \A q \in Recorded \ {r} : Phase(q)' = Phase(q)
    BY <1>3 DEF LaunchFails, Log, Disarm, Id, Phase, Recorded
  <2>3. runProcess[r] = "none"
    BY <1>3 DEF LaunchFails, Processes, BeforeLaunch, runProcess, Recorded
  <2>4. Registry!Release(r)
    BY <1>1, <1>3, <2>1, <2>2, <2>3, PhaseMoved DEF Registry!Release
  <2>. QED
    BY <2>4, <1>3 DEF RegistryStep, Registry!Next
<1>. QED
  BY <1>2, <1>3 DEF Recorded

\* The end of the loop, however it was left, releases the run.
LEMMA ConcludePhase ==
  ASSUME IInv, IInv', NEW r \in Runs, pc[r] \in Streaming, Conclude(r), UNCHANGED conn
  PROVE  /\ UNCHANGED <<runProcess, watchedRuns, reportedRuns>>
         /\ r \in FailingRows => UNCHANGED runPhase
         /\ r \in Recorded =>
              runPhase[r] = "armed" /\ runPhase' = [runPhase EXCEPT ![r] = "released"]
<1>. USE DEF IInv, TypeOK
<1>1. UNCHANGED <<runProcess, watchedRuns, reportedRuns>>
  BY DEF Conclude, runProcess, watchedRuns, reportedRuns, Alive, ClientThere
<1>2. ASSUME r \in FailingRows
      PROVE  UNCHANGED runPhase
  <2>1. \A q \in Recorded : Phase(q)' = Phase(q)
    BY <1>2 DEF Conclude, Log, Disarm, Id, Phase, Recorded
  <2>. QED
    BY <2>1, PhaseKept
<1>3. ASSUME r \in Recorded
      PROVE  runPhase[r] = "armed" /\ runPhase' = [runPhase EXCEPT ![r] = "released"]
  <2>1. runPhase[r] = "armed"
    BY <1>3, PhaseOf, OnlyUntoldIsEmpty DEF Logged, Recorded, Phase, Active, Registered
  <2>2. Phase(r)' = "released"
    BY <1>3, OnlyUntoldIsEmpty
       DEF Conclude, Streaming, Logged, Recorded, Phase, Active, Registered
  <2>3. \A q \in Recorded \ {r} : Phase(q)' = Phase(q)
    BY <1>3 DEF Conclude, Log, Disarm, Id, Phase, Recorded
  <2>. QED
    BY <1>3, <2>1, <2>2, <2>3, PhaseMoved
<1>. QED
  BY <1>1, <1>2, <1>3

\* The stream ended because the owner reported the exit.
LEMMA StreamEndsStep ==
  ASSUME IInv, IInv', NEW r \in Runs, StreamEnds(r)
  PROVE  RegistryStep
<1>1. pc[r] \in Streaming /\ Conclude(r) /\ UNCHANGED conn
  BY DEF StreamEnds, Conclude, Streaming
<1>2. brokenRuns' = brokenRuns
  BY DEF StreamEnds, brokenRuns
<1>3. CASE r \in FailingRows
  BY <1>1, <1>2, <1>3, ConcludePhase, Stutter
<1>4. CASE r \in Recorded
  <2>1. runProcess[r] # "alive"
    BY <1>4 DEF IInv, Processes, StreamEnds, runProcess
  <2>2. Registry!Release(r)
    BY <1>1, <1>2, <1>4, <2>1, ConcludePhase DEF Registry!Release
  <2>. QED
    BY <2>2, <1>4 DEF RegistryStep, Registry!Next
<1>. QED
  BY <1>3, <1>4 DEF Recorded

\* A frame could not be written: the run's stream breaks.
LEMMA WriteFailsStep ==
  ASSUME IInv, IInv', NEW r \in Runs, WriteFails(r), proc[r] # "none"
  PROVE  RegistryStep
<1>1. pc[r] \in Streaming /\ Conclude(r) /\ UNCHANGED conn
  BY DEF WriteFails, Conclude, Streaming
<1>2. \A q \in Recorded : frame'[q] = IF q = r THEN "lost" ELSE frame[q]
  BY DEF WriteFails, Recorded, IInv, TypeOK
<1>3. CASE r \in FailingRows
  <2>1. brokenRuns' = brokenRuns
    BY <1>2, <1>3 DEF brokenRuns, Recorded
  <2>. QED
    BY <1>1, <1>3, <2>1, ConcludePhase, Stutter
<1>4. CASE r \in Recorded
  <2>1. brokenRuns' = brokenRuns \cup {r}
    BY <1>2, <1>4 DEF brokenRuns
  <2>2. runProcess[r] # "none"
    BY <1>4 DEF runProcess
  <2>3. Registry!Break(r)
    BY <1>1, <1>4, <2>1, <2>2, ConcludePhase DEF Registry!Break
  <2>. QED
    BY <2>3, <1>4 DEF RegistryStep, Registry!Next
<1>. QED
  BY <1>3, <1>4 DEF Recorded

-----------------------------------------------------------------------------
(* The process, and what the client is told.                               *)

\* The process is spawned while the run is armed.
LEMMA LaunchStep ==
  ASSUME IInv, NEW r \in Runs, Launch(r)
  PROVE  RegistryStep
<1>. USE DEF IInv, TypeOK
<1>1. UNCHANGED <<runPhase, watchedRuns, reportedRuns>>
  BY DEF Launch, runPhase, watchedRuns, reportedRuns, ClientThere
<1>4. brokenRuns' = brokenRuns
  BY DEF Launch, Processes, PastLoop, brokenRuns, Recorded
<1>2. CASE r \in FailingRows
  <2>1. runProcess' = runProcess
    BY <1>2 DEF Launch, runProcess, Recorded, Alive
  <2>. QED
    BY <1>1, <1>4, <2>1, Stutter
<1>3. CASE r \in Recorded
  <2>1. runPhase[r] = "armed"
    BY <1>3, PhaseOf, OnlyUntoldIsEmpty
       DEF Launch, Logged, Recorded, Phase, Active, Registered
  <2>2. runProcess[r] = "none" /\ runProcess' = [runProcess EXCEPT ![r] = "alive"]
    <3>1. proc[r] = "none" /\ proc' = [proc EXCEPT ![r] = "running"]
      BY <1>3 DEF Launch, Processes, BeforeLaunch, Recorded
    <3>2. \A q \in Recorded : proc'[q] = IF q = r THEN "running" ELSE proc[q]
      BY <3>1 DEF Recorded
    <3>. QED
      BY <1>3, <3>1, <3>2, ProcessMoved
  <2>3. Registry!Spawn(r)
    BY <1>1, <1>3, <1>4, <2>1, <2>2 DEF Registry!Spawn
  <2>. QED
    BY <2>3, <1>3 DEF RegistryStep, Registry!Next
<1>. QED
  BY <1>2, <1>3 DEF Recorded

\* A process dies by itself or is killed by its owner, once.
LEMMA DeathStep ==
  ASSUME IInv, NEW r \in Runs,
         OwnerKills(r) \/ \E status \in {"ok", "bad"} : CliExits(r, status)
  PROVE  RegistryStep
<1>. USE DEF IInv, TypeOK
<1>1. UNCHANGED <<runPhase, watchedRuns, reportedRuns, brokenRuns>>
  BY DEF OwnerKills, CliExits, runPhase, watchedRuns, reportedRuns, brokenRuns, ClientThere
<1>2. CASE r \in FailingRows \/ ~Alive(r)
  <2>1. \A q \in Recorded : Alive(q)' = Alive(q) /\ (proc'[q] = "none" <=> proc[q] = "none")
    BY <1>2 DEF OwnerKills, CliExits, Recorded, Alive
  <2>2. runProcess' = runProcess
    BY <2>1 DEF runProcess
  <2>. QED
    BY <1>1, <2>2, Stutter
<1>3. CASE r \in Recorded /\ Alive(r)
  <2>1. proc'[r] \in {"ok", "bad"} /\ \A q \in Recorded \ {r} : proc'[q] = proc[q]
    BY <1>3 DEF OwnerKills, CliExits, Recorded, Alive
  <2>2. runProcess[r] = "alive" /\ runProcess' = [runProcess EXCEPT ![r] = "dead"]
    <3>1. proc[r] # "none" /\ proc'[r] # "none" /\ ~Alive(r)'
      BY <1>3, <2>1 DEF Alive
    <3>2. \A q \in Recorded \ {r} : Alive(q)' = Alive(q)
      BY <2>1 DEF Alive
    <3>3. runProcess[r] = "alive" /\ runProcess'[r] = "dead"
      BY <1>3, <3>1 DEF runProcess
    <3>4. \A q \in Recorded \ {r} : runProcess'[q] = runProcess[q]
      BY <2>1, <3>2 DEF runProcess
    <3>5. /\ runProcess = [q \in Recorded |-> runProcess[q]]
          /\ runProcess' = [q \in Recorded |-> runProcess'[q]]
      BY DEF runProcess
    <3>. QED
      BY <1>3, <3>3, <3>4, <3>5
  <2>3. Registry!Die(r)
    BY <1>1, <1>3, <2>2 DEF Registry!Die
  <2>. QED
    BY <2>3, <1>3 DEF RegistryStep, Registry!Next
<1>. QED
  BY <1>2, <1>3 DEF Recorded

\* SIGSTOP and SIGCONT neither end a process nor bring one back.
LEMMA SignalStep ==
  ASSUME IInv, NEW c \in Conns, Signal(c)
  PROVE  RegistryStep
<1>1. UNCHANGED <<runPhase, watchedRuns, reportedRuns, brokenRuns>>
  BY DEF Signal, runPhase, watchedRuns, reportedRuns, brokenRuns, ClientThere
<1>2. runProcess' = runProcess
  BY DEF Signal, runProcess, Recorded, Alive, IInv, TypeOK
<1>. QED
  BY <1>1, <1>2, Stutter

\* "done" is a report of a released run, if the client is there to read it.
LEMMA ReportDoneStep ==
  ASSUME IInv, NEW r \in Runs, ReportDone(r)
  PROVE  RegistryStep
<1>. USE DEF IInv, TypeOK
<1>1. UNCHANGED <<runPhase, runProcess, watchedRuns, brokenRuns>>
  BY DEF ReportDone, LastFrame, runProcess, watchedRuns, runPhase, brokenRuns, Alive,
         ClientThere
<1>2. CASE r \in FailingRows \/ conn[home[r]] # "open"
  <2>1. reportedRuns' = reportedRuns
    BY <1>2 DEF ReportDone, LastFrame, reportedRuns, Recorded
  <2>. QED
    BY <1>1, <2>1, Stutter
<1>3. CASE r \in Recorded /\ conn[home[r]] = "open"
  <2>1. reportedRuns' = reportedRuns \cup {r}
    BY <1>3 DEF ReportDone, LastFrame, reportedRuns, Recorded
  <2>2. runPhase[r] = "released"
    <3>1. pc[r] = "finishing"
      BY DEF ReportDone, LastFrame
    <3>2. events[r] # Untold /\ cancels[r] # r
      BY <1>3, <3>1, OnlyUntoldIsEmpty DEF Logged, Registered, Active, Streaming, Recorded
    <3>. QED
      BY <1>3, <3>2, PhaseOf DEF Phase
  <2>3. r \in watchedRuns
    BY <1>3 DEF Placed, ReportDone, LastFrame, watchedRuns, ClientThere
  <2>4. runProcess[r] = "alive" => r \in brokenRuns
    BY <1>3 DEF Processes, PastLoop, ReportDone, LastFrame, runProcess, brokenRuns
  <2>5. Registry!Report(r)
    BY <1>1, <1>3, <2>1, <2>2, <2>3, <2>4 DEF Registry!Report
  <2>. QED
    BY <2>5, <1>3 DEF RegistryStep, Registry!Next
<1>. QED
  BY <1>2, <1>3 DEF Recorded

\* The frames before "done" are no reports.
LEMMA FrameStep ==
  ASSUME IInv, NEW r \in Runs,
         Ack(r) \/ WriteFrame(r) \/ ReportHook(r) \/ ReportFailure(r)
  PROVE  RegistryStep
<1>. USE DEF IInv, TypeOK, Ack, WriteFrame, ReportHook, ReportFailure, LastFrame
<1>1. UNCHANGED <<runPhase, runProcess, watchedRuns, brokenRuns>>
  BY DEF runPhase, runProcess, watchedRuns, brokenRuns, Alive, ClientThere
<1>2. wire[r] # "done"
  BY DEF Reported
<1>3. reportedRuns' = reportedRuns
  BY <1>2 DEF reportedRuns, Recorded
<1>. QED
  BY <1>1, <1>3, Stutter

\* Neither is the event that the hook was run.
LEMMA HookStep ==
  ASSUME IInv, NEW r \in Runs, HookEnds(r)
  PROVE  RegistryStep
<1>. USE DEF IInv, TypeOK
<1>1. UNCHANGED <<runProcess, watchedRuns, reportedRuns, brokenRuns>>
  BY DEF HookEnds, runProcess, watchedRuns, reportedRuns, brokenRuns, Alive, ClientThere
<1>2. \A q \in Recorded : Phase(q)' = Phase(q)
  <2>1. r \in Recorded => events[r] = Ended /\ events'[r] = Hooked
    BY Stories DEF HookEnds, Log, Logged, Recorded
  <2>2. cancels' = cancels /\ \A q \in Recorded \ {r} : events'[q] = events[q]
    BY DEF HookEnds, Log, Recorded
  <2>3. r \in Recorded => events[r] # Untold /\ events'[r] # Untold
    BY <2>1, OnlyUntoldIsEmpty
  <2>. HIDE DEF IInv, TypeOK
  <2>. QED
    BY <2>2, <2>3 DEF Phase
<1>. QED
  BY <1>1, <1>2, PhaseKept, Stutter

\* What the other steps change is not the registry's.
LEMMA SilentStep ==
  ASSUME UNCHANGED <<conn, home, cancels, proc, events, wire, brokenRuns>>
  PROVE  RegistryStep
  BY Stutter DEF runPhase, runProcess, watchedRuns, reportedRuns, Alive, ClientThere

\* An event that was taken, and is still to be written, is not lost.
LEMMA TakeStep ==
  ASSUME IInv, NEW r \in Runs, TakeLine(r) \/ TakeEnd(r)
  PROVE  RegistryStep
<1>1. pc[r] = "streaming" /\ \A q \in Runs : q # r => frame'[q] = frame[q]
  BY DEF TakeLine, TakeEnd, IInv, TypeOK
<1>2. frame[r] # "lost"
  BY <1>1 DEF IInv, Processes, PastLoop
<1>3. frame'[r] # "lost"
  <2>1. CASE TakeLine(r)
    <3>1. Head(unread[r]) \in Lines
      BY <2>1, LineTaken DEF IInv
    <3>. QED
      BY <2>1, <3>1 DEF TakeLine, IInv, TypeOK
  <2>2. CASE TakeEnd(r)
    BY <2>2 DEF TakeEnd, IInv, TypeOK
  <2>. QED
    BY <2>1, <2>2
<1>4. brokenRuns' = brokenRuns
  BY <1>1, <1>2, <1>3 DEF brokenRuns, Recorded
<1>. QED
  BY <1>4, SilentStep DEF TakeLine, TakeEnd

-----------------------------------------------------------------------------
\* Connections, handlers, forwarders, owners and pool jobs, for any number of runs and
\* clients, implement the registry of running agents (register_cancel, clear_cancel,
\* os_running_agents) for the runs that have a session row.
THEOREM Refinement == Spec => ImplementsRegistry
<1>1. Init => Registry!Init
  BY DEF Init, Registry!Init, runPhase, runProcess, watchedRuns, reportedRuns, brokenRuns,
         Recorded
<1>2. IInv /\ IInv' /\ [Next]_vars => RegistryStep
  <2>. SUFFICES ASSUME IInv, IInv', [Next]_vars
                PROVE  RegistryStep
    OBVIOUS
  <2>1. ASSUME NEW c \in Conns, Connect(c) \/ Hangup(c) \/ CloseConn(c)
        PROVE  RegistryStep
    BY <2>1, LinkStep, HangupStep
  <2>2. ASSUME NEW c \in Conns, Request(c)
        PROVE  RegistryStep
    <3>1. ASSUME NEW i \in Ids, Stop(c, i)
          PROVE  RegistryStep
      BY <3>1, SilentStep DEF Stop, brokenRuns
    <3>2. ASSUME NEW i \in Ids, NEW kind \in {"STOP", "CONT"}, FindPid(c, i, kind)
          PROVE  RegistryStep
      BY <3>2, SilentStep DEF FindPid, brokenRuns
    <3>. QED
      BY <2>2, <3>1, <3>2, StartStep, SignalStep DEF Request
  <2>3. ASSUME NEW r \in Runs, Handler(r)
        PROVE  RegistryStep
    BY <2>3, ArmStep, FrameStep, AckFailsStep DEF Handler
  <2>4. ASSUME NEW r \in Runs, Forwarder(r)
        PROVE  RegistryStep
    <3>1. CASE WriteFails(r)
      <4>1. proc[r] # "none"
        BY <3>1 DEF IInv, Processes, WriteFails, Streaming
      <4>. QED
        BY <3>1, <4>1, WriteFailsStep
    <3>. QED
      BY <2>4, <3>1, LaunchStep, LaunchFailsStep, TakeStep, FrameStep, StreamEndsStep,
         HookStep, ReportDoneStep DEF Forwarder
  <2>5. ASSUME NEW r \in Runs, SaveText(r) \/ Owner(r) \/ Cli(r)
        PROVE  RegistryStep
    <3>1. CASE SaveText(r) \/ OwnerReaps(r) \/ \E line \in Lines : CliWrites(r, line)
      BY <3>1, SilentStep DEF SaveText, OwnerReaps, CliWrites, brokenRuns
    <3>. QED
      BY <2>5, <3>1, DeathStep DEF Owner, Cli
  <2>6. CASE CoreExit
    BY <2>6, CoreExitStep
  <2>7. CASE UNCHANGED vars
    BY <2>7, SilentStep DEF vars, brokenRuns
  <2>. QED
    BY <2>1, <2>2, <2>3, <2>4, <2>5, <2>6, <2>7 DEF Next
<1>. QED
  BY <1>1, <1>2, Invariant, PTL DEF Spec, ImplementsRegistry, Registry!Spec, RegistryStep
=============================================================================
