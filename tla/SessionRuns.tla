----------------------------- MODULE SessionRuns -----------------------------
(***************************************************************************)
(* The life of a `session.start` run inside the core (cs-cli and           *)
(* cs-claude): the connection that handles the request, the forwarder task *)
(* that streams the claude CLI's output to that connection and archives    *)
(* it, the task that owns the CLI process, and the registries of cancel    *)
(* signals and process ids that `session.stop`, `session.pause` and        *)
(* `os.running_agents` use from any connection.                            *)
(*                                                                         *)
(* One action is what a task does between two awaits.  A task is aborted   *)
(* only at an await, so an abort is an action of its own (CloseConn).      *)
(***************************************************************************)
EXTENDS Naturals, Sequences

CONSTANTS
  Runs,         \* session.start requests
  Conns,        \* client connections; a closed one is not reopened
  FailingRows,  \* the runs whose session row cannot be inserted
  HookRuns,     \* the runs started with a post_run_hook and a cwd
  Lines,        \* bound: the kinds of stdout events, "text" or "info", the CLI writes
  MaxLines,     \* bound: stdout events of one CLI process
  Pausers,      \* bound: the connections that send session.pause and session.resume
  NoRun, NoConn, NoId

ASSUME RunsAssumption ==
  /\ FailingRows \subseteq Runs
  /\ HookRuns \subseteq Runs
  /\ Lines \subseteq {"text", "info"}
  /\ MaxLines \in Nat
  /\ Pausers \subseteq Conns
  /\ NoRun \notin Runs
  /\ NoConn \notin Conns
  /\ NoId \notin Runs

VARIABLES
  conn,      \* "new", "open", "hungup" (client left, core has not noticed), "closed"
  home,      \* the connection a run was started on
  pc,        \* where the handler, then the forwarder, of a run is
  frame,     \* the kind of stream event the forwarder took last; "lost" once it
             \* could not be written
  cancels,   \* session id -> the run whose Notify is registered under it
  pids,      \* session id -> the run whose process id is registered under it
  stop,      \* the runs whose Notify was fired by session.stop
  signal,    \* connection -> the SIGSTOP or SIGCONT its handler is about to send
  proc,      \* the CLI process: "none", "running", "paused", exited "ok" or "bad"
  outcome,   \* what the owner of the process reported; "lost" with the core
  unread,    \* stdout events written by the CLI and not yet taken
  emitted,   \* how many events the CLI has written
  job,       \* TRUE while an archive job of the run is on the blocking pool
  saved,     \* assistant messages in the archive
  shown,     \* assistant messages sent to the client
  events,    \* the run's lifecycle events in the archive, in order
  wire       \* the last stage of the run's stream the client was sent

links == <<conn, home>>
task == <<pc, frame>>
registry == <<cancels, pids>>
control == <<stop, signal>>
cli == <<proc, outcome, unread, emitted>>
archive == <<job, saved, events>>
client == <<shown, wire>>

vars == <<conn, home, pc, frame, cancels, pids, stop, signal, proc, outcome,
          unread, emitted, job, saved, shown, events, wire>>

Ids == Runs \cup {NoId}

\* create_run_session returns the empty id when the row cannot be inserted.
Id(r) == IF r \in FailingRows THEN NoId ELSE r

Handling == {"row", "armed"}
Streaming == {"streaming", "saving", "writing"}
Forwarding == {"spawned", "failing", "hook", "hooked", "finishing"} \cup Streaming
Phases == {"new", "over", "aborted"} \cup Handling \cup Forwarding
Stages == <<"none", "ack", "streaming", "ended", "hook", "done">>

Alive(r) == proc[r] \in {"running", "paused"}

\* The connection is between two requests: session.start and pause/resume are
\* handled one at a time, in order.
Serving(c) ==
  /\ conn[c] = "open"
  /\ \A r \in Runs : home[r] = c => pc[r] \notin Handling
  /\ signal[c].pid = NoRun

NoSignal == [kind |-> "STOP", pid |-> NoRun]

Init ==
  /\ conn = [c \in Conns |-> "new"]
  /\ home = [r \in Runs |-> NoConn]
  /\ pc = [r \in Runs |-> "new"]
  /\ frame = [r \in Runs |-> "none"]
  /\ cancels = [i \in Ids |-> NoRun]
  /\ pids = [i \in Ids |-> NoRun]
  /\ stop = {}
  /\ signal = [c \in Conns |-> NoSignal]
  /\ proc = [r \in Runs |-> "none"]
  /\ outcome = [r \in Runs |-> "none"]
  /\ unread = [r \in Runs |-> <<>>]
  /\ emitted = [r \in Runs |-> 0]
  /\ job = [r \in Runs |-> FALSE]
  /\ saved = [r \in Runs |-> 0]
  /\ shown = [r \in Runs |-> 0]
  /\ events = [r \in Runs |-> <<>>]
  /\ wire = [r \in Runs |-> "none"]

-----------------------------------------------------------------------------
(* Connections.                                                            *)

Connect(c) ==
  /\ conn[c] = "new"
  /\ conn' = [conn EXCEPT ![c] = "open"]
  /\ UNCHANGED <<home, task, registry, control, cli, archive, client>>

\* The client closes its end; the core learns of it from a failing read or write.
Hangup(c) ==
  /\ conn[c] = "open"
  /\ conn' = [conn EXCEPT ![c] = "hungup"]
  /\ UNCHANGED <<home, task, registry, control, cli, archive, client>>

\* The tasks whose handles a connection's ForwarderGuard holds.
Guarded(c) == {r \in Runs : home[r] = c /\ pc[r] \in Forwarding}

\* The connection's handler returns: its guard aborts the forwarders, each at its
\* await.  A stream dropped with its forwarder takes the unread output with it.
\* Nothing is disarmed and no process is killed.
Return(c, S) ==
  /\ conn' = [conn EXCEPT ![c] = "closed"]
  /\ pc' = [r \in Runs |-> IF r \in S THEN "aborted" ELSE pc[r]]
  /\ unread' = [r \in Runs |-> IF r \in S THEN <<>> ELSE unread[r]]

\* read_frame finds the end of the stream, once the request at hand is answered.
CloseConn(c) ==
  /\ conn[c] = "hungup"
  /\ \A r \in Runs : home[r] = c => pc[r] \notin Handling
  /\ signal[c].pid = NoRun
  /\ Return(c, Guarded(c))
  /\ UNCHANGED <<home, frame, registry, control, proc, outcome, emitted, archive, client>>

\* The core exits (parent death, ctrl-c or a crash).  Its registries and tasks are
\* gone, the archive and the CLI processes are not.
CoreExit ==
  /\ \E c \in Conns : conn[c] \in {"open", "hungup"}
  /\ conn' = [c \in Conns |-> IF conn[c] \in {"open", "hungup"} THEN "closed"
                                                                ELSE conn[c]]
  /\ pc' = [r \in Runs |-> IF pc[r] \in Handling \cup Forwarding THEN "aborted"
                                                                 ELSE pc[r]]
  /\ unread' = [r \in Runs |-> <<>>]
  /\ job' = [r \in Runs |-> FALSE]
  /\ cancels' = [i \in Ids |-> NoRun]
  /\ pids' = [i \in Ids |-> NoRun]
  /\ signal' = [c \in Conns |-> NoSignal]
  /\ outcome' = [r \in Runs |-> IF proc[r] # "none" /\ outcome[r] = "none"
                                THEN "lost" ELSE outcome[r]]
  /\ UNCHANGED <<home, frame, stop, proc, emitted, saved, events, client>>

-----------------------------------------------------------------------------
(* The session.start handler.                                              *)

\* Best-effort append of a lifecycle event: without a session row it is dropped.
Log(r, e) ==
  events' = [events EXCEPT ![r] = IF r \in FailingRows THEN @ ELSE Append(@, e)]

\* A request with a prompt: the row is inserted, then the prompt is archived on the
\* blocking pool, which the handler awaits.
StartRun(c, r) ==
  /\ Serving(c)
  /\ pc[r] = "new"
  /\ home' = [home EXCEPT ![r] = c]
  /\ pc' = [pc EXCEPT ![r] = "row"]
  /\ UNCHANGED <<conn, frame, registry, control, cli, archive, client>>

\* The prompt is archived: "started" is logged and the cancel signal registered.
Arm(r) ==
  /\ pc[r] = "row"
  /\ pc' = [pc EXCEPT ![r] = "armed"]
  /\ Log(r, "started")
  /\ cancels' = [cancels EXCEPT ![Id(r)] = r]
  /\ UNCHANGED <<links, frame, pids, control, cli, job, saved, client>>

\* The acknowledgement is on the wire before the forwarder exists.
Ack(r) ==
  /\ pc[r] = "armed"
  /\ conn[home[r]] = "open"
  /\ pc' = [pc EXCEPT ![r] = "spawned"]
  /\ wire' = [wire EXCEPT ![r] = "ack"]
  /\ UNCHANGED <<links, frame, registry, control, cli, archive, shown>>

\* The acknowledgement cannot be written: the handler returns and the run, armed,
\* is never launched.
AckFails(r) ==
  /\ pc[r] = "armed"
  /\ conn[home[r]] = "hungup"
  /\ Return(home[r], Guarded(home[r]) \cup {r})
  /\ UNCHANGED <<home, frame, registry, control, proc, outcome, emitted, archive, client>>

-----------------------------------------------------------------------------
(* The CLI process and the task that owns it.                              *)

\* Events come out of the process while somebody reads them.
CliWrites(r, line) ==
  /\ proc[r] = "running"
  /\ pc[r] \in Streaming
  /\ emitted[r] < MaxLines
  /\ unread' = [unread EXCEPT ![r] = Append(@, line)]
  /\ emitted' = [emitted EXCEPT ![r] = @ + 1]
  /\ UNCHANGED <<links, task, registry, control, proc, outcome, archive, client>>

CliExits(r, status) ==
  /\ proc[r] = "running"
  /\ proc' = [proc EXCEPT ![r] = status]
  /\ UNCHANGED <<links, task, registry, control, outcome, unread, emitted,
                 archive, client>>

\* The owner sees the exit first.
OwnerReaps(r) ==
  /\ outcome[r] = "none"
  /\ proc[r] \in {"ok", "bad"}
  /\ outcome' = [outcome EXCEPT ![r] = IF proc[r] = "ok" THEN "Ok" ELSE "Failed"]
  /\ UNCHANGED <<links, task, registry, control, proc, unread, emitted, archive, client>>

\* Mutant: a signal that a paused process does not get.
OwnerKills_Running(r) ==
  /\ outcome[r] = "none"
  /\ proc[r] = "running"
  /\ r \in stop
  /\ proc' = [proc EXCEPT ![r] = "bad"]
  /\ outcome' = [outcome EXCEPT ![r] = "Stopped"]
  /\ UNCHANGED <<links, task, registry, control, unread, emitted, archive, client>>

\* The owner sees the cancel signal first.  SIGKILL also ends a paused process, and
\* the outcome is Stopped even if the process had just exited by itself.
OwnerKills(r) ==
  /\ outcome[r] = "none"
  /\ proc[r] # "none"
  /\ r \in stop
  /\ proc' = [proc EXCEPT ![r] = IF Alive(r) THEN "bad" ELSE @]
  /\ outcome' = [outcome EXCEPT ![r] = "Stopped"]
  /\ UNCHANGED <<links, task, registry, control, unread, emitted, archive, client>>

-----------------------------------------------------------------------------
(* Control requests, from any connection.                                  *)

\* Mutant: stop takes the signal out of the registry.
Stop_Takes(c, i) ==
  /\ Serving(c)
  /\ cancels[i] # NoRun
  /\ stop' = stop \cup {cancels[i]}
  /\ cancels' = [cancels EXCEPT ![i] = NoRun]
  /\ UNCHANGED <<links, task, pids, signal, cli, archive, client>>

\* session.stop fires the Notify registered under the id, if there is one.  The
\* permit is kept until the owner task waits for it.
Stop(c, i) ==
  /\ Serving(c)
  /\ cancels[i] # NoRun
  /\ stop' = stop \cup {cancels[i]}
  /\ UNCHANGED <<links, task, registry, signal, cli, archive, client>>

\* session.pause and session.resume read the process id, then run `kill`.
FindPid(c, i, kind) ==
  /\ c \in Pausers
  /\ Serving(c)
  /\ pids[i] # NoRun
  /\ signal' = [signal EXCEPT ![c] = [kind |-> kind, pid |-> pids[i]]]
  /\ UNCHANGED <<links, task, registry, stop, cli, archive, client>>

Signal(c) ==
  LET r == signal[c].pid IN
  /\ r # NoRun
  /\ signal' = [signal EXCEPT ![c] = NoSignal]
  /\ proc' = [proc EXCEPT ![r] =
                IF Alive(r) THEN IF signal[c].kind = "STOP" THEN "paused" ELSE "running"
                            ELSE @]
  /\ UNCHANGED <<links, task, registry, stop, outcome, unread, emitted, archive, client>>

-----------------------------------------------------------------------------
(* The forwarder.                                                          *)

\* Mutants: the entry is emptied instead of removed; the process id is forgotten.
Disarm_Empties(r) ==
  /\ cancels' = [cancels EXCEPT ![Id(r)] = NoId]
  /\ pids' = [pids EXCEPT ![Id(r)] = NoRun]

Disarm_CancelOnly(r) ==
  /\ cancels' = [cancels EXCEPT ![Id(r)] = NoRun]
  /\ UNCHANGED pids

\* clear_cancel: whatever is registered under the run's id is removed.
Disarm(r) ==
  /\ cancels' = [cancels EXCEPT ![Id(r)] = NoRun]
  /\ pids' = [pids EXCEPT ![Id(r)] = NoRun]

\* The CLI is spawned; the stream's first event carries its process id.
Launch(r) ==
  /\ pc[r] = "spawned"
  /\ proc' = [proc EXCEPT ![r] = "running"]
  /\ pids' = [pids EXCEPT ![Id(r)] = r]
  /\ pc' = [pc EXCEPT ![r] = "writing"]
  /\ frame' = [frame EXCEPT ![r] = "spawned"]
  /\ UNCHANGED <<links, cancels, control, outcome, unread, emitted, archive, client>>

\* Mutant: a failed spawn stays armed.
LaunchFails_Armed(r) ==
  /\ pc[r] = "spawned"
  /\ pc' = [pc EXCEPT ![r] = "failing"]
  /\ Log(r, "spawn_failed")
  /\ UNCHANGED <<links, frame, registry, control, cli, job, saved, client>>

LaunchFails(r) ==
  /\ pc[r] = "spawned"
  /\ pc' = [pc EXCEPT ![r] = "failing"]
  /\ Log(r, "spawn_failed")
  /\ Disarm(r)
  /\ UNCHANGED <<links, frame, control, cli, job, saved, client>>

\* Mutant: the archive job is detached instead of awaited.
TakeLine_Detached(r) ==
  /\ pc[r] = "streaming"
  /\ unread[r] # <<>>
  /\ frame' = [frame EXCEPT ![r] = Head(unread[r])]
  /\ unread' = [unread EXCEPT ![r] = Tail(@)]
  /\ job' = [job EXCEPT ![r] = Head(unread[r]) = "text"]
  /\ pc' = [pc EXCEPT ![r] = "writing"]
  /\ UNCHANGED <<links, registry, control, proc, outcome, emitted, saved, events, client>>

\* An assistant message goes to the archive on the blocking pool, any other event
\* is archived in place, if at all.
TakeLine(r) ==
  /\ pc[r] = "streaming"
  /\ unread[r] # <<>>
  /\ frame' = [frame EXCEPT ![r] = Head(unread[r])]
  /\ unread' = [unread EXCEPT ![r] = Tail(@)]
  /\ job' = [job EXCEPT ![r] = Head(unread[r]) = "text"]
  /\ pc' = [pc EXCEPT ![r] = IF Head(unread[r]) = "text" THEN "saving" ELSE "writing"]
  /\ UNCHANGED <<links, registry, control, proc, outcome, emitted, saved, events, client>>

\* The pool archives the message, whether or not a forwarder still waits for it.
SaveText(r) ==
  /\ job[r]
  /\ job' = [job EXCEPT ![r] = FALSE]
  /\ saved' = [saved EXCEPT ![r] = IF r \in FailingRows THEN @ ELSE @ + 1]
  /\ pc' = [pc EXCEPT ![r] = IF @ = "saving" THEN "writing" ELSE @]
  /\ UNCHANGED <<links, frame, registry, control, cli, events, client>>

\* Mutants: the terminal event does not wait for the end of the output; a stopped run
\* has no terminal event.
TakeEnd_Merged(r) ==
  /\ pc[r] = "streaming"
  /\ outcome[r] \in {"Stopped", "Failed"}
  /\ frame[r] # "end"
  /\ frame' = [frame EXCEPT ![r] = "end"]
  /\ pc' = [pc EXCEPT ![r] = "writing"]
  /\ UNCHANGED <<links, registry, control, cli, archive, client>>

\* The output is read to its end and the process did not exit well: one more event.
TakeEnd(r) ==
  /\ pc[r] = "streaming"
  /\ unread[r] = <<>>
  /\ outcome[r] \in {"Stopped", "Failed"}
  /\ frame[r] # "end"
  /\ frame' = [frame EXCEPT ![r] = "end"]
  /\ pc' = [pc EXCEPT ![r] = "writing"]
  /\ UNCHANGED <<links, registry, control, cli, archive, client>>

WriteFrame(r) ==
  /\ pc[r] = "writing"
  /\ conn[home[r]] = "open"
  /\ pc' = [pc EXCEPT ![r] = "streaming"]
  /\ wire' = [wire EXCEPT ![r] = IF frame[r] = "end" THEN "ended" ELSE "streaming"]
  /\ shown' = [shown EXCEPT ![r] = IF frame[r] = "text" THEN @ + 1 ELSE @]
  /\ UNCHANGED <<links, frame, registry, control, cli, archive>>

\* Mutant: the loop is not left.
Conclude_Loops(r) ==
  /\ Log(r, "completed")
  /\ Disarm(r)
  /\ UNCHANGED <<links, pc, control, proc, outcome, emitted, job, saved, client>>

\* Past the loop: "completed" is logged, the run disarmed, the hook started.
Conclude(r) ==
  /\ pc' = [pc EXCEPT ![r] = IF r \in HookRuns THEN "hook" ELSE "finishing"]
  /\ Log(r, "completed")
  /\ Disarm(r)
  /\ UNCHANGED <<links, control, proc, outcome, emitted, job, saved, client>>

\* Mutant: the end of the output is taken for the end of the process.
StreamEnds_AtEof(r) ==
  /\ pc[r] = "streaming"
  /\ unread[r] = <<>>
  /\ Conclude(r)
  /\ UNCHANGED <<frame, unread>>

StreamEnds(r) ==
  /\ pc[r] = "streaming"
  /\ unread[r] = <<>>
  /\ \/ outcome[r] = "Ok"
     \/ outcome[r] \in {"Stopped", "Failed"} /\ frame[r] = "end"
  /\ Conclude(r)
  /\ UNCHANGED <<frame, unread>>

\* A failing write ends the loop with the process possibly alive.  It fails when the
\* client has left, and with the client there when the frame cannot be encoded or
\* exceeds MAX_FRAME_LEN, which only the small frame of the spawn never does.
WriteFails(r) ==
  /\ pc[r] = "writing"
  /\ conn[home[r]] = "open" => frame[r] # "spawned"
  /\ Conclude(r)
  /\ frame' = [frame EXCEPT ![r] = "lost"]
  /\ unread' = [unread EXCEPT ![r] = <<>>]

HookEnds(r) ==
  /\ pc[r] = "hook"
  /\ pc' = [pc EXCEPT ![r] = "hooked"]
  /\ Log(r, "post_run_hook")
  /\ UNCHANGED <<links, frame, registry, control, cli, job, saved, client>>

\* A last frame: written if the client is there, otherwise the failure is ignored.
LastFrame(r, from, to, stage) ==
  /\ pc[r] = from
  /\ pc' = [pc EXCEPT ![r] = to]
  /\ wire' = [wire EXCEPT ![r] = IF conn[home[r]] = "open" THEN stage ELSE @]
  /\ UNCHANGED <<links, frame, registry, control, cli, archive, shown>>

\* The hook's frame carries its output, which may be too much for a frame.
ReportHook(r) ==
  \/ LastFrame(r, "hooked", "finishing", "hook")
  \/ LastFrame(r, "hooked", "finishing", wire[r])

ReportDone(r) == LastFrame(r, "finishing", "over", "done")
ReportFailure(r) == LastFrame(r, "failing", "over", "ended")

-----------------------------------------------------------------------------
Handler(r) == Arm(r) \/ Ack(r) \/ AckFails(r)

Forwarder(r) ==
  \/ Launch(r) \/ LaunchFails(r) \/ ReportFailure(r)
  \/ TakeLine(r) \/ TakeEnd(r) \/ WriteFrame(r) \/ WriteFails(r)
  \/ StreamEnds(r) \/ HookEnds(r) \/ ReportHook(r) \/ ReportDone(r)

Owner(r) == OwnerReaps(r) \/ OwnerKills(r)

Cli(r) ==
  \/ \E line \in Lines : CliWrites(r, line)
  \/ \E status \in {"ok", "bad"} : CliExits(r, status)

Request(c) ==
  \/ \E r \in Runs : StartRun(c, r)
  \/ \E i \in Ids : Stop(c, i) \/ FindPid(c, i, "STOP") \/ FindPid(c, i, "CONT")
  \/ Signal(c)

Next ==
  \/ \E c \in Conns : Connect(c) \/ Hangup(c) \/ CloseConn(c) \/ Request(c)
  \/ \E r \in Runs : Handler(r) \/ Forwarder(r) \/ SaveText(r) \/ Owner(r) \/ Cli(r)
  \/ CoreExit

Spec == Init /\ [][Next]_vars

\* The steps that end a write to the run's connection, which waits for the client to
\* read or to leave.
Writes(r) ==
  Ack(r) \/ AckFails(r) \/ WriteFrame(r) \/ WriteFails(r)
    \/ ReportHook(r) \/ ReportDone(r) \/ ReportFailure(r)

\* The forwarder's steps that wait for neither the client nor the hook.
Forwards(r) ==
  Launch(r) \/ LaunchFails(r) \/ TakeLine(r) \/ TakeEnd(r) \/ StreamEnds(r)

\* The tasks of a live core are scheduled (tokio) and its blocking pool archives.
\* Nothing is assumed of the CLI, of clients, which need not read, and of hooks.
Fairness ==
  \A r \in Runs : /\ WF_vars(Arm(r)) /\ WF_vars(Forwards(r))
                  /\ WF_vars(SaveText(r)) /\ WF_vars(Owner(r))

FairSpec == Spec /\ Fairness

-----------------------------------------------------------------------------
(* Properties.                                                             *)

\* Every variable has its type (the state of main.rs, router.rs and cs-claude).
TypeOK ==
  /\ conn \in [Conns -> {"new", "open", "hungup", "closed"}]
  /\ home \in [Runs -> Conns \cup {NoConn}]
  /\ pc \in [Runs -> Phases]
  /\ frame \in [Runs -> {"none", "spawned", "text", "info", "end", "lost"}]
  /\ cancels \in [Ids -> Runs \cup {NoRun}]
  /\ pids \in [Ids -> Runs \cup {NoRun}]
  /\ stop \subseteq Runs
  /\ signal \in [Conns -> [kind : {"STOP", "CONT"}, pid : Runs \cup {NoRun}]]
  /\ proc \in [Runs -> {"none", "running", "paused", "ok", "bad"}]
  /\ outcome \in [Runs -> {"none", "Ok", "Failed", "Stopped", "lost"}]
  /\ unread \in [Runs -> Seq(Lines)]
  /\ emitted \in [Runs -> 0..MaxLines]
  /\ job \in [Runs -> BOOLEAN]
  /\ saved \in [Runs -> Nat]
  /\ shown \in [Runs -> Nat]
  /\ events \in [Runs -> Seq({"started", "spawn_failed", "completed", "post_run_hook"})]
  /\ wire \in [Runs -> {"none", "ack", "streaming", "ended", "hook", "done"}]

ClientThere(r) == home[r] # NoConn /\ conn[home[r]] = "open"

\* As long as the client that started it is connected and each of its frames could be
\* written, a run whose process exists can be stopped: its own Notify is registered
\* under its id (register_cancel before the spawn, clear_cancel past the loop).
RunIsStoppable ==
  \A r \in Runs \ FailingRows :
    Alive(r) /\ ClientThere(r) /\ frame[r] # "lost" => cancels[r] = r

\* As long as the client is connected, what os.running_agents lists has not ended: its
\* handler or its forwarder is still at work.
NoGhostAgents ==
  \A r \in Runs \ FailingRows :
    cancels[r] = r /\ ClientThere(r) => pc[r] \in {"armed", "spawned"} \cup Streaming

\* A client told "done" finds the run unlisted and its completion archived, for
\* clear_cancel and record_run_event come before the last frame; and its process gone,
\* unless one of its frames could not be written.
DoneMeansGone ==
  \A r \in Runs \ FailingRows :
    wire[r] = "done" =>
      /\ cancels[r] # r /\ pids[r] # r
      /\ Alive(r) => frame[r] = "lost"
      /\ \E k \in DOMAIN events[r] : events[r][k] = "completed"

\* No assistant message reaches the client before the archive has it, and an aborted
\* forwarder leaves at most one message archived and not shown (the awaited pool job).
ArchiveAheadOfWire ==
  \A r \in Runs \ FailingRows : shown[r] <= saved[r] /\ saved[r] <= shown[r] + 1

\* The archived lifecycle of a run is one of three stories, or a beginning of one,
\* whatever is aborted and whenever the core exits.
LifecycleLog ==
  \A r \in Runs :
    events[r] \in {<<>>, <<"started">>, <<"started", "spawn_failed">>,
                   <<"started", "completed">>,
                   <<"started", "completed", "post_run_hook">>}

\* A run's frames come in the order ack, events, terminal event, hook, done, and
\* nothing follows "done".
WireOrder ==
  [][\A r \in Runs :
       \E a, b \in DOMAIN Stages : wire[r] = Stages[a] /\ wire'[r] = Stages[b] /\ a <= b
    ]_wire

\* The last frame of a run: "done", or the error of a failed spawn.
Told(r) == wire[r] = "done" \/ (wire[r] = "ended" /\ pc[r] = "over")

\* A stop request that found the run's signal ends its process, running or paused,
\* unless the core exits first, whoever reads or hangs; and if writes to the client
\* return, a client that stays is told the end of a stopped run or its hook is at work,
\* however the CLI behaves.
StopTakesEffect ==
  \A r \in Runs :
    /\ (r \in stop /\ Alive(r)) ~> (~Alive(r) \/ outcome[r] = "lost")
    /\ WF_vars(Writes(r)) =>
         ((r \in stop /\ ClientThere(r)) ~> (Told(r) \/ pc[r] = "hook" \/ ~ClientThere(r)))

Recorded == Runs \ FailingRows

runPhase ==
  [r \in Recorded |-> IF events[r] = <<>> THEN "fresh"
                      ELSE IF cancels[r] = r THEN "armed" ELSE "released"]

runProcess ==
  [r \in Recorded |-> IF proc[r] = "none" THEN "none"
                      ELSE IF Alive(r) THEN "alive" ELSE "dead"]

watchedRuns == {r \in Recorded : home[r] = NoConn \/ ClientThere(r)}
reportedRuns == {r \in Recorded : wire[r] = "done"}
brokenRuns == {r \in Recorded : frame[r] = "lost"}

Registry ==
  INSTANCE RunRegistry WITH
    Runs <- Recorded,
    phase <- runPhase,
    process <- runProcess,
    watched <- watchedRuns,
    reported <- reportedRuns,
    broken <- brokenRuns

\* Connections, tasks, pool jobs and streams together implement the registry's promise
\* for every run that has a session row.
ImplementsRegistry == Registry!Spec

-----------------------------------------------------------------------------
(* What a comment of the code says, and the code does not do.              *)

\* main.rs: the cancel signal is armed so that session.stop can kill this run, and a
\* frame that cannot be written means that the client went away.  The process of a
\* client that is there has its signal registered.
LiveRunsAreArmed ==
  \A r \in Runs :
    Alive(r) /\ outcome[r] = "none" /\ ClientThere(r) => cancels[Id(r)] = r
=============================================================================
