# A verification model of ClaudeStudio's core

ClaudeStudio is a macOS app (Swift, `src/app`) in front of a local core process
(Rust, `src/core`). The app starts sessions of the `claude` CLI through the core,
over a Unix socket with length-prefixed MessagePack frames; the core streams the
CLI's output back and archives it for search. These modules model the parts of
that system where several actors meet: the tasks of one run, the two ends of the
socket, the stream of events, the main actor of the app, the writers of the
archive and of the state files, and the two processes that look after each other.
TLC checks them on small instances; TLAPS proves their safety properties for every
instance.

Paths below are relative to the repository; `main.rs`, `router.rs` are those of
`src/core/crates/cs-cli/src/`. `PROJECT.json` maps every definition to its lines.

## 1. Inventory

| component | state it keeps | operations | correct when | here |
|---|---|---|---|---|
| **run lifecycle** (`main.rs` session.start and forwarder, `router.rs` cancels/pids, `cs-claude/src/lib.rs` owner) | the `cancels` and `pids` maps; per run a handler, a forwarder, an owner task and a CLI process | session.start, stop, pause, resume, os.running_agents; output line, exit, kill; hang-up, core exit | a run with a client, whose frames could be written, can be stopped while its process exists; no run is listed that nobody works on; archive, frames and events are in order | `SessionRuns` |
| **request link** (`IpcClient.swift`; `main.rs` connection loop and deadline) | the client's table of pending continuations and timers; the frames in both directions; the request being served | call, timeout, reply, teardown, disconnect; read, dispatch, deadline, respond | each caller is resumed once, with its own answer or a failure; nobody waits on a dead link | `RequestLink` |
| **event stream** (`EventBus` of `cs-agentic-os`, `main.rs` events.subscribe, `IpcClient` event buffer) | a broadcast ring of 1024, one forwarder a subscription, a client buffer of 256 | publish, subscribe, forward, lag, yield, handle | what is not lost arrives once and in order; what is lost is counted | `EventStream` |
| **core launch and watchdog** (`CoreLauncher`, `AppState`, `CoreConnection.connect`, `main.rs` start and end) | the core's process and socket file; the app's client, status, connect in flight | launch, wait, attach, disconnect, ping, reconnect, quit | no connection is left behind, no core in the way; the app comes back online | `CoreWatch` |
| **state files** (notes, rules, settings, memory, CLI configuration, A2A inbox, worktrees) | JSON and markdown files, the configuration under its mutex | read-modify-write by handlers on the blocking pool; append and drain; count and add | no confirmed update is lost by a retry, and by a failure only as stated; file and memory agree; what overlaps may lose is bounded | `StateFiles` |
| **live sessions of the app** (`CoreConnection.swift`) | `runningSessionId`, transcript, id to resume, `backgroundTasks` | start, dispatch, stop, dismiss, new chat, disconnect, each streamed event | tasks settle and stay so; the conversation is freed at its run's end, unless the stream dropped it, and not touched by tasks | `LiveSession` |
| **archive and index** (`cs-sessions`, `router.rs` record_* and backfill) | rows, keyword index, vectors with the tag of their model, the embedder slot | record message, tool call and output; swap of the embedder; backfills; restart | vectors of two models never mix under one tag; what should have a vector gets one | `Archive` |
| **queue order** (`router.rs` queue_dag_payload) | none; a loop over the tasks that remain | queue.dag | each task after what it depends on; only what cannot run is left out | `QueueDag` |
| everything else | none of its own, or presentation | several hundred request handlers that read files, run git or the CLI and format JSON; views; embedders; wire encoding; ssh argument vectors; telemetry; voice; libraries and scripts | | not modelled, see section 6 |

**Who talks to whom.** The app's views call `CoreClient`, a wrapper per method
around `IpcClient.call`. `IpcClient` is an actor: a call registers a continuation,
arms a 10 s timer and writes a frame. The core accepts each connection into a task
that serves one request at a time under a deadline (15, 60 or 420 s by method).
`session.start` is served outside the deadline: the handler creates the session
row, registers the run's cancel signal, acknowledges, and leaves a *forwarder* task
that launches the CLI and turns its events into frames, archive rows and bus
events. `events.subscribe` leaves a forwarder too, from the bus to the same writer.
The CLI is owned by another task, which waits for its exit or for the
signal. A connection that closes aborts its forwarders. On the app's side replies
resume their callers and events go, through a bounded buffer, to a consumer task;
both then wait for the main actor, in no promised order. A watchdog pings the core
every 3 s and reconnects, starting the core if nobody listens; the core watches
its standard input and ends with the app that started it.

**What is hard here.** (a) Tasks aborted at any await. (b) A request given up by
the client, by the deadline, or by both, whose work goes on. (c) Frames that
overtake the knowledge of the id that tells whose they are. (d) Blocking work:
`send` on an actor, SQLite, git. (e) Multi-statement writes cut by a process
exit. (f) An embedder exchanged under its users. (g) Files read, changed and
written back by handlers that overlap. (h) Two processes that start, find, lose
and end each other through one file name. (i) Bounded queues in a row. `PROJECT.json`
lists 40 such places under `hazards`, each at its line, with the properties that
watch it or the reason why none does.

## 2. Modules

| module | role |
|---|---|
| `RunRegistry` | what the registry of running agents promises: armed before spawn, held while the process exists unless the run's stream breaks, released once, reported finished only after release |
| `SessionRuns` | the run lifecycle as the code has it; implements `RunRegistry` |
| `RemoteCall` | what a call promises: one result, an answer only after the request was carried out, carried out at most once |
| `RequestLink` | both ends of one connection; implements `RemoteCall` |
| `Feed` | what a live stream promises: some of what was sent after one joined, in order, and nothing else |
| `EventStream` | ring, forwarder, socket, buffer and consumer; implements `Feed` twice, for the bus's events and for the frames of runs that share the connection |
| `CoreWatch` | the app's connection, launcher and watchdog, and the core's start and end |
| `StateFiles` | the router's files and the handlers that change them |
| `LiveSession` | the app's main actor between user, replies and events |
| `Archive` | the writers of the archive |
| `QueueDag` | the loop of queue.dag |
| `*Proofs` | the invariants and theorems about each of these |
| `MC*` | small instances and symmetries for TLC |

The state machines are separate because the code joins them by narrow
interfaces: `SessionRuns` has frames leave in order (what `RequestLink` and
`EventStream` show of a connection), `LiveSession` takes for granted only the order of
one run's frames (`WireOrder` of `SessionRuns`, the `Run` stream of `EventStream`),
`Archive` takes for granted that one run's archive writes are awaited
(`ArchiveAheadOfWire`), `StateFiles` that a handler's work outlives its deadline
(`RequestLink`), and `CoreWatch` sees of a connection whether its other end lives.

### SessionRuns

| model | code |
|---|---|
| `conn`, `home` | connections and the connection a run was started on |
| `pc[r]`, `frame[r]` | where handler, then forwarder, of run `r` is: `row`, `armed` (main.rs 261–341), `spawned`, `streaming`, `saving`, `writing`, `hook`, `hooked`, `finishing` (main.rs 392–512); `aborted` by `ForwarderGuard` |
| `cancels`, `pids` | the router's maps, by session id |
| `stop[r]`, `signal[c]` | the `Notify` permit; a pause or resume between reading the pid and running `kill` |
| `proc`, `outcome`, `unread`, `emitted` | CLI process, what its owner reports, lines not yet forwarded |
| `job`, `saved`, `events` | archive write on the blocking pool, messages saved, lifecycle rows |
| `shown`, `wire` | messages and the last kind of frame the client got |

An action is a stretch between two awaits, with everything the code does in it.
Choices made in the abstraction:

* Adding a worktree and parsing the arguments change no state of this module. A
  request with an empty prompt changes nothing and is left out.
* `Launch` contains the spawn, the "spawned" event and the registration of the pid,
  which no other task can observe apart.
* Frames and requests that reached the socket before a hang-up are taken before it;
  they commute with it.
* Best-effort database writes succeed when the session row exists. A row that cannot be
  inserted (`FailingRows`) leaves the run with the empty id (`NoId`).
* On a graceful exit a pool job may still finish: this is `SaveText` before `CoreExit`.
* A frame is written, or its write fails (`WriteFails`): with a client that left, and as well
  with one that is there, when the frame is longer than 16 MiB or cannot be encoded (cs-ipc
  71–74, 162). Only the small frame that follows the spawn cannot fail so. The forwarder's loop
  ends either way (main.rs 491–497), and `frame[r]` is "lost" from then on. A hook's frame that
  cannot be written is passed over.
* A write may never return, a hook may never end: both are steps without fairness.
* Not modelled: reuse of a pid by the operating system, a full stderr pipe, a
  grandchild that keeps stdout open. They are listed as hazards or in section 6.

### RequestLink

`up`, `call`, `resumes`, `pending`, `timer`, `writing` are the client's actor: whether
the link is up, the state of each call, how often its continuation was resumed, the
pending table, each timer (`armed`, `fired` = past its cancellation check and waiting
for the actor, ...), the call inside the blocking `send`. `toCore` and `toApp` are
the socket's two directions. `server`, `serving`, `work`, `dropped` are the core's
connection task, the request in dispatch, what became of each request's work, and
the requests dropped at their deadline whose pool work goes on. `Commits` are the
requests to `git.commit`, which runs two children inline.

* One client, one connection: reconnecting a used client and one-way notifications are
  left out, and `session.start` is in `SessionRuns`.
* `SendBuffer` counts frames where the socket counts bytes.
* The ratio of real times is abstracted: timer and deadline may both pass at any
  moment. In the code the client always gives up first (10 s against 15, 60, 420 s),
  so an answer of a handler near its deadline never reaches its caller.
* Whether closing a socket with unread data resets the peer is left to the platform:
  each end sees the close at some later moment.

### LiveSession

`launch[r]` is how far the app's own code for a run is (asked, acknowledged, going on,
given up), `stage[r]` how far the core is, `told` what the core has sent. `inbox` are the
frames on their way to the client's actor, `buffer` those in the app's stream, which keeps
the newest `BufCap` (256 in the code) and drops the oldest. `running`, `chat`, `resumeId`, `tasks` are `runningSessionId`, the
runs that wrote into the conversation, the conversation to resume, and the status of
each background task. Replies and events arrive on one socket but reach the main
actor by two routes: the client's actor takes the inbox in order (`TakeReply`, `Yield`), but
the caller that a reply resumes (`Continue`) and the task that reads the stream
(`HandleEvent`) then run in any order. The bus's events share the stream, and may fill it at
any time; `Displace` is the drop they cause. `missed` is a history: the runs of which an
ending frame was dropped, or handled between the reply and its caller's turn. What a view shows of a run is reduced
to whether it wrote. Adopting an old conversation, streamed deltas, sub-agents and
caches are left out. `Disconnect` ends the behaviour; reconnecting belongs to
`CoreWatch`.

### Archive

`slot` is the router's pair of embedder and tag; `loader`, `old` the start-up task and
the rows it found; `rows`, `owner`, `keyword`, `output`, `stored` the tables: rows in
order of insertion, whose they are, which have a keyword entry, which tool calls have
their output, and the vector of each row under each tag; `run`, `record`, `job` each
run, the message it is recording, and the backfill after it (and the core's own).
A vector keeps who made it and whether the text included the tool's output.
Statements fail (`StoreFails`, `JobFails`, at most `MaxFaults` times): `record_message` then
returns with a row that has no keyword entry or no vector, or with none at all (cs-sessions
752–761, router.rs 5801–5816), and a backfill passes over the row it could not embed
or store, which `skipped` remembers. A tool call whose insert fails leaves nothing. Clock steps in `created_at` are ignored: the order of rows is the
order of insertion. `Restart` is both a kill and a fresh start on the same database.
File diffs, usage rows and the two searches are not modelled.

### EventStream

`published` is the bus: events are numbers, and a broadcast ring is a cursor that
still holds the newest `RingCap`. Per connection, `stage`, `joined`, `next`, `held` and
`lagged` are the subscription's receiver and forwarder, `wire` the socket and the
client's inbound queue, which carry the acknowledgement, events and the frames of runs
(`written`) in one order, `buffer` and `dropped` the stream of `yieldEvent` and
`droppedEventCount`, `seen` what the consumer handled. The receiver is made before the
acknowledgement (`Subscribe`, `Acknowledge`); a lagging receiver goes on with the oldest event,
and nobody is told what it skipped (`Lag`). `Cut` is a core that ends or a link that
fails, `Leave` the app's own disconnect. A connection subscribes once, as the app does.

### CoreWatch

`core`, `owner` and `socket` are the processes, the life of the app that started each, and
the socket file, known by the core that bound it. `status`, `client`, `stream`, `end` and
`drops` are the connection on the main actor: `drops` are the calls of `disconnect()`
that wait for the client they close and forget, when their turn comes, whatever is then
the client. `pc`, `attempt`, `dialed` are a `connect()` in flight, by the watchdog or
by a click; `process` is the launcher's child, `pinged` the watchdog's probe, `stuck` the client whose
actor is in a `send()` that its core does not take (IpcClient.swift 235, `Block`): until it
returns (`Unblock`) no ping of that client ends, its timer included, `disconnect()` of it
waits, and its stream does not end.
`Relaunch` is the app killed, or quitting in order, and started again.

* Waiting for the socket file takes any file for the new core's (CoreLauncher.swift 144): one
  left by a killed core ends the wait at once, the second attach fails and the status is
  "failed" until the watchdog's next look. The model has this, and `SelfHeals` covers it.
* `Adopt` assumes that a `disconnect()` pending since before the attach has resumed by
  the time the core has answered three requests: its client closes without waiting for
  anybody.
* A core whose main returned has closed its listener and connections and removed the socket
  file, and waits for its blocking pool ("draining"). It need never exit: a handler on the pool
  may not return (router.rs 57–61, 1059–1064). Another core may take its place in `Cores`,
  with which it shares only the database.
* Cores may be killed, or interrupted in their terminal (`Interrupt`), and a send may block, at
  most `MaxFaults` times together with late answers, clicks and restarts of the app. Locating
  the binary is left out.

### StateFiles

A file is a state ("none", "empty", "whole", "torn") and the set of jobs whose effect is
in it. `pc`, `told` and `met` are a handler's progress, what its caller has, and the jobs
at work in its place while it was. `std::fs::write` is `Truncate` and then `WriteBack` or
`WriteFails`; `atomic_write` does both on a sibling that all its users share, and then
renames. A write into a file that was opened earlier goes over what another put there,
whose end may stick out (`Contents`). A reader that cannot parse JSON goes on with an empty
map (`Parsed`). `config.set` holds its mutex over the save. The inbox is appended
to piece by piece, and a drain removes the file whatever is in it. Worktrees are counted
against the limit a request names; requests of `Unlimited`, which name none, and the worktrees
of session.start (main.rs 253–261) count nothing (`CountWorktrees`). A save of settings.json
that fails always leaves it cut off; the failures before the truncation, which leave it
whole, are those of any refused change. `GiveUp` leaves the work
running; `Crash` leaves it half done, and a settings.json that does not parse is
replaced by the defaults.

One workload at a time (`Workloads`): jobs of different files share nothing, so each kind
is explored alone, the senders with the drains.

### QueueDag

`Visit` is one step of `retain` over the tasks that remain, `EndPass` the decision to go
over them again. Tasks are known by their place in the request; ids may repeat or be
empty, dependencies may dangle or go in circles.

## 3. What TLC checks

| run | instance | shows |
|---|---|---|
| `runs` | 2 runs, one without a session row, 2 clients, 1 line each | `RunIsStoppable`, `NoGhostAgents`, `ImplementsRegistry` |
| `one_run` | 1 run, 2 clients that stop, pause, resume and leave, 2 lines of either kind, a hook | `TypeOK`, `DoneMeansGone`, `ArchiveAheadOfWire`, `LifecycleLog`, `WireOrder`; under fairness `StopTakesEffect`: a stop that found the signal ends the process, whoever reads; and where writes to the client return, a client that stays is told the end, or its hook is at work |
| `link` | 2 calls, one of them `git.commit`, room for 1 frame | `TypeOK`, `ResumedOnce`, `NobodyLeftWaiting`, `ImplementsRemoteCall`; `CallersReturn` (every call returns, with a core that may be wedged) and `RequestsTakenUp` (the connection goes on although a handler never ends) |
| `events` | 1 connection, 4 events, 2 frames of a run, ring 2, buffer 2 | `TypeOK`, `DropsAreCounted`, `KeptUpMissesNothing`, `ImplementsFeed`; `EventsArrive` under fairness |
| `watch` | 2 cores, 2 clients, watchdog and a click, 3 faults | `TypeOK` (and one living core an app), `LinkIsKept`; `SelfHeals` and `NoOrphans` under fairness |
| `files` | 3 jobs on one file, or 2 senders and 2 drains, or 3 worktrees at a limit of 2, all or two of them with the limit; 1 death of the core | `TypeOK`, `UpdatesAreKept`, `ConfigIsCoherent`, `MailIsAccountedFor`, `LimitNeedsOverlap` |
| `live` | 1 conversation run, 1 task, 2 frames in flight, a stream of 2 | `TypeOK`, `StopIsFinal`, `ShownIsLive`: a run shown after its end has an end to come, or one was dropped or came too early; `EndIsSeen` under fairness |
| `archive` | 2 runs, 1 message, 1 tool call, 3 backfills, batches of 1, 1 death of the core, 1 failing statement | `TypeOK`, `NoMixedTags`, `RunIsIndexed`, `LoadedIsIndexed`, `KeywordLossHasCause`; `EndedIsIndexed` under fairness |
| `dag` | every queue of up to 3 tasks over 3 names | `OrderIsRight` |

**Bounds and why they are enough.** Two runs are the fewest for which one can touch the
other's registry entry, and two clients for which one leaves while the other looks.
Runs meet only in the two maps, by id; a run with the empty id is to the other what any
run with an id of its own is, and a third run adds no new pair. One line shows the
position of a write against its frame; two of two kinds show reordering. Two calls are a
late answer and the call it could be mistaken for; room for one frame makes the second
block the actor. Connections share only the number of published events, so one shows
what a connection does; four events through a ring of two lag by one and by two, and with
two run frames fill a buffer of two from both sources. Two cores are one and its
successor, two clients an old connection and a new one, and three faults let one thing
fail while the recovery from another is under way and a user clicks. Three jobs are one
that overlaps two others which follow each other; two senders and two drains each meet
one of their own and one of the other kind; three requests pass a limit of two together, and one without a limit stands beside two with it. One
conversation run and one task are the two destinations a frame can have; two frames in
flight and two in the stream let an acknowledgement wait with events before it and events of either
run behind, and a third event drop the oldest. One message and one tool call
are the two kinds of row, and fill a batch of 1 of each kind. Three tasks are a circle
with one waiting behind it. `MaxEvents`, `MaxFrames`, `MaxFaults`, `MaxCrashes`, `MaxTexts`,
`MaxInFlight`, `MaxLines`, `MaxTasks` and `Workloads` bound what exists only to be bounded; the
theorems have them as parameters. Deadlock is not checked: every model ends, when its
runs, calls, jobs, events or faults are used up or both ends have gone.

### Disagreements found

Each is a run that stops with a counterexample, and a `finding` quoting the line it
disagrees with.

| run | property | what happens |
|---|---|---|
| `armed` | `LiveRunsAreArmed` | a frame cannot be encoded; with its client connected, the forwarder disarms the run with its process alive, and starts the post-run hook |
| `half_write` | `NoHalfWrite` | `git.commit` is dropped at its deadline after `git add` |
| `live_leak` | `ForegroundUndisturbed` | frames of a task that is not listed go into the conversation |

The models have further behaviour of which no property speaks:

* The forwarder of a client that left is aborted, and its run stays in the list of running
  agents after its process ended, against router.rs 246 (`Hangup` of `SessionRuns`;
  `NoGhostAgents` speaks of runs with a client).
* An ending frame handled before the reply's caller noted the run (CoreConnection.swift 122, 809),
  or dropped by the full stream (IpcClient.swift 78, 357–366), leaves a run that is over as the
  running one, or a task as "running" (737). `ShownIsLive` says that there is no third way.
* After a frame that could not be written a client is told "done" with the run's process
  alive. `DoneMeansGone` and `RunIsStoppable` except such a run, `RunRegistry` has it as `Break`.
* Worktrees are limited only for requests that send max_parallel, to that number of worktrees with the
  main one; the comment at router.rs 5741–5742 has a default of 4 and a limit on additional ones.
* A core whose app died gives up its socket, but its process stays while a handler on its
  blocking pool does, against main.rs 141–148 (an orphan must not linger).
* A tool call embedded before its output is stored is not embedded again, so its output is
  not found by search (router.rs 5897–5908).
* Two runs without a session row share the empty id, and the second takes the first's
  signal (router.rs 5783).
* A message whose keyword entry was cut by a death of the core or a failing statement never gets
  one; `KeywordLossHasCause` says how many.
* `AppConfig::save` truncates settings.json before it writes, although config.set saves
  before it commits so that a failure costs nothing (router.rs 1401–1402, 1418): a full
  disk leaves a file that does not parse. `ConfigIsCoherent` excepts a torn file.
* Writers of one JSON or memory file that overlap lose updates, up to the whole file: one reads it
  between the truncation and the write of another. `UpdatesAreKept` says that overlapping is the
  only way, together with a write that fails or is cut.

Some passing properties name the limit beyond which they fail: `CallersReturn` that the
actor leaves `send` again and again (IpcClient.swift 235 blocks it, and with it every
timer, while the core does not read), `LoadedIsIndexed` and `RunIsIndexed` that the archive
fits one batch of 10,000 rows a kind (main.rs 126), `EventsArrive` and
`KeptUpMissesNothing` that nothing is lost to a full ring or buffer, `SelfHeals` that no
`send` holds the client's actor for ever: a core that stops reading while the app writes is
not noticed by the watchdog, whose ping, timer and `disconnect()` wait for that actor.

## 4. Fairness

Only what the code schedules is fair, and nothing is asked of what it cannot control.

* `SessionRuns!FairSpec`: handlers, forwarders and owners are tokio tasks and archive
  jobs run on the blocking pool, so a step that waits for nobody and stays possible is taken. A
  CLI need not write or exit, a hook need not end, a client need not read, stop or stay: no step that writes
  a frame is fair. A stop must end a CLI that would never have ended, and does so by a kill;
  for what the client is told, `StopTakesEffect` has the return of the writes as its own premise.
* `RequestLink!ClientSpec`: the client's actor, timers and read thread. Nothing of the core:
  it may be wedged. `RequestsTakenUp` adds, as its own premise, the connection task and the
  deadline (`CoreFairness`). Nothing of the handlers: they may never end.
* `EventStream!FairSpec`: the forwarder's task, the read thread with the client's actor, and the
  consumer on the main actor. Nothing of publishers, runs or the acknowledgement.
* `CoreWatch!FairSpec`: the main actor with its timers, the actors of clients that are not in
  a `send()`, and the processes until they have closed their sockets. Nothing of the blocking
  pool (`Exit`), nor of a core that should read (`Unblock`): only a `send()` to a closed peer
  returns. `SelfHeals` has as its own premise that no `send()` is held for ever. Weak fairness of
  each core and each `connect()`, and one strong assumption, `InTime`: a core that starts
  gets through removing and binding its socket while the launcher waits for it (8 s)
  or the watchdog sleeps (3 s), at some time if it is started again and again. Without it a core that is
  always slower than its launcher is killed and replaced for ever.
* `LiveSession!FairSpec`: the task on the main actor that reads the stream. Nothing of the core
  or user: `EndIsSeen` begins with a frame that is on its way, and has as its own premise the
  client's actor, which a `send()` may hold.
* `Archive!FairSpec`: the blocking pool, as far as the steps of the runs' backfills. Nothing of the
  start-up task and the model's download, of clients or of the CLI.

All but `InTime` are weak: each of these steps, once possible, is withdrawn only by taking
it or by an end (abort, exit) that the property excludes. `StateFiles` and `QueueDag` state
no fairness: their properties are all invariants.

## 5. What TLAPS proves

For every number of runs, connections, events, calls, jobs, rows and tasks, from the
constants' named assumptions only.

**SessionRuns.** None of the safety properties is inductive. `RunIsStoppable` needs to know
that a forwarder past its loop left it for one of two reasons: the owner's report, or a
failed write, of which `frame` keeps the trace ("lost"). `DoneMeansGone` needs the same of the last frame;
`ArchiveAheadOfWire` that at most one archive job is out and its forwarder waits for it,
unless it was aborted. The invariant `IInv` adds six parts to `TypeOK`, each with a lemma
of its own that goes through the actions: `Placed` (a run has a connection from its request on, an
aborted run's is closed), `Processes` (a process exists only after its launch; past the loop it is
alive only without its client or with a frame lost), `Registered` (the two maps follow the forwarder, except an aborted
one), `Logged` (which lifecycle events a run has at each point), `Reported` (what "done" implies) and
`Archived` (how far the archive is ahead at each point). `Invariant` puts
them together, and `Stoppable`, `NoGhosts`, `DoneIsGone`, `ArchiveIsAhead` and
`LogTellsAStory` follow from it without looking at a step. `Refinement` shows
with the same invariant that every step is a step of `RunRegistry` or leaves its
variables alone: arming is `Arm`, launching `Spawn`, the forwarder's `clear_cancel`
`Release`, or `Break` where a frame was lost, the last frame `Report`, a client that leaves `Unwatch`, an exit `Lose`.

Two more parts are about the client. `Wired` ties the last frame sent to the forwarder's place
and says that once it has taken the terminal event nothing is left to read, from which
`FramesInOrder` (`WireOrder`) follows step by step. `Attended` says that whatever a task waits for
exists: a streaming forwarder has a process, a saving one its pool job. With it
`RunsNeverStall`: as long as a connected client has not been told the end, one of the run's
tasks has a step that waits for nothing, or the run waits for a CLI process that nobody has
stopped.

**RequestLink.** The invariant is `TypeOK /\ NobodyLeftWaiting /\ ResumedOnce /\ Queued /\
Truthful`. `Queued` says that a request on its way was not yet taken up, is in the socket
once and is not the one still being written; `Truthful` that a response on its way to the app
is about a request that was carried out. With it a late reply can only
find its own call or none, and the refinement to `RemoteCall` goes through. What a caller may
rely on without fairness is `CallsAreKept`: whoever waits has a timer that was not cancelled
(`EveryCallIsTimed`), and on an open link its request or reply is in one of the four places it
can be (`NothingIsLost`). `RepliedOnce` says there is one reply at most; and
`HalfWritesAreCommits` how far the disagreement `NoHalfWrite` goes: git.commit alone can be
dropped half done, and what it staged stays staged.

**EventStream.** `IInv` says, for each connection: where each part of the subscription is
against `published` (`Placed`), that what is known came from the ring or a run
(`AllKnown`), that along buffer, socket and held event the numbers of each kind only grow, and are
beyond those seen (`InOrder`), that there is one acknowledgement (`OneAck`), that the frames
made are those queued, handled, skipped or dropped (`Counted`), and that without a loss
every event taken is in one of its places (`Complete`). `DropsCounted` and `KeptUp` follow, and
`Refinement` maps a frame handled to `Give`, of the bus's feed or of the run's, everything the other
feed does to a stutter. Three theorems carry `EventsArrive` as far as safety can: an event that
is due to a client without a loss was handled or is on its way (`EventsKept`), until it is handled one
of its four readers has a step (`EventsGoOn`), and each such step lowers the number of steps
left (`DeliveryEnds`, with `StepsLeft` weighing a frame by the places before it).

**CoreWatch.** `LinkIsKept` is not inductive: it needs that one `connect()` runs at a time
(`OneConnects`), that each waiting `disconnect()` closes the client there is, and waits
once for each `connect()` (`Dropping`), and that a `connect()` past its own `disconnect()` has no client but
the one it makes, with a status that is not "online", so that no user can disconnect beneath it
(`Dialing`). `TypeCorrect` contains that an app never has two living cores, by `Owned`: a living
core of this life is the launcher's. `OnlineMeansConnected` says what "online" stands for: an open
client with a consumer, or a `disconnect()` about to close it; so the watchdog never meets "online"
without a client. `ConnectsAreWoken` says that whoever waits for a `disconnect()` is waited
for by it, without which `connectInFlight` would stay set for ever; `SocketIsAnswered` that a socket file
that is a core's has that core listening behind it. `OnlyTheClientSticks` says that a blocking
`send()` holds the client in use and never one that an attach is making.

**StateFiles.** `UpdatesAreKept` needs to know what the jobs of a place have met
(`Meeting`: two at work at once have met each other), that without a meeting or a cut what was
confirmed is in the file (`Kept`) or with the one that writes it (`InHand`); `ConfigIsCoherent` the
two parts `ConfigFile` and `InForce`; `MailIsAccountedFor` where a message is at each point of its sender
(`MailPlaced`) and what a drain may have (`MailTaken`); `LimitNeedsOverlap` that the
worktrees of requests with a limit, with those being made, pass it by fewer than the requests with a limit
that met (`TreesFit`, by cardinality), whatever the others create beside them. `AtomicWriteHolds` states what the rename is for: without an overlap
the CLI's configuration is never seen empty or cut off, through failed writes and kills. The
same is false of the files written in place.

**LiveSession.** `StopFinal` needs that a task has an entry only once the caller of its session.start
has gone on (`Entered`): no late reply can make a stopped task run again. A second invariant
`IInv` says that nothing is sent for a run not asked for (`Started`), that a caller whose run has
started has its reply on its way (`Replied`) and ahead of the run's other frames
(`AckFirst`), that with the link up a task whose caller has gone on has its entry
(`Separate`), and that a run shown after its end is owed an ending frame (`Owed`). From it, and
from where each step moves each frame (`QueueGoesOn`: nothing overtakes, and only the oldest frame of the
stream is dropped, which `missed` then tells):

- `EndsKept`: the end of a run that is shown as running stays on its way until the app has seen it,
  or the stream drops it.
- `ShownEnds`: a run that is over and still shown has an end on its way, unless one of its ends
  was dropped or handled between the reply and the caller's turn. Those are the two ways in
  which a run stays shown for ever, and there is no third.
- `Windows`: `ForegroundUndisturbed` fails in three cases only: the task's caller was answered and
  has not had its turn, its request was given up, or the task was dismissed.

**Archive.** `NeverMixed` is unconditional: it needs that embedder and tag are always
exchanged and read together (`TagsTogether`), in the slot, in each job and in each
recording. `SwapIndexes` and `RunsIndexed` speak of archives that fit one batch, and say so in
their own premise (`Fits`, which a state with more rows has lost for good: `FitsBefore`). They need to say how far each backfill is: every row of a
kind it has passed has a vector or is one it failed on, except rows added since its scan (`CoreProgress`,
`RunProgress`), and for a run whose job began before the swap, that its rows predate the swap and
are the start-up backfill's to embed (`Early`). `KeywordsLost` counts the messages without a
keyword entry against the deaths of the process and the failed statements. `EndedGetsThere` needs no bound on the archive:
a run that ended has a job with a step to take, five steps end the job, and no other job, swap or
run can add to them.

**QueueDag.** `OrderCorrect` rests on two facts: a set of tasks that wait for each other or for
nobody is never entered (`StuckStay`), and what a pass without progress has seen and left could
not start (`PassedOver`). `LoopDescends` gives the loop's measure: the tasks remaining, whether the
pass made progress, the tasks it has yet to visit and whether the loop runs, in that order; each step
lowers it, and until the loop stops there is a step.

**Only model-checked:** the eight liveness properties (`StopTakesEffect`, `CallersReturn`,
`RequestsTakenUp`, `EventsArrive`, `SelfHeals`, `NoOrphans`, `EndIsSeen`, `EndedIsIndexed`):
fairness and ENABLED are out of the prover's reach. What they rest on is proved where it is safety: that
what has to arrive is not lost, that somebody has the next step, and that steps do not go round. That
"has a step" means ENABLED is not proved; it is read off the guards. No recursion over data
is proved about: the models have none.

## 6. Not modelled

* Handlers that read, run git or the CLI, and format an answer: they change nothing, or
  write one file by one of the patterns of `StateFiles`.
* Pure functions in one pass: `ContextAssembler`, the hook matcher, queue.order, the permission
  tables, the wire encoding, ssh argument vectors. A test reaches them.
* `Supervisor`, `PriorityQueue` and `McpManager`: the core constructs none of them.
* Voice: its states follow callbacks of the platform's recognizer, audio engine and
  synthesizer, whose order `src/` does not determine.
* What the platform does: reuse of a pid between reading it and `kill`, SIGPIPE, the
  bytes a socket or a pipe holds (a CLI that fills its stderr pipe), a grandchild that keeps
  stdout open, clocks that step, ratios of real times (in the code the client always gives
  up before the deadline).
* `session.start`'s head-of-line blocking of its connection (main.rs 261): it needs `SessionRuns` and
  `RequestLink` composed, and their product is beyond TLC's reach on useful instances.
* The Python probes of `src/test-harness` and the libraries of tasks and definitions: tests
  and data.
