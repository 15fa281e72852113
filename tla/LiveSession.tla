----------------------------- MODULE LiveSession -----------------------------
(***************************************************************************)
(* The app's picture of its runs (CoreConnection, on the main actor): the  *)
(* foreground conversation, the background tasks, and the frames of both,  *)
(* which arrive on one connection.                                         *)
(*                                                                         *)
(* The client's actor takes what arrives in order.  The acknowledgement of *)
(* a session.start resumes a caller that waits for the main actor; events  *)
(* go into a bounded stream, which drops the oldest, and are handled by    *)
(* another task that waits for the main actor.  Which of the two runs      *)
(* first is nobody's choice.                                               *)
(***************************************************************************)
EXTENDS Naturals, Sequences

CONSTANTS
  Foreground,  \* runs of the conversation
  Background,  \* runs dispatched as background tasks
  MaxTexts,    \* bound: assistant messages of a run
  MaxInFlight, \* bound: frames between the core and the client's actor
  BufCap,      \* eventBufferCapacity: how many events the app's stream keeps
  Nobody

Runs == Foreground \cup Background

ASSUME LiveAssumption ==
  /\ Foreground \cap Background = {}
  /\ MaxTexts \in Nat
  /\ MaxInFlight \in Nat
  /\ BufCap \in Nat \ {0}
  /\ Nobody \notin Runs

VARIABLES
  online,   \* the app is connected
  launch,   \* the app's session.start: "idle", "asked", "answered" (its caller waits
            \* for the main actor), "begun" or "refused"
  stage,    \* the core's stream of a run: "none", "running", "resulted", "failed", "over"
  told,     \* frames of a run's output sent: first its claude session id, then texts
  inbox,    \* frames the core has sent and the client's actor has not taken, in order
  buffer,   \* events in the app's stream, in order
  missed,   \* history: runs an end of which was dropped by the stream, or was handled
            \* between the reply and its caller's turn
  running,  \* runningSessionId
  chat,     \* the runs that wrote into the transcript
  resumeId, \* liveClaudeSessionId: whose conversation the next message continues
  tasks,    \* a background run's entry: "none", its status, or "dismissed"
  stops     \* the runs session.stop was sent for

vars == <<online, launch, stage, told, inbox, buffer, missed, running, chat, resumeId,
          tasks, stops>>
foreground == <<running, chat, resumeId>>
events == <<buffer, missed>>

Settled == {"done", "failed", "stopped"}
Ends == {"result", "stopped", "error", "done"}

Frame(r, kind) == [run |-> r, kind |-> kind]
Frames == [run : Runs, kind : {"ack", "session", "text"} \cup Ends]

Init ==
  /\ online = TRUE
  /\ launch = [r \in Runs |-> "idle"]
  /\ stage = [r \in Runs |-> "none"]
  /\ told = [r \in Runs |-> 0]
  /\ inbox = <<>>
  /\ buffer = <<>>
  /\ missed = {}
  /\ running = Nobody
  /\ chat = {}
  /\ resumeId = Nobody
  /\ tasks = [b \in Background |-> "none"]
  /\ stops = {}

-----------------------------------------------------------------------------
(* The user, on the main actor.                                            *)

\* A message or a skill; the views ask for no running session.  Nothing runs until the
\* core has answered.
StartSession(r, append) ==
  /\ online
  /\ running = Nobody
  /\ launch[r] = "idle"
  /\ append => resumeId # Nobody
  /\ launch' = [launch EXCEPT ![r] = "asked"]
  /\ chat' = IF append THEN chat \cup {r} ELSE {r}
  /\ resumeId' = IF append THEN resumeId ELSE Nobody
  /\ running' = Nobody
  /\ UNCHANGED <<online, stage, told, inbox, events, tasks, stops>>

DispatchTask(b) ==
  /\ online
  /\ launch[b] = "idle"
  /\ launch' = [launch EXCEPT ![b] = "asked"]
  /\ UNCHANGED <<online, stage, told, inbox, events, foreground, tasks, stops>>

StopSession ==
  /\ online
  /\ running # Nobody
  /\ stops' = stops \cup {running}
  /\ UNCHANGED <<online, launch, stage, told, inbox, events, foreground, tasks>>

\* The entry is settled at once, before the core has heard of it.
StopTask(b) ==
  /\ online
  /\ tasks[b] = "running"
  /\ stops' = stops \cup {b}
  /\ tasks' = [tasks EXCEPT ![b] = "stopped"]
  /\ UNCHANGED <<online, launch, stage, told, inbox, events, foreground>>

\* The view offers it for a settled task.
DismissTask(b) ==
  /\ tasks[b] \in Settled
  /\ tasks' = [tasks EXCEPT ![b] = "dismissed"]
  /\ UNCHANGED <<online, launch, stage, told, inbox, events, foreground, stops>>

NewChat ==
  /\ running = Nobody
  /\ resumeId # Nobody
  /\ chat' = {}
  /\ resumeId' = Nobody
  /\ UNCHANGED <<online, launch, stage, told, inbox, events, running, tasks, stops>>

\* The link is given up and everything learnt from it forgotten.  Calls that wait
\* fail; a caller already resumed still gets its turn.
Disconnect ==
  /\ online
  /\ online' = FALSE
  /\ launch' = [r \in Runs |-> IF launch[r] = "asked" THEN "refused" ELSE launch[r]]
  /\ inbox' = <<>>
  /\ buffer' = <<>>
  /\ running' = Nobody
  /\ chat' = {}
  /\ resumeId' = Nobody
  /\ tasks' = [b \in Background |-> "none"]
  /\ UNCHANGED <<stage, told, missed, stops>>

-----------------------------------------------------------------------------
(* The core: one stream of frames per run, in the order of SessionRuns.    *)

Sent(r, kind) ==
  /\ Len(inbox) < MaxInFlight
  /\ inbox' = Append(inbox, Frame(r, kind))

CoreStarts(r) ==
  /\ online
  /\ launch[r] # "idle"
  /\ stage[r] = "none"
  /\ stage' = [stage EXCEPT ![r] = "running"]
  /\ Sent(r, "ack")
  /\ UNCHANGED <<online, launch, told, events, foreground, tasks, stops>>

CoreTells(r) ==
  /\ online
  /\ stage[r] = "running"
  /\ told[r] <= MaxTexts
  /\ told' = [told EXCEPT ![r] = @ + 1]
  /\ Sent(r, IF told[r] = 0 THEN "session" ELSE "text")
  /\ UNCHANGED <<online, launch, stage, events, foreground, tasks, stops>>

\* How a run ends: with a result or not, stopped or failed or neither, and "done" last.
\* A CLI that cannot be spawned has an error and nothing else.
EndingStep(r, kind, next) ==
  \/ kind = "result" /\ stage[r] = "running" /\ next = "resulted"
  \/ kind = "stopped" /\ stage[r] \in {"running", "resulted"} /\ r \in stops /\ next = "failed"
  \/ kind = "error" /\ stage[r] \in {"running", "resulted"} /\ next = "failed"
  \/ kind = "error" /\ stage[r] = "running" /\ told[r] = 0 /\ next = "over"
  \/ kind = "done" /\ stage[r] \in {"running", "resulted", "failed"} /\ next = "over"

CoreEnds(r, kind, next) ==
  /\ online
  /\ EndingStep(r, kind, next)
  /\ stage' = [stage EXCEPT ![r] = next]
  /\ Sent(r, kind)
  /\ UNCHANGED <<online, launch, told, events, foreground, tasks, stops>>

-----------------------------------------------------------------------------
(* The IpcClient actor takes what arrives, in order: a reply for the       *)
(* caller that waits for it, an event for the stream the main actor reads. *)

TakeReply ==
  /\ inbox # <<>>
  /\ Head(inbox).kind = "ack"
  /\ inbox' = Tail(inbox)
  /\ launch' = [launch EXCEPT ![Head(inbox).run] = IF @ = "asked" THEN "answered" ELSE @]
  /\ UNCHANGED <<online, stage, told, events, foreground, tasks, stops>>

\* What is missed of run f.run when frame f is.
EndOf(f) == IF f.kind \in Ends THEN {f.run} ELSE {}

\* The stream keeps the newest events: a full one drops its oldest.
Yield ==
  /\ inbox # <<>>
  /\ Head(inbox).kind # "ack"
  /\ inbox' = Tail(inbox)
  /\ \/ /\ Len(buffer) < BufCap
        /\ buffer' = Append(buffer, Head(inbox))
        /\ UNCHANGED missed
     \/ /\ Len(buffer) >= BufCap
        /\ buffer' = Append(Tail(buffer), Head(inbox))
        /\ missed' = missed \cup EndOf(Head(buffer))
  /\ UNCHANGED <<online, launch, stage, told, foreground, tasks, stops>>

\* The bus's events go into the same stream: with them it may be full, and drop a run's
\* frame, at any time.
Displace ==
  /\ buffer # <<>>
  /\ buffer' = Tail(buffer)
  /\ missed' = missed \cup EndOf(Head(buffer))
  /\ UNCHANGED <<online, launch, stage, told, inbox, foreground, tasks, stops>>

\* The request times out; the run may start all the same, and nobody owns it.
GiveUp(r) ==
  /\ launch[r] = "asked"
  /\ launch' = [launch EXCEPT ![r] = "refused"]
  /\ UNCHANGED <<online, stage, told, inbox, events, foreground, tasks, stops>>

-----------------------------------------------------------------------------
(* The main actor, one job at a time.                                      *)

\* The caller of session.start goes on.
Continue(r) ==
  /\ launch[r] = "answered"
  /\ launch' = [launch EXCEPT ![r] = "begun"]
  /\ IF r \in Background
     THEN tasks' = [tasks EXCEPT ![r] = "running"] /\ UNCHANGED running
     ELSE running' = r /\ UNCHANGED tasks
  /\ UNCHANGED <<online, stage, told, inbox, events, chat, resumeId, stops>>

\* Mutants: the status is the frame's kind; a stopped task is settled again; an error
\* leaves a task as it is.
Settle_Raw(status, kind) == IF kind \in Ends THEN kind ELSE status

Settle_Again(status, kind) ==
  CASE kind \in {"result", "done"} -> "done"
    [] kind = "error" -> "failed"
    [] kind = "stopped" -> "stopped"
    [] OTHER -> status

Settle_NoError(status, kind) ==
  CASE kind \in {"result", "done"} /\ status = "running" -> "done"
    [] kind = "stopped" -> "stopped"
    [] OTHER -> status

\* A task's status after a frame of its run.
Settle(status, kind) ==
  CASE kind \in {"result", "done"} /\ status = "running" -> "done"
    [] kind = "error" -> "failed"
    [] kind = "stopped" -> "stopped"
    [] OTHER -> status

\* A frame of a run that is in the list of background tasks.
Listed(f) == f.run \in Background /\ tasks[f.run] \notin {"none", "dismissed"}

UpdateTask(f) ==
  /\ tasks' = [tasks EXCEPT ![f.run] = Settle(@, f.kind)]
  /\ UNCHANGED foreground

\* What the transcript shows of a frame; of a result only its cost, if it has one.
Shows(f) ==
  \/ f.kind \in {"text", "result", "stopped", "error"} /\ chat' = chat \cup {f.run}
  \/ f.kind \in {"session", "result", "done"} /\ UNCHANGED chat

\* Mutant: a run is ended by "done" alone, which a failed spawn does not have.
UpdateChat_DoneOnly(f) ==
  /\ running' = IF f.kind = "done" THEN Nobody ELSE running
  /\ Shows(f)
  /\ resumeId' = IF f.kind = "session" THEN f.run ELSE resumeId
  /\ UNCHANGED tasks

\* Any other frame is the foreground's, whosever it is.
UpdateChat(f) ==
  /\ running' = IF f.kind \in Ends THEN Nobody ELSE running
  /\ Shows(f)
  /\ resumeId' = IF f.kind = "session" THEN f.run ELSE resumeId
  /\ UNCHANGED tasks

HandleEvent ==
  LET f == Head(buffer) IN
  /\ buffer # <<>>
  /\ buffer' = Tail(buffer)
  /\ IF Listed(f) THEN UpdateTask(f) ELSE UpdateChat(f)
  /\ missed' = IF launch[f.run] = "answered" THEN missed \cup EndOf(f) ELSE missed
  /\ UNCHANGED <<online, launch, stage, told, inbox, stops>>

-----------------------------------------------------------------------------
User ==
  \/ \E r \in Foreground, append \in BOOLEAN : StartSession(r, append)
  \/ \E b \in Background : DispatchTask(b) \/ StopTask(b) \/ DismissTask(b)
  \/ StopSession \/ NewChat \/ Disconnect

Core ==
  \E r \in Runs :
    \/ CoreStarts(r) \/ CoreTells(r)
    \/ \E kind \in Ends, next \in {"resulted", "failed", "over"} : CoreEnds(r, kind, next)

App ==
  \/ TakeReply \/ Yield \/ Displace \/ HandleEvent
  \/ \E r \in Runs : GiveUp(r) \/ Continue(r)

Next == User \/ Core \/ App

Spec == Init /\ [][Next]_vars

\* The main actor runs; nothing is asked of the user, the core or the client's actor.
Fairness == WF_vars(HandleEvent)

FairSpec == Spec /\ Fairness

-----------------------------------------------------------------------------
\* Every variable has its type.
TypeOK ==
  /\ online \in BOOLEAN
  /\ launch \in [Runs -> {"idle", "asked", "answered", "begun", "refused"}]
  /\ stage \in [Runs -> {"none", "running", "resulted", "failed", "over"}]
  /\ told \in [Runs -> 0..MaxTexts + 1]
  /\ inbox \in Seq(Frames)
  /\ buffer \in Seq(Frames)
  /\ missed \subseteq Runs
  /\ running \in Runs \cup {Nobody}
  /\ chat \subseteq Runs
  /\ resumeId \in Runs \cup {Nobody}
  /\ tasks \in [Background -> {"none", "running", "dismissed"} \cup Settled]
  /\ stops \subseteq Runs

Has(queue, r, kinds) == \E i \in 1..Len(queue) : queue[i].run = r /\ queue[i].kind \in kinds

\* One of these frames of run r is still to be handled.
OnItsWay(r, kinds) == Has(inbox, r, kinds) \/ Has(buffer, r, kinds)

\* The app shows run r as running, in the conversation or in the list of tasks.
Shown(r) == running = r \/ (r \in Background /\ tasks[r] = "running")

\* What the user stopped is never shown as running or done again, though its reply, its
\* result or both may still wait for the main actor when the stop button is pressed.
StopIsFinal ==
  [][\A b \in Background :
       tasks[b] = "stopped" => tasks'[b] \in {"stopped", "failed", "dismissed", "none"}]_vars

\* A run that is over in the core and still shown as running has an end to come.  Only
\* two things leave one shown for ever: an end that was dropped by the full stream, or
\* was handled between the reply and its caller's turn.
ShownIsLive ==
  online => \A r \in Runs :
    Shown(r) /\ stage[r] = "over" => OnItsWay(r, Ends) \/ r \in missed

\* However a run ends, an ending frame that is still to come settles its task, or frees
\* the conversation for the next message, if the client's actor is not stuck in a send
\* and no end of the run is missed.
EndIsSeen ==
  WF_vars(TakeReply \/ Yield) =>
    \A r \in Runs : (Shown(r) /\ OnItsWay(r, Ends)) ~> (~Shown(r) \/ r \in missed)

\* What the comment in handleEvent says: a background task's events do not touch the
\* foreground conversation.
ForegroundUndisturbed ==
  [][buffer # <<>> /\ HandleEvent /\ Head(buffer).run \in Background
     => UNCHANGED foreground]_vars
=============================================================================
