------------------------------ MODULE CoreWatch ------------------------------
(***************************************************************************)
(* How the app finds, starts and keeps its core: CoreLauncher, the         *)
(* connection's connect / attach / disconnect on the main actor, the       *)
(* watchdog that pings and reconnects, and the core's start, its socket    *)
(* file, its watch on the app that started it, and its end.                *)
(*                                                                         *)
(* The app may quit or be killed and is started again; cores outlive it.   *)
(* The socket file is known by the core that bound it.                     *)
(***************************************************************************)
EXTENDS Naturals, Sequences

CONSTANTS
  Cores,      \* processes there may be at once
  Links,      \* clients the app may have at once
  Callers,    \* tasks that call connect()
  Watchdog,   \* the one of them that looks after the core
  NoLink,     \* no client
  NoCore,     \* no core; as owner: started by nobody who watches it
  NoFile,     \* no socket file
  Stale,      \* a socket file nobody listens at
  MaxFaults   \* bound: crashes, late answers, users' clicks and lives of the app

ASSUME WatchAssumption ==
  /\ Watchdog \in Callers
  /\ NoLink \notin Links
  /\ Cores \cap {NoCore, NoFile, Stale} = {}
  /\ NoFile # Stale
  /\ NoCore \notin Nat
  /\ "user" \notin Callers
  /\ MaxFaults \in Nat

VARIABLES
  core,      \* a process: "dead", "starting", "unlinked", "serving", "stopping", "draining"
  owner,     \* the life of the app that started it, or NoCore
  socket,    \* the file: the core that bound it, Stale or NoFile
  life,      \* the app's lives so far
  faults,    \* faults and clicks so far
  status,    \* "offline", "connecting", "online" or "failed"
  client,    \* the connection's client
  stream,    \* the client whose events are consumed
  end,       \* the core a client is connected to, or NoCore
  pc,        \* a connect(): "idle", "dropping", "dialing", "waiting" or "loading"
  attempt,   \* its first or second attach()
  dialed,    \* the client it is making
  drops,     \* calls of disconnect() that wait for the client they close
  process,   \* the core the launcher started
  pinged,    \* the client the watchdog waits for, or NoLink
  stuck      \* the client whose actor is in a send() its core does not take, or NoLink

cores == <<core, owner, socket>>
connects == <<pc, attempt, dialed>>
conn == <<status, client, stream, end, drops, stuck>>
vars == <<core, owner, socket, life, faults, status, client, stream, end, pc, attempt,
          dialed, drops, process, pinged, stuck>>

Listening == {"serving", "stopping"}
User == "user"

\* At first there may be a core of a developer's, or the file of one that was killed.
Init ==
  /\ \E dev \in [Cores -> {"dead", "serving"}] :
       /\ \A c, d \in Cores : dev[c] = "serving" /\ dev[d] = "serving" => c = d
       /\ core = dev
       /\ \/ \E c \in Cores : dev[c] = "serving" /\ socket = c
          \/ (\A c \in Cores : dev[c] = "dead") /\ socket \in {NoFile, Stale}
  /\ owner = [c \in Cores |-> NoCore]
  /\ life = 1
  /\ faults = 0
  /\ status = "offline"
  /\ client = NoLink
  /\ stream = NoLink
  /\ end = [x \in Links |-> NoCore]
  /\ pc = [k \in Callers |-> "idle"]
  /\ attempt = [k \in Callers |-> 1]
  /\ dialed = [k \in Callers |-> NoLink]
  /\ drops = <<>>
  /\ process = NoCore
  /\ pinged = NoLink
  /\ stuck = NoLink

Fault == faults < MaxFaults /\ faults' = faults + 1

-----------------------------------------------------------------------------
(* The core.                                                               *)

\* It removes whatever socket file it finds ...
Unlink(c) ==
  /\ core[c] = "starting"
  /\ core' = [core EXCEPT ![c] = "unlinked"]
  /\ socket' = NoFile
  /\ UNCHANGED <<owner, life, faults, conn, connects, process, pinged>>

\* ... and binds a new one, unless another core has just done so.
Bind(c) ==
  /\ core[c] = "unlinked"
  /\ IF socket = NoFile
     THEN core' = [core EXCEPT ![c] = "serving"] /\ socket' = c
     ELSE core' = [core EXCEPT ![c] = "dead"] /\ UNCHANGED socket
  /\ UNCHANGED <<owner, life, faults, conn, connects, process, pinged>>

\* Mutant: the core ends with its app only when it is asked to stop anyway.
SeeParentGone_Never(c) ==
  /\ core[c] = "stopping"
  /\ core' = [core EXCEPT ![c] = "stopping"]
  /\ UNCHANGED <<owner, socket, life, faults, conn, connects, process, pinged>>

\* Ctrl-C, for one that runs in a terminal.
Interrupt(c) ==
  /\ Fault
  /\ core[c] = "serving"
  /\ core' = [core EXCEPT ![c] = "stopping"]
  /\ UNCHANGED <<owner, socket, life, conn, connects, process, pinged>>

\* Its standard input ends with the app that started it.
SeeParentGone(c) ==
  /\ core[c] = "serving"
  /\ owner[c] \notin {NoCore, life}
  /\ core' = [core EXCEPT ![c] = "stopping"]
  /\ UNCHANGED <<owner, socket, life, faults, conn, connects, process, pinged>>

\* main removes the socket file, whoever bound it, and returns: the listener and the
\* connections close.
CleanUp(c) ==
  /\ core[c] = "stopping"
  /\ core' = [core EXCEPT ![c] = "draining"]
  /\ socket' = NoFile
  /\ UNCHANGED <<owner, life, faults, conn, connects, process, pinged>>

\* The runtime has waited for the handlers on the blocking pool, if they ever return.
Exit(c) ==
  /\ core[c] = "draining"
  /\ core' = [core EXCEPT ![c] = "dead"]
  /\ UNCHANGED <<owner, socket, life, faults, conn, connects, process, pinged>>

\* Core c is gone without having cleaned up.
Dies(c) ==
  /\ core' = [core EXCEPT ![c] = "dead"]
  /\ socket' = IF socket = c THEN Stale ELSE socket

KillCore(c) ==
  /\ Fault
  /\ core[c] # "dead"
  /\ Dies(c)
  /\ UNCHANGED <<owner, life, conn, connects, process, pinged>>

-----------------------------------------------------------------------------
(* The client's actor.                                                     *)

\* Client x is connected to a core in one of these states.
Reaches(x, states) == end[x] # NoCore /\ core[end[x]] \in states

\* The core does not read, its socket is full: send() blocks the actor of the client, and
\* whoever waits for the client waits, its timers included.
Block ==
  /\ Fault
  /\ client # NoLink /\ stuck = NoLink
  /\ Reaches(client, Listening)
  /\ stuck' = client
  /\ UNCHANGED <<cores, life, status, client, stream, end, drops, connects, process, pinged>>

\* The core reads on, or its end of the socket is closed and send() fails.
Unblock ==
  /\ stuck # NoLink
  /\ stuck' = NoLink
  /\ UNCHANGED <<cores, life, faults, status, client, stream, end, drops, connects, process,
                 pinged>>

-----------------------------------------------------------------------------
(* disconnect(): it closes the client it finds and, when that has          *)
(* happened, forgets what is then the client.                              *)

Drop(who, x) == [who |-> who, link |-> x]

\* Without a client there is nothing to wait for.
Disconnect(who, then) ==
  /\ stream' = NoLink
  /\ IF client = NoLink
     THEN status' = then /\ UNCHANGED drops
     ELSE drops' = Append(drops, Drop(who, client)) /\ UNCHANGED status

\* What follows the wait, for the one whose turn it is.
Forget ==
  /\ drops # <<>>
  /\ Head(drops).link # stuck
  /\ drops' = Tail(drops)
  /\ end' = [x \in Links |-> IF x = Head(drops).link THEN NoCore ELSE end[x]]
  /\ client' = NoLink
  /\ status' = IF Head(drops).who = User THEN "offline" ELSE "connecting"
  /\ pc' = [k \in Callers |-> IF k = Head(drops).who THEN "dialing" ELSE pc[k]]
  /\ UNCHANGED <<cores, life, faults, stream, stuck, attempt, dialed, process, pinged>>

UserDisconnects ==
  /\ Fault
  /\ status = "online"
  /\ Disconnect(User, "offline")
  /\ UNCHANGED <<cores, life, client, end, stuck, connects, process, pinged>>

-----------------------------------------------------------------------------
(* connect().                                                              *)

InFlight == \E k \in Callers : pc[k] # "idle"

Begin(k) ==
  /\ pc' = [pc EXCEPT ![k] = IF client = NoLink THEN "dialing" ELSE "dropping"]
  /\ attempt' = [attempt EXCEPT ![k] = 1]
  /\ Disconnect(k, "connecting")
  /\ UNCHANGED <<cores, life, client, end, stuck, dialed, process>>

\* Mutant: nothing keeps a second connect() from starting.
Connect_Twice(k) ==
  /\ pc[k] = "idle"
  /\ Begin(k)

Connect(k) ==
  /\ ~InFlight
  /\ Begin(k)

\* A task connects at the app's start, or at a click.
Click(k) ==
  /\ k # Watchdog
  /\ Fault
  /\ Connect(k)
  /\ UNCHANGED pinged

Free(x) ==
  /\ end[x] = NoCore
  /\ x # client /\ x # stream /\ x # pinged
  /\ \A i \in 1..Len(drops) : drops[i].link # x
  /\ \A k \in Callers : dialed[k] # x

\* attach(): a new client connects, where somebody listens.
Dial(k, x) ==
  /\ pc[k] = "dialing"
  /\ dialed[k] = NoLink
  /\ Free(x)
  /\ socket \in Cores
  /\ dialed' = [dialed EXCEPT ![k] = x]
  /\ end' = [end EXCEPT ![x] = socket]
  /\ UNCHANGED <<cores, life, faults, status, client, stream, drops, stuck, pc, attempt,
                 process, pinged>>

\* It answers the ping and gives its configuration: the client is adopted.  A disconnect()
\* still pending has resumed long before, its client is closed and answers nobody else.
Adopt(k) ==
  /\ pc[k] = "dialing"
  /\ drops = <<>>
  /\ dialed[k] # NoLink
  /\ Reaches(dialed[k], {"serving"})
  /\ client' = dialed[k]
  /\ pc' = [pc EXCEPT ![k] = "loading"]
  /\ UNCHANGED <<cores, life, faults, status, stream, end, drops, stuck, attempt, dialed,
                 process, pinged>>

\* Mutant: the core started before goes on.
Spawn_Another(c) ==
  /\ core[c] = "dead"
  /\ core' = [core EXCEPT ![c] = "starting"]
  /\ owner' = [owner EXCEPT ![c] = life]
  /\ process' = c
  /\ UNCHANGED socket

\* The launcher ends the core it started before, and starts another.  One that only waits
\* for its blocking pool is in nobody's way any more.
Spawn(c) ==
  LET old == process IN
    /\ core[c] \in {"dead", "draining"} \/ c = old
    /\ core' = [d \in Cores |-> IF d = c THEN "starting" ELSE IF d = old THEN "dead"
                                ELSE core[d]]
    /\ owner' = [owner EXCEPT ![c] = life]
    /\ socket' = IF socket = old THEN Stale ELSE socket
    /\ process' = c

OwnAlive == process # NoCore /\ core[process] # "dead"

\* Mutant: the launcher starts a core only when its last one is gone.
AttachFails_Waits(k) ==
  /\ dialed' = [dialed EXCEPT ![k] = NoLink]
  /\ end' = [x \in Links |-> IF x = dialed[k] THEN NoCore ELSE end[x]]
  /\ \/ /\ attempt[k] = 1
        /\ ~OwnAlive
        /\ \E c \in Cores : Spawn(c)
        /\ pc' = [pc EXCEPT ![k] = "waiting"]
        /\ UNCHANGED status
     \/ /\ attempt[k] = 2 \/ OwnAlive
        /\ pc' = [pc EXCEPT ![k] = "idle"]
        /\ status' = IF status = "connecting" THEN "failed" ELSE status
        /\ UNCHANGED <<cores, process>>
  /\ UNCHANGED <<life, client, stream, drops, stuck, attempt, pinged>>

\* attach() failed: the first time a core is started, ending the one this app had.
AttachFails(k) ==
  /\ dialed' = [dialed EXCEPT ![k] = NoLink]
  /\ end' = [x \in Links |-> IF x = dialed[k] THEN NoCore ELSE end[x]]
  /\ \/ /\ attempt[k] = 1
        /\ \E c \in Cores : Spawn(c)
        /\ pc' = [pc EXCEPT ![k] = "waiting"]
        /\ UNCHANGED status
     \/ /\ attempt[k] = 2
        /\ pc' = [pc EXCEPT ![k] = "idle"]
        /\ status' = IF status = "connecting" THEN "failed" ELSE status
        /\ UNCHANGED <<cores, process>>
  /\ UNCHANGED <<life, client, stream, drops, stuck, attempt, pinged>>

\* Nobody listens at the file, or the core ends before it has answered.
Refused(k) ==
  /\ pc[k] = "dialing"
  /\ IF dialed[k] = NoLink THEN socket \notin Cores ELSE ~Reaches(dialed[k], Listening)
  /\ AttachFails(k)
  /\ UNCHANGED faults

\* The core is alive and does not answer in time.
AnswersLate(k) ==
  /\ pc[k] = "dialing"
  /\ dialed[k] # NoLink
  /\ Fault
  /\ AttachFails(k)

\* waitForSocket: a socket file, of whomever, ends the wait; so does a core that died, or
\* the timeout.
WaitEnds(k) ==
  /\ pc[k] = "waiting"
  /\ \/ /\ socket # NoFile
        /\ pc' = [pc EXCEPT ![k] = "dialing"]
        /\ attempt' = [attempt EXCEPT ![k] = 2]
        /\ UNCHANGED status
     \/ /\ socket = NoFile
        /\ pc' = [pc EXCEPT ![k] = "idle"]
        /\ status' = IF status = "connecting" THEN "failed" ELSE status
        /\ UNCHANGED attempt
  /\ UNCHANGED <<cores, life, faults, client, stream, end, drops, stuck, dialed, process,
                 pinged>>

\* The live data is loaded as far as it comes, the events are subscribed to.
Online(k) ==
  /\ pc[k] = "loading"
  /\ dialed[k] # stuck
  /\ stream' = dialed[k]
  /\ status' = "online"
  /\ pc' = [pc EXCEPT ![k] = "idle"]
  /\ dialed' = [dialed EXCEPT ![k] = NoLink]
  /\ UNCHANGED <<cores, life, faults, client, end, drops, stuck, attempt, process, pinged>>

\* The stream of events ends with its connection.
StreamEnds ==
  /\ stream \notin {NoLink, stuck}
  /\ ~Reaches(stream, Listening)
  /\ stream' = NoLink
  /\ status' = IF client = stream THEN "offline" ELSE status
  /\ UNCHANGED <<cores, life, faults, client, end, drops, stuck, connects, process, pinged>>

-----------------------------------------------------------------------------
(* The watchdog.                                                           *)

\* It sleeps three seconds, then looks: not online, or online without a client.
SeeOffline ==
  /\ pinged = NoLink
  /\ status # "online" \/ client = NoLink
  /\ Connect(Watchdog)
  /\ UNCHANGED <<faults, pinged>>

Ping ==
  /\ pinged = NoLink
  /\ pc[Watchdog] = "idle"
  /\ status = "online" /\ client # NoLink
  /\ pinged' = client
  /\ UNCHANGED <<cores, life, faults, conn, connects, process>>

Answered ==
  /\ pinged \notin {NoLink, stuck}
  /\ Reaches(pinged, Listening)
  /\ pinged' = NoLink
  /\ UNCHANGED <<cores, life, faults, conn, connects, process>>

\* No answer, or none before the timer of a client whose actor is free: it connects again,
\* if nobody else is about to.
Unanswered ==
  /\ pinged \notin {NoLink, stuck}
  /\ \/ /\ ~Reaches(pinged, Listening)
        /\ UNCHANGED faults
     \/ Fault
  /\ pinged' = NoLink
  /\ \/ Connect(Watchdog)
     \/ InFlight /\ UNCHANGED <<cores, life, conn, connects, process>>

-----------------------------------------------------------------------------
\* The app is killed, or quits and ends its core first, and is started again: its pipes
\* and its connections close.
Relaunch ==
  /\ Fault
  /\ life' = life + 1
  /\ \/ UNCHANGED <<core, socket>>
     \/ OwnAlive /\ Dies(process)
  /\ status' = "offline" /\ client' = NoLink /\ stream' = NoLink
  /\ end' = [x \in Links |-> NoCore]
  /\ pc' = [k \in Callers |-> "idle"]
  /\ attempt' = [k \in Callers |-> 1]
  /\ dialed' = [k \in Callers |-> NoLink]
  /\ drops' = <<>>
  /\ process' = NoCore /\ pinged' = NoLink /\ stuck' = NoLink
  /\ UNCHANGED owner

Core(c) == Unlink(c) \/ Bind(c) \/ SeeParentGone(c) \/ CleanUp(c)

Connecting(k) ==
  (\E x \in Links : Dial(k, x)) \/ Adopt(k) \/ Refused(k) \/ WaitEnds(k) \/ Online(k)

Watch == SeeOffline \/ Ping \/ Answered \/ Unanswered

Next ==
  \/ \E c \in Cores : Core(c) \/ Exit(c) \/ Interrupt(c) \/ KillCore(c)
  \/ \E k \in Callers : Connecting(k) \/ Click(k) \/ AnswersLate(k)
  \/ Watch \/ Forget \/ StreamEnds \/ UserDisconnects \/ Block \/ Unblock \/ Relaunch

Spec == Init /\ [][Next]_vars

\* A core gets through its start while the watchdog sleeps or the launcher waits.
InTime == \A k \in Callers : pc[k] \in {"idle", "waiting"}

\* The main actor, its timers and the cores run.  Nothing is asked of the blocking pool,
\* nor of a core that should read; send() returns when its peer has closed.
Fairness ==
  /\ \A c \in Cores : WF_vars(Core(c))
  /\ SF_vars(InTime /\ \E c \in Cores : Unlink(c))
  /\ SF_vars(InTime /\ \E c \in Cores : Bind(c))
  /\ \A k \in Callers : WF_vars(Connecting(k))
  /\ WF_vars(SeeOffline) /\ WF_vars(Ping) /\ WF_vars(Answered \/ Unanswered)
  /\ WF_vars(Forget) /\ WF_vars(StreamEnds)
  /\ WF_vars(Unblock /\ ~Reaches(stuck, Listening))

FairSpec == Spec /\ Fairness

-----------------------------------------------------------------------------
\* Every variable has its type, and the app has one core of its own at a time.
TypeOK ==
  /\ \A c, d \in Cores :
       core[c] # "dead" /\ core[d] # "dead" /\ owner[c] = life /\ owner[d] = life => c = d
  /\ core \in [Cores -> {"dead", "starting", "unlinked", "draining"} \cup Listening]
  /\ owner \in [Cores -> Nat \cup {NoCore}]
  /\ socket \in Cores \cup {NoFile, Stale}
  /\ life \in Nat /\ faults \in 0..MaxFaults
  /\ status \in {"offline", "connecting", "online", "failed"}
  /\ client \in Links \cup {NoLink}
  /\ stream \in Links \cup {NoLink}
  /\ end \in [Links -> Cores \cup {NoCore}]
  /\ pc \in [Callers -> {"idle", "dropping", "dialing", "waiting", "loading"}]
  /\ attempt \in [Callers -> {1, 2}]
  /\ dialed \in [Callers -> Links \cup {NoLink}]
  /\ drops \in Seq([who : Callers \cup {User}, link : Links \cup {NoLink}])
  /\ process \in Cores \cup {NoCore}
  /\ pinged \in Links \cup {NoLink}
  /\ stuck \in Links \cup {NoLink}

\* No connection is left open that nobody will close, and the events of the one in use
\* are consumed: several tasks connect and disconnect, each over several awaits
\* (connectInFlight, the order of the main actor).
LinkIsKept ==
  /\ \A x \in Links :
       end[x] # NoCore =>
         \/ x = client
         \/ \E k \in Callers : dialed[k] = x
         \/ \E i \in 1..Len(drops) : drops[i].link = x
  /\ status = "online" /\ client # NoLink /\ end[client] # NoCore /\ drops = <<>>
       => stream \in {client} \/ InFlight

\* However often the core, the app or a connection dies, as long as that ends, a core can
\* start and no send() blocks the client's actor for ever, the app ends up online with a
\* core that serves it ("Self-heal").  A core that stops reading is not healed: what would
\* notice it waits for the actor.
HasCore ==
  /\ status = "online"
  /\ client # NoLink
  /\ Reaches(client, {"serving"})

SelfHeals == []<>(stuck = NoLink) => <>[]HasCore

\* A core that outlives the app that started it, however that ended, gives up its listener,
\* its socket file and its connections.  Its process stays as long as a handler on its
\* blocking pool does.
NoOrphans ==
  \A c \in Cores :
    (core[c] # "dead" /\ owner[c] \notin {NoCore, life})
      ~> (core[c] \in {"dead", "draining"} \/ owner[c] = life)
=============================================================================
