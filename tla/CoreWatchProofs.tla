--------------------------- MODULE CoreWatchProofs ---------------------------
(***************************************************************************)
(* Proofs about CoreWatch, for any number of cores, clients, callers of    *)
(* connect() and faults: the type invariant, with it that an app never has *)
(* two cores of its own, that no connection is left behind, and what is    *)
(* behind the status "online", a connect() that waits and a socket file.   *)
(***************************************************************************)
EXTENDS CoreWatch, SequenceTheorems, TLAPS

USE WatchAssumption DEF cores, connects, conn

DropRecords == [who : Callers \cup {User}, link : Links \cup {NoLink}]

\* The parts of TypeOK that say of what type a variable is.
CoreTypes ==
  /\ core \in [Cores -> {"dead", "starting", "unlinked", "draining"} \cup Listening]
  /\ owner \in [Cores -> Nat \cup {NoCore}]
  /\ socket \in Cores \cup {NoFile, Stale}
  /\ life \in Nat /\ faults \in 0..MaxFaults
  /\ process \in Cores \cup {NoCore}

AppTypes ==
  /\ status \in {"offline", "connecting", "online", "failed"}
  /\ client \in Links \cup {NoLink}
  /\ stream \in Links \cup {NoLink}
  /\ end \in [Links -> Cores \cup {NoCore}]
  /\ pc \in [Callers -> {"idle", "dropping", "dialing", "waiting", "loading"}]
  /\ attempt \in [Callers -> {1, 2}]
  /\ dialed \in [Callers -> Links \cup {NoLink}]
  /\ drops \in Seq(DropRecords)
  /\ pinged \in Links \cup {NoLink}
  /\ stuck \in Links \cup {NoLink}

\* A core is of this life of the app or of an earlier one; one of this life is dead or
\* the launcher's.
Owned ==
  \A c \in Cores :
    /\ owner[c] \in Nat => owner[c] <= life
    /\ core[c] # "dead" /\ owner[c] = life => process = c

\* connectInFlight: one connect() at a time.
OneConnects ==
  \A k, l \in Callers : pc[k] # "idle" /\ pc[l] # "idle" => k = l

\* A disconnect() that waits closes the client there is, unless that is forgotten
\* already; that of a connect() waits once.
Dropping ==
  \A i \in 1..Len(drops) :
    /\ drops[i].link \in Links
    /\ client \in {NoLink, drops[i].link}
    /\ drops[i].who \in Callers =>
         /\ pc[drops[i].who] = "dropping"
         /\ \A j \in 1..Len(drops) : drops[j].who = drops[i].who => j = i

\* A connect() past its disconnect() has no client but the one it makes.
Dialing ==
  \A k \in Callers :
    /\ pc[k] \in {"dialing", "waiting"} => client = NoLink /\ status # "online"
    /\ pc[k] = "loading" =>
         client = dialed[k] /\ client \in Links /\ drops = <<>> /\ status # "online"
    /\ dialed[k] # NoLink => pc[k] \in {"dialing", "loading"}

IInv ==
  /\ CoreTypes /\ AppTypes /\ Owned
  /\ OneConnects /\ Dropping /\ Dialing
  /\ LinkIsKept

-----------------------------------------------------------------------------
(* The types.                                                              *)

LEMMA CoreTypesStep == CoreTypes /\ AppTypes /\ [Next]_vars => CoreTypes'
<1> SUFFICES ASSUME CoreTypes, AppTypes, [Next]_vars PROVE CoreTypes'
  OBVIOUS
<1> USE DEF CoreTypes, AppTypes, Listening
<1>1. ASSUME NEW c \in Cores, Core(c) PROVE CoreTypes'
  BY <1>1 DEF Core, Unlink, Bind, SeeParentGone, CleanUp
<1>2. ASSUME NEW c \in Cores, Exit(c) \/ Interrupt(c) \/ KillCore(c) PROVE CoreTypes'
  BY <1>2 DEF Exit, Interrupt, KillCore, Dies, Fault
<1>3. ASSUME NEW k \in Callers, AttachFails(k), faults' \in 0..MaxFaults PROVE CoreTypes'
  <2>1. ASSUME NEW c \in Cores, Spawn(c), life' = life PROVE CoreTypes'
    BY <1>3, <2>1 DEF Spawn
  <2>2. life' = life
    BY <1>3 DEF AttachFails
  <2>3. CASE UNCHANGED <<core, owner, socket, process>>
    BY <1>3, <2>2, <2>3
  <2> QED
    BY <1>3, <2>1, <2>2, <2>3 DEF AttachFails
<1>4. ASSUME NEW k \in Callers, Refused(k) PROVE CoreTypes'
  BY <1>4, <1>3 DEF Refused
<1>5. ASSUME NEW k \in Callers, AnswersLate(k) PROVE CoreTypes'
  BY <1>5, <1>3 DEF AnswersLate, Fault
<1>6. ASSUME NEW k \in Callers, Connecting(k), ~Refused(k) PROVE CoreTypes'
  BY <1>6 DEF Connecting, Dial, Adopt, WaitEnds, Online
<1>7. ASSUME NEW k \in Callers, Connect(k), faults' \in 0..MaxFaults PROVE CoreTypes'
  BY <1>7 DEF Connect, Begin, Disconnect
<1>8. ASSUME NEW k \in Callers, Click(k) PROVE CoreTypes'
  BY <1>8, <1>7 DEF Click, Fault
<1>9. CASE Watch
  BY <1>9, <1>7 DEF Watch, SeeOffline, Ping, Answered, Unanswered, Fault
<1>10. CASE Forget \/ StreamEnds \/ UserDisconnects \/ Block \/ Unblock
  BY <1>10 DEF Forget, StreamEnds, UserDisconnects, Disconnect, Block, Unblock, Fault
<1>11. CASE Relaunch
  BY <1>11 DEF Relaunch, OwnAlive, Dies, Fault
<1>12. CASE UNCHANGED vars
  BY <1>12 DEF vars
<1> QED
  BY <1>1, <1>2, <1>4, <1>5, <1>6, <1>8, <1>9, <1>10, <1>11, <1>12 DEF Next

\* A disconnect() keeps the types.
LEMMA DisconnectTypes ==
  ASSUME AppTypes, NEW who \in Callers \cup {User},
         NEW then \in {"offline", "connecting"}, Disconnect(who, then)
  PROVE  /\ stream' = NoLink
         /\ status' \in {"offline", "connecting", "online", "failed"}
         /\ drops' \in Seq(DropRecords)
<1>1. CASE client = NoLink
  BY <1>1 DEF AppTypes, Disconnect
<1>2. CASE client # NoLink
  <2>1. Drop(who, client) \in DropRecords
    BY DEF AppTypes, Drop, DropRecords
  <2> QED
    BY <1>2, <2>1 DEF AppTypes, Disconnect
<1> QED
  BY <1>1, <1>2

LEMMA AppTypesStep == CoreTypes /\ AppTypes /\ [Next]_vars => AppTypes'
<1> SUFFICES ASSUME CoreTypes, AppTypes, [Next]_vars PROVE AppTypes'
  OBVIOUS
<1> USE DEF CoreTypes, AppTypes
<1>1. ASSUME NEW c \in Cores, Core(c) PROVE AppTypes'
  BY <1>1 DEF Core, Unlink, Bind, SeeParentGone, CleanUp
<1>2. ASSUME NEW c \in Cores, Exit(c) \/ Interrupt(c) \/ KillCore(c) PROVE AppTypes'
  BY <1>2 DEF Exit, Interrupt, KillCore
<1>3. ASSUME NEW k \in Callers, AttachFails(k) PROVE AppTypes'
  BY <1>3 DEF AttachFails
<1>4. ASSUME NEW k \in Callers, NEW x \in Links, Dial(k, x) PROVE AppTypes'
  BY <1>4 DEF Dial
<1>5. ASSUME NEW k \in Callers, Connecting(k) PROVE AppTypes'
  <2>1. ASSUME Adopt(k) PROVE AppTypes'
    BY <2>1 DEF Adopt
  <2>2. ASSUME WaitEnds(k) PROVE AppTypes'
    BY <2>2 DEF WaitEnds
  <2>3. ASSUME Online(k) PROVE AppTypes'
    BY <2>3 DEF Online
  <2>4. ASSUME Refused(k) PROVE AppTypes'
    BY <2>4, <1>3 DEF Refused
  <2> QED
    BY <1>5, <1>4, <2>1, <2>2, <2>3, <2>4 DEF Connecting
<1>6. ASSUME NEW k \in Callers, AnswersLate(k) PROVE AppTypes'
  BY <1>6, <1>3 DEF AnswersLate
<1>7. ASSUME NEW k \in Callers, Connect(k), pinged' \in Links \cup {NoLink} PROVE AppTypes'
  <2>1. stream' = NoLink /\ status' \in {"offline", "connecting", "online", "failed"}
          /\ drops' \in Seq(DropRecords)
    BY <1>7, DisconnectTypes DEF Connect, Begin
  <2> QED
    BY <1>7, <2>1 DEF Connect, Begin
<1>8. ASSUME NEW k \in Callers, Click(k) PROVE AppTypes'
  BY <1>8, <1>7 DEF Click
<1>9. CASE Watch
  BY <1>9, <1>7 DEF Watch, SeeOffline, Ping, Answered, Unanswered
<1>10. CASE Forget
  <2>1. drops # <<>> /\ drops \in Seq(DropRecords) /\ drops' = Tail(drops)
    BY <1>10 DEF Forget
  <2>2. drops' \in Seq(DropRecords)
    BY <2>1, HeadTailProperties
  <2> QED
    BY <1>10, <2>2 DEF Forget
<1>11. CASE UserDisconnects
  <2>1. stream' = NoLink /\ status' \in {"offline", "connecting", "online", "failed"}
          /\ drops' \in Seq(DropRecords)
    BY <1>11, DisconnectTypes DEF UserDisconnects
  <2> QED
    BY <1>11, <2>1 DEF UserDisconnects
<1>12. CASE StreamEnds \/ Block \/ Unblock
  BY <1>12 DEF StreamEnds, Block, Unblock
<1>13. CASE Relaunch
  BY <1>13 DEF Relaunch
<1>14. CASE UNCHANGED vars
  BY <1>14 DEF vars
<1> QED
  BY <1>1, <1>2, <1>5, <1>6, <1>8, <1>9, <1>10, <1>11, <1>12, <1>13, <1>14 DEF Next

-----------------------------------------------------------------------------
(* One core of its own.                                                    *)

LEMMA OwnedStep == CoreTypes /\ AppTypes /\ Owned /\ [Next]_vars => Owned'
<1> SUFFICES ASSUME CoreTypes, AppTypes, Owned, [Next]_vars PROVE Owned'
  OBVIOUS
<1> USE DEF CoreTypes, AppTypes, Owned
<1>1. ASSUME NEW c \in Cores, Core(c) PROVE Owned'
  BY <1>1 DEF Core, Unlink, Bind, SeeParentGone, CleanUp, Listening
<1>2. ASSUME NEW c \in Cores, Exit(c) \/ Interrupt(c) \/ KillCore(c) PROVE Owned'
  BY <1>2 DEF Exit, Interrupt, KillCore, Dies
<1>3. ASSUME NEW c \in Cores, Spawn(c), life' = life PROVE Owned'
  BY <1>3 DEF Spawn
<1>4. ASSUME NEW k \in Callers, AttachFails(k) PROVE Owned'
  BY <1>4, <1>3 DEF AttachFails
<1>5. ASSUME NEW k \in Callers, Connecting(k) PROVE Owned'
  BY <1>5, <1>4 DEF Connecting, Dial, Adopt, Refused, WaitEnds, Online
<1>6. ASSUME NEW k \in Callers, AnswersLate(k) PROVE Owned'
  BY <1>6, <1>4 DEF AnswersLate
<1>7. ASSUME NEW k \in Callers, Connect(k) PROVE Owned'
  BY <1>7 DEF Connect, Begin
<1>8. ASSUME NEW k \in Callers, Click(k) PROVE Owned'
  BY <1>8, <1>7 DEF Click
<1>9. CASE Watch
  BY <1>9, <1>7 DEF Watch, SeeOffline, Ping, Answered, Unanswered
<1>10. CASE Forget \/ StreamEnds \/ UserDisconnects \/ Block \/ Unblock
  BY <1>10 DEF Forget, StreamEnds, UserDisconnects, Block, Unblock
<1>11. CASE Relaunch
  BY <1>11 DEF Relaunch, OwnAlive, Dies
<1>12. CASE UNCHANGED vars
  BY <1>12 DEF vars
<1> QED
  BY <1>1, <1>2, <1>5, <1>6, <1>8, <1>9, <1>10, <1>11, <1>12 DEF Next

-----------------------------------------------------------------------------
(* The app's connection.                                                   *)

app == <<status, client, stream, end, drops, pc, dialed>>

\* attach() of a connect() fails.
Fails(k) == pc[k] = "dialing" /\ AttachFails(k)

AppStep ==
  \/ Forget \/ UserDisconnects \/ StreamEnds \/ Relaunch
  \/ \E k \in Callers :
       \/ Connect(k) \/ Fails(k) \/ Adopt(k) \/ WaitEnds(k) \/ Online(k)
       \/ \E x \in Links : Dial(k, x)

\* These steps move the connection, and no others.
LEMMA AppSteps == [Next]_vars => AppStep \/ UNCHANGED app
<1> SUFFICES ASSUME [Next]_vars PROVE AppStep \/ UNCHANGED app
  OBVIOUS
<1>1. ASSUME NEW c \in Cores, Core(c) \/ Exit(c) \/ Interrupt(c) \/ KillCore(c)
      PROVE  UNCHANGED app
  BY <1>1 DEF Core, Unlink, Bind, SeeParentGone, CleanUp, Exit, Interrupt, KillCore, app
<1>2. ASSUME NEW k \in Callers, Connecting(k) \/ Click(k) \/ AnswersLate(k) PROVE AppStep
  BY <1>2 DEF Connecting, Refused, Click, AnswersLate, AppStep, Fails
<1>3. CASE Watch
  BY <1>3 DEF Watch, SeeOffline, Ping, Answered, Unanswered, AppStep, app
<1>4. CASE Forget \/ StreamEnds \/ UserDisconnects \/ Relaunch
  BY <1>4 DEF AppStep
<1>5. CASE Block \/ Unblock \/ UNCHANGED vars
  BY <1>5 DEF Block, Unblock, vars, app
<1> QED
  BY <1>1, <1>2, <1>3, <1>4, <1>5 DEF Next

\* What a disconnect() that has to wait does to the queue of those that wait.
LEMMA DropsAppended ==
  ASSUME AppTypes, NEW who \in Callers \cup {User}, NEW then, Disconnect(who, then),
         client # NoLink
  PROVE  /\ Len(drops') = Len(drops) + 1
         /\ \A i \in 1..Len(drops) : drops'[i] = drops[i]
         /\ drops'[Len(drops) + 1].who = who
         /\ drops'[Len(drops) + 1].link = client
         /\ Len(drops) \in Nat
<1>1. drops \in Seq(DropRecords) /\ Drop(who, client) \in DropRecords
  BY DEF AppTypes, Drop, DropRecords
<1>2. drops' = Append(drops, Drop(who, client))
  BY DEF Disconnect
<1>3. Len(drops') = Len(drops) + 1 /\ Len(drops) \in Nat
        /\ (\A i \in 1..Len(drops) : drops'[i] = drops[i])
        /\ drops'[Len(drops) + 1] = Drop(who, client)
  BY <1>1, <1>2, AppendProperties
<1> QED
  BY <1>3 DEF Drop

\* ... and the queue after the first of them has had its turn.
LEMMA DropsShortened ==
  ASSUME AppTypes, Forget
  PROVE  /\ Len(drops) \in Nat \ {0}
         /\ Len(drops') = Len(drops) - 1
         /\ \A i \in 1..Len(drops') : drops'[i] = drops[i + 1]
         /\ Head(drops) = drops[1]
<1>1. drops \in Seq(DropRecords) /\ drops # <<>> /\ drops' = Tail(drops)
  BY DEF AppTypes, Forget
<1> QED
  BY <1>1, HeadTailProperties, EmptySeq, LenProperties

LEMMA OneConnectsStep ==
  ASSUME AppTypes, OneConnects, Dropping, [Next]_vars
  PROVE  OneConnects'
<1> USE DEF AppTypes, OneConnects
<1>1. CASE Forget
  <2>1. \A k \in Callers : k = Head(drops).who => pc[k] = "dropping"
    BY <1>1, DropsShortened DEF Dropping
  <2> QED
    BY <1>1, <2>1 DEF Forget
<1>2. CASE UserDisconnects \/ StreamEnds \/ Relaunch
  BY <1>2 DEF UserDisconnects, StreamEnds, Relaunch
<1>3. ASSUME NEW k \in Callers, Connect(k) PROVE OneConnects'
  BY <1>3 DEF Connect, Begin, InFlight
<1>4. ASSUME NEW k \in Callers, Fails(k) PROVE OneConnects'
  BY <1>4 DEF Fails, AttachFails
<1>5. ASSUME NEW k \in Callers, Adopt(k) \/ WaitEnds(k) \/ Online(k) PROVE OneConnects'
  BY <1>5 DEF Adopt, WaitEnds, Online
<1>6. ASSUME NEW k \in Callers, NEW x \in Links, Dial(k, x) PROVE OneConnects'
  BY <1>6 DEF Dial
<1>7. CASE UNCHANGED app
  BY <1>7 DEF app
<1> QED
  BY <1>1, <1>2, <1>3, <1>4, <1>5, <1>6, <1>7, AppSteps DEF AppStep

LEMMA DroppingStep ==
  ASSUME AppTypes, OneConnects, Dropping, Dialing, [Next]_vars
  PROVE  Dropping'
<1> USE DEF AppTypes, Dropping
<1>1. CASE Forget
  <2> SUFFICES ASSUME NEW i \in 1..Len(drops')
               PROVE  /\ drops'[i].link \in Links
                      /\ client' \in {NoLink, drops'[i].link}
                      /\ drops'[i].who \in Callers =>
                           /\ pc'[drops'[i].who] = "dropping"
                           /\ \A j \in 1..Len(drops') : drops'[j].who = drops'[i].who => j = i
    OBVIOUS
  <2>1. i + 1 \in 1..Len(drops) /\ drops'[i] = drops[i + 1] /\ 1 \in 1..Len(drops)
          /\ Head(drops) = drops[1] /\ i + 1 # 1
    BY <1>1, DropsShortened
  <2>2. client' = NoLink
    BY <1>1 DEF Forget
  <2>3. ASSUME drops'[i].who \in Callers
        PROVE  /\ pc'[drops'[i].who] = "dropping"
               /\ \A j \in 1..Len(drops') : drops'[j].who = drops'[i].who => j = i
    <3>1. Head(drops).who # drops'[i].who /\ pc[drops'[i].who] = "dropping"
      BY <2>1, <2>3
    <3>2. pc'[drops'[i].who] = "dropping"
      BY <1>1, <2>3, <3>1 DEF Forget
    <3>3. ASSUME NEW j \in 1..Len(drops'), drops'[j].who = drops'[i].who
          PROVE  j = i
      <4>1. j + 1 \in 1..Len(drops) /\ drops'[j] = drops[j + 1] /\ j \in Int /\ i \in Int
        BY <1>1, DropsShortened
      <4>2. j + 1 = i + 1
        BY <2>1, <2>3, <3>3, <4>1
      <4> QED
        BY <4>1, <4>2
    <3> QED
      BY <3>2, <3>3
  <2> QED
    BY <2>1, <2>2, <2>3
<1>2. ASSUME NEW who \in Callers \cup {User}, NEW then, Disconnect(who, then),
             client' = client,
             \A k \in Callers : pc'[k] = pc[k] \/ (k = who /\ pc[k] = "idle"),
             who \in Callers => pc[who] = "idle" /\ (client # NoLink => pc'[who] = "dropping")
      PROVE  Dropping'
  <2>1. CASE client = NoLink
    BY <1>2, <2>1 DEF Disconnect
  <2>2. CASE client # NoLink
    <3>1. Len(drops') = Len(drops) + 1 /\ Len(drops) \in Nat
            /\ (\A i \in 1..Len(drops) : drops'[i] = drops[i])
            /\ drops'[Len(drops) + 1].who = who /\ drops'[Len(drops) + 1].link = client
      BY <1>2, <2>2, DropsAppended
    <3>2. \A i \in 1..Len(drops) : drops[i].who \in Callers => drops[i].who # who
      BY <1>2
    <3>3. client \in Links
      BY <2>2
    <3>4. \A i \in 1..Len(drops') : i \in 1..Len(drops) \/ i = Len(drops) + 1
      BY <3>1
    <3> QED
      BY <1>2, <3>1, <3>2, <3>3, <3>4
  <2> QED
    BY <2>1, <2>2
<1>3. CASE UserDisconnects
  BY <1>3, <1>2 DEF UserDisconnects, User
<1>4. CASE StreamEnds
  BY <1>4 DEF StreamEnds
<1>5. CASE Relaunch
  <2>1. Len(drops') = 0
    BY <1>5 DEF Relaunch
  <2> QED
    BY <2>1
<1>6. ASSUME NEW k \in Callers, Connect(k) PROVE Dropping'
  <2>1. pc[k] = "idle" /\ client' = client /\ Disconnect(k, "connecting")
          /\ pc' = [pc EXCEPT ![k] = IF client = NoLink THEN "dialing" ELSE "dropping"]
    BY <1>6 DEF Connect, Begin, InFlight
  <2> QED
    BY <2>1, <1>2
<1>7. ASSUME NEW k \in Callers, Fails(k) \/ WaitEnds(k) \/ Online(k) PROVE Dropping'
  <2>1. /\ pc[k] # "dropping" /\ UNCHANGED <<client, drops>>
        /\ \A l \in Callers : pc[l] = "dropping" => pc'[l] = "dropping"
    BY <1>7 DEF Fails, AttachFails, WaitEnds, Online
  <2> QED
    BY <2>1
<1>8. ASSUME NEW k \in Callers, Adopt(k) PROVE Dropping'
  <2>1. Len(drops') = 0
    BY <1>8 DEF Adopt
  <2> QED
    BY <2>1
<1>9. ASSUME NEW k \in Callers, NEW x \in Links, Dial(k, x) PROVE Dropping'
  BY <1>9 DEF Dial
<1>10. CASE UNCHANGED app
  BY <1>10 DEF app
<1> QED
  BY <1>1, <1>3, <1>4, <1>5, <1>6, <1>7, <1>8, <1>9, <1>10, AppSteps DEF AppStep

LEMMA DialingStep ==
  ASSUME AppTypes, OneConnects, Dropping, Dialing, [Next]_vars
  PROVE  Dialing'
<1> USE DEF AppTypes, OneConnects, Dialing
<1>1. CASE Forget
  <2>1. drops # <<>> /\ client' = NoLink /\ status' # "online" /\ dialed' = dialed
          /\ pc' = [k \in Callers |-> IF k = Head(drops).who THEN "dialing" ELSE pc[k]]
    BY <1>1 DEF Forget
  <2>2. \A k \in Callers : pc[k] # "loading"
    BY <2>1
  <2>3. \A k \in Callers : k = Head(drops).who => dialed[k] = NoLink
    BY <1>1, DropsShortened DEF Dropping
  <2> QED
    BY <2>1, <2>2, <2>3
<1>2. CASE UserDisconnects
  <2>1. \A k \in Callers : pc[k] \notin {"dialing", "waiting", "loading"}
    BY <1>2 DEF UserDisconnects
  <2> QED
    BY <1>2, <2>1 DEF UserDisconnects
<1>3. CASE StreamEnds
  BY <1>3 DEF StreamEnds
<1>4. CASE Relaunch
  BY <1>4 DEF Relaunch
<1>5. ASSUME NEW k \in Callers, Connect(k) PROVE Dialing'
  <2>1. (\A l \in Callers : pc[l] = "idle") /\ client' = client /\ dialed' = dialed
          /\ pc' = [pc EXCEPT ![k] = IF client = NoLink THEN "dialing" ELSE "dropping"]
    BY <1>5 DEF Connect, Begin, InFlight
  <2>2. client = NoLink => status' # "online"
    BY <1>5 DEF Connect, Begin, Disconnect
  <2> QED
    BY <2>1, <2>2
<1>6. ASSUME NEW k \in Callers, Fails(k) PROVE Dialing'
  <2>1. /\ pc[k] = "dialing" /\ UNCHANGED <<client, drops>>
        /\ dialed' = [dialed EXCEPT ![k] = NoLink]
        /\ \E stage \in {"waiting", "idle"} : pc' = [pc EXCEPT ![k] = stage]
        /\ status' \in {status, "failed"}
    BY <1>6 DEF Fails, AttachFails
  <2> QED
    BY <2>1
<1>7. ASSUME NEW k \in Callers, Adopt(k) PROVE Dialing'
  <2>1. pc[k] = "dialing" /\ \A l \in Callers : l # k => pc[l] = "idle"
    BY <1>7 DEF Adopt
  <2> QED
    BY <1>7, <2>1 DEF Adopt
<1>8. ASSUME NEW k \in Callers, WaitEnds(k) PROVE Dialing'
  BY <1>8 DEF WaitEnds
<1>9. ASSUME NEW k \in Callers, Online(k) PROVE Dialing'
  <2>1. pc[k] = "loading" /\ \A l \in Callers : l # k => pc[l] = "idle"
    BY <1>9 DEF Online
  <2> QED
    BY <1>9, <2>1 DEF Online
<1>10. ASSUME NEW k \in Callers, NEW x \in Links, Dial(k, x) PROVE Dialing'
  BY <1>10 DEF Dial
<1>11. CASE UNCHANGED app
  BY <1>11 DEF app
<1> QED
  BY <1>1, <1>2, <1>3, <1>4, <1>5, <1>6, <1>7, <1>8, <1>9, <1>10, <1>11, AppSteps DEF AppStep

-----------------------------------------------------------------------------
(* No connection is left behind.                                           *)

\* Somebody will close or use client x.
Minded(x) ==
  \/ x = client
  \/ \E k \in Callers : dialed[k] = x
  \/ \E i \in 1..Len(drops) : drops[i].link = x

LEMMA MindedStep ==
  ASSUME AppTypes, OneConnects, Dropping, Dialing, [Next]_vars,
         \A x \in Links : end[x] # NoCore => Minded(x)
  PROVE  \A x \in Links : end'[x] # NoCore => Minded(x)'
<1> SUFFICES ASSUME NEW x \in Links, end'[x] # NoCore PROVE Minded(x)'
  OBVIOUS
<1> USE DEF AppTypes
<1>1. CASE Forget
  <2>1. end'[x] = end[x] /\ x # Head(drops).link /\ dialed' = dialed
    BY <1>1 DEF Forget
  <2>2. Minded(x)
    BY <2>1
  <2>3. x # client
    BY <1>1, <2>1, DropsShortened DEF Dropping
  <2>4. ASSUME NEW i \in 1..Len(drops), drops[i].link = x
        PROVE  \E j \in 1..Len(drops') : drops'[j].link = x
    <3>1. i # 1
      BY <1>1, <2>1, <2>4, DropsShortened
    <3>2. i - 1 \in 1..Len(drops') /\ drops'[i - 1] = drops[i]
      BY <1>1, <3>1, DropsShortened
    <3> QED
      BY <2>4, <3>2
  <2> QED
    BY <2>1, <2>2, <2>3, <2>4 DEF Minded
<1>2. ASSUME NEW who \in Callers \cup {User}, NEW then, Disconnect(who, then),
             UNCHANGED <<client, end, dialed>>
      PROVE  Minded(x)'
  <2>1. Minded(x)
    BY <1>2
  <2>2. CASE client = NoLink
    BY <1>2, <2>1, <2>2 DEF Disconnect, Minded
  <2>3. CASE client # NoLink
    <3>1. ASSUME NEW i \in 1..Len(drops), drops[i].link = x
          PROVE  \E j \in 1..Len(drops') : drops'[j].link = x
      <4>1. Len(drops') = Len(drops) + 1 /\ Len(drops) \in Nat /\ drops'[i] = drops[i]
        BY <1>2, <2>3, DropsAppended
      <4>2. i \in 1..Len(drops')
        BY <4>1
      <4> QED
        BY <3>1, <4>1, <4>2
    <3> QED
      BY <1>2, <2>1, <3>1 DEF Minded
  <2> QED
    BY <2>2, <2>3
<1>3. CASE UserDisconnects
  BY <1>3, <1>2 DEF UserDisconnects
<1>4. ASSUME NEW k \in Callers, Connect(k) PROVE Minded(x)'
  BY <1>4, <1>2 DEF Connect, Begin
<1>5. CASE StreamEnds
  BY <1>5 DEF StreamEnds, Minded
<1>6. CASE Relaunch
  BY <1>6 DEF Relaunch
<1>7. ASSUME NEW k \in Callers, Fails(k) PROVE Minded(x)'
  <2>1. x # dialed[k] /\ end[x] # NoCore /\ dialed' = [dialed EXCEPT ![k] = NoLink]
          /\ UNCHANGED <<client, drops>>
    BY <1>7 DEF Fails, AttachFails
  <2> QED
    BY <2>1 DEF Minded
<1>8. ASSUME NEW k \in Callers, Adopt(k) PROVE Minded(x)'
  <2>1. client = NoLink /\ UNCHANGED <<dialed, drops, end>>
    BY <1>8 DEF Adopt, Dialing
  <2> QED
    BY <2>1 DEF Minded
<1>9. ASSUME NEW k \in Callers, WaitEnds(k) PROVE Minded(x)'
  BY <1>9 DEF WaitEnds, Minded
<1>10. ASSUME NEW k \in Callers, Online(k) PROVE Minded(x)'
  <2>1. client = dialed[k] /\ dialed' = [dialed EXCEPT ![k] = NoLink]
          /\ UNCHANGED <<client, drops, end>>
    BY <1>10 DEF Online, Dialing
  <2> QED
    BY <2>1 DEF Minded
<1>11. ASSUME NEW k \in Callers, NEW y \in Links, Dial(k, y) PROVE Minded(x)'
  <2>1. /\ dialed[k] = NoLink /\ dialed' = [dialed EXCEPT ![k] = y]
        /\ UNCHANGED <<client, drops>>
        /\ x = y \/ end'[x] = end[x]
    BY <1>11 DEF Dial
  <2> QED
    BY <2>1 DEF Minded
<1>12. CASE UNCHANGED app
  BY <1>12 DEF app, Minded
<1> QED
  BY <1>1, <1>3, <1>4, <1>5, <1>6, <1>7, <1>8, <1>9, <1>10, <1>11, <1>12, AppSteps
  DEF AppStep

\* The events of the client in use are consumed.
Consumed ==
  status = "online" /\ client # NoLink /\ end[client] # NoCore /\ drops = <<>>
    => stream \in {client} \/ InFlight

LEMMA ConsumedStep ==
  ASSUME AppTypes, OneConnects, Dropping, Dialing, Consumed, [Next]_vars
  PROVE  Consumed'
<1> USE DEF AppTypes, Consumed
<1>1. CASE Forget \/ Relaunch
  BY <1>1 DEF Forget, Relaunch
<1>2. CASE UserDisconnects
  <2>1. CASE client = NoLink
    BY <1>2, <2>1 DEF UserDisconnects
  <2>2. CASE client # NoLink
    <3>1. Disconnect(User, "offline")
      BY <1>2 DEF UserDisconnects
    <3>2. Len(drops') = Len(drops) + 1 /\ Len(drops) \in Nat
      BY <2>2, <3>1, DropsAppended
    <3>3. drops' # <<>>
      BY <3>2
    <3> QED
      BY <3>3
  <2> QED
    BY <2>1, <2>2
<1>3. CASE StreamEnds
  BY <1>3 DEF StreamEnds, InFlight
<1>4. ASSUME NEW k \in Callers, Connect(k) PROVE Consumed'
  <2>1. pc'[k] # "idle"
    BY <1>4 DEF Connect, Begin
  <2> QED
    BY <2>1 DEF InFlight
<1>5. ASSUME NEW k \in Callers, Fails(k) PROVE Consumed'
  BY <1>5 DEF Fails, AttachFails, Dialing
<1>6. ASSUME NEW k \in Callers, Adopt(k) PROVE Consumed'
  <2>1. pc'[k] # "idle"
    BY <1>6 DEF Adopt
  <2> QED
    BY <2>1 DEF InFlight
<1>7. ASSUME NEW k \in Callers, WaitEnds(k) PROVE Consumed'
  BY <1>7 DEF WaitEnds, Dialing
<1>8. ASSUME NEW k \in Callers, Online(k) PROVE Consumed'
  BY <1>8 DEF Online, Dialing
<1>9. ASSUME NEW k \in Callers, NEW x \in Links, Dial(k, x) PROVE Consumed'
  BY <1>9 DEF Dial, InFlight
<1>10. CASE UNCHANGED app
  BY <1>10 DEF app, InFlight
<1> QED
  BY <1>1, <1>2, <1>3, <1>4, <1>5, <1>6, <1>7, <1>8, <1>9, <1>10, AppSteps DEF AppStep

-----------------------------------------------------------------------------
(* The theorems.                                                           *)

LEMMA LinkParts == LinkIsKept <=> (\A x \in Links : end[x] # NoCore => Minded(x)) /\ Consumed
  BY DEF LinkIsKept, Minded, Consumed

LEMMA InitHolds == Init => IInv
<1> SUFFICES ASSUME Init PROVE IInv
  OBVIOUS
<1>1. CoreTypes
  BY DEF Init, CoreTypes, Listening
<1>2. AppTypes
  BY DEF Init, AppTypes
<1>3. Owned
  <2>1. life = 1 /\ \A c \in Cores : owner[c] = NoCore
    BY DEF Init
  <2>2. NoCore \notin Nat /\ NoCore # 1
    OBVIOUS
  <2> QED
    BY <2>1, <2>2 DEF Owned
<1>4. OneConnects /\ Dialing
  BY DEF Init, OneConnects, Dialing
<1>5. Len(drops) = 0
  BY DEF Init
<1>6. Dropping
  BY <1>5 DEF Dropping
<1>7. LinkIsKept
  BY DEF Init, LinkIsKept
<1> QED
  BY <1>1, <1>2, <1>3, <1>4, <1>6, <1>7 DEF IInv

LEMMA StepKeeps == IInv /\ [Next]_vars => IInv'
<1> SUFFICES ASSUME IInv, [Next]_vars PROVE IInv'
  OBVIOUS
<1>1. CoreTypes' /\ AppTypes' /\ Owned'
  BY CoreTypesStep, AppTypesStep, OwnedStep DEF IInv
<1>2. OneConnects' /\ Dropping' /\ Dialing'
  BY OneConnectsStep, DroppingStep, DialingStep DEF IInv
<1>3. (\A x \in Links : end'[x] # NoCore => Minded(x)') /\ Consumed'
  BY LinkParts, MindedStep, ConsumedStep DEF IInv
<1>4. LinkIsKept'
  BY <1>3 DEF LinkIsKept, Minded, Consumed
<1> QED
  BY <1>1, <1>2, <1>4 DEF IInv

\* The inductive invariant of the app's connection to its core.
THEOREM Invariant == Spec => []IInv
  BY InitHolds, StepKeeps, PTL DEF Spec

\* Every variable has its type, and an app never has two living cores of its own: the
\* launcher ends the one it had before it starts another (CoreLauncher.spawn).
THEOREM TypeCorrect == Spec => []TypeOK
<1>1. IInv => TypeOK
  BY DEF IInv, TypeOK, CoreTypes, AppTypes, DropRecords, Owned
<1> QED
  BY <1>1, Invariant, PTL

\* Whatever connects, disconnects and reconnects overlap, no client stays connected that
\* nobody will close, and the events of the one in use are consumed (connect, attach and
\* disconnect of CoreConnection).
THEOREM LinkKept == Spec => []LinkIsKept
<1>1. IInv => LinkIsKept
  BY DEF IInv
<1> QED
  BY <1>1, Invariant, PTL

-----------------------------------------------------------------------------
(* What the app's status, its disconnect()s and the socket file can be     *)
(* relied upon for.                                                        *)

\* What being online means: the client is open and its events are consumed, or a
\* disconnect() is about to close it; a stream consumed is that of the client in use.
OnlineIsConnected ==
  /\ client # NoLink => end[client] # NoCore
  /\ status = "online" => client # NoLink /\ (stream = client \/ drops # <<>>)
  /\ stream # NoLink => stream = client /\ status = "online" /\ drops = <<>> /\ ~InFlight

\* A connect() that waits for its disconnect() will be woken by it.
DropsAreAwaited ==
  \A k \in Callers : pc[k] = "dropping" => \E i \in 1..Len(drops) : drops[i].who = k

\* A socket file that names a core names one that listens.
SocketIsLive == socket \in Cores => core[socket] \in Listening

\* Only the end of attach() makes the app online, and every way out of it is a
\* disconnect(), the end of the stream or of the app.
LEMMA OnlineStep ==
  ASSUME AppTypes, OneConnects, Dropping, Dialing, OnlineIsConnected, [Next]_vars
  PROVE  OnlineIsConnected'
<1> USE DEF AppTypes, OnlineIsConnected
<1>1. CASE Forget
  <2>1. drops # <<>> /\ client' = NoLink /\ status' # "online" /\ stream' = stream
    BY <1>1 DEF Forget
  <2> QED
    BY <2>1
<1>2. ASSUME NEW who \in Callers \cup {User}, NEW then \in {"offline", "connecting"},
             Disconnect(who, then), UNCHANGED <<client, end>>
      PROVE  OnlineIsConnected'
  <2>1. CASE client = NoLink
    BY <1>2, <2>1 DEF Disconnect
  <2>2. CASE client # NoLink
    <3>1. Len(drops') = Len(drops) + 1 /\ Len(drops) \in Nat
      BY <1>2, <2>2, DropsAppended
    <3>2. drops' # <<>>
      BY <3>1
    <3> QED
      BY <1>2, <2>2, <3>2 DEF Disconnect
  <2> QED
    BY <2>1, <2>2
<1>3. CASE UserDisconnects
  BY <1>3, <1>2 DEF UserDisconnects
<1>4. CASE StreamEnds
  BY <1>4 DEF StreamEnds
<1>5. CASE Relaunch
  BY <1>5 DEF Relaunch
<1>6. ASSUME NEW k \in Callers, Connect(k) PROVE OnlineIsConnected'
  BY <1>6, <1>2 DEF Connect, Begin
<1>7. ASSUME NEW k \in Callers, Fails(k) PROVE OnlineIsConnected'
  <2>1. client = NoLink /\ status # "online" /\ stream = NoLink
    BY <1>7 DEF Fails, Dialing
  <2>2. UNCHANGED <<client, stream>> /\ status' \in {status, "failed"}
    BY <1>7 DEF Fails, AttachFails
  <2> QED
    BY <2>1, <2>2
<1>8. ASSUME NEW k \in Callers, Adopt(k) PROVE OnlineIsConnected'
  <2>1. status # "online" /\ stream = NoLink
    BY <1>8 DEF Adopt, Dialing
  <2>2. client' = dialed[k] /\ end[dialed[k]] # NoCore /\ UNCHANGED <<status, stream, end>>
    BY <1>8 DEF Adopt, Reaches
  <2> QED
    BY <2>1, <2>2
<1>9. ASSUME NEW k \in Callers, WaitEnds(k) PROVE OnlineIsConnected'
  <2>1. client = NoLink /\ status # "online" /\ stream = NoLink
    BY <1>9 DEF WaitEnds, Dialing
  <2>2. UNCHANGED <<client, stream>> /\ status' \in {status, "failed"}
    BY <1>9 DEF WaitEnds
  <2> QED
    BY <2>1, <2>2
<1>10. ASSUME NEW k \in Callers, Online(k) PROVE OnlineIsConnected'
  <2>1. client = dialed[k] /\ client \in Links /\ drops = <<>>
    BY <1>10 DEF Online, Dialing
  <2>2. ~InFlight'
    BY <1>10 DEF Online, InFlight, OneConnects
  <2>3. stream' = client /\ status' = "online" /\ UNCHANGED <<client, end, drops>>
    BY <1>10, <2>1 DEF Online
  <2> QED
    BY <2>1, <2>2, <2>3
<1>11. ASSUME NEW k \in Callers, NEW x \in Links, Dial(k, x) PROVE OnlineIsConnected'
  <2>1. stream = NoLink /\ status # "online" /\ client = NoLink
    BY <1>11 DEF Dial, Dialing
  <2> QED
    BY <1>11, <2>1 DEF Dial
<1>12. CASE UNCHANGED app
  BY <1>12 DEF app, InFlight
<1> QED
  BY <1>1, <1>3, <1>4, <1>5, <1>6, <1>7, <1>8, <1>9, <1>10, <1>11, <1>12, AppSteps
  DEF AppStep

\* A disconnect() stays in the queue until its turn, whatever happens to the client.
LEMMA AwaitedStep ==
  ASSUME AppTypes, OneConnects, DropsAreAwaited, [Next]_vars
  PROVE  DropsAreAwaited'
<1> SUFFICES ASSUME NEW l \in Callers, pc'[l] = "dropping"
             PROVE  \E i \in 1..Len(drops') : drops'[i].who = l
  BY DEF DropsAreAwaited
<1> USE DEF AppTypes, DropsAreAwaited
<1>1. CASE Forget
  <2>1. l # Head(drops).who /\ pc[l] = "dropping"
    BY <1>1 DEF Forget
  <2>2. PICK i \in 1..Len(drops) : drops[i].who = l
    BY <2>1
  <2>3. i # 1
    BY <1>1, <2>1, <2>2, DropsShortened
  <2>4. i - 1 \in 1..Len(drops') /\ drops'[i - 1] = drops[i]
    BY <1>1, <2>3, DropsShortened
  <2> QED
    BY <2>2, <2>4
<1>2. ASSUME NEW who \in Callers \cup {User}, NEW then, Disconnect(who, then),
             pc[l] = "dropping" \/ (client # NoLink /\ who = l)
      PROVE  \E i \in 1..Len(drops') : drops'[i].who = l
  <2>1. CASE client = NoLink
    BY <1>2, <2>1 DEF Disconnect
  <2>2. CASE client # NoLink
    <3>1. Len(drops') = Len(drops) + 1 /\ Len(drops) \in Nat
            /\ (\A i \in 1..Len(drops) : drops'[i] = drops[i])
            /\ drops'[Len(drops) + 1].who = who
      BY <1>2, <2>2, DropsAppended
    <3>2. Len(drops) + 1 \in 1..Len(drops')
            /\ \A i \in 1..Len(drops) : i \in 1..Len(drops')
      BY <3>1
    <3> QED
      BY <1>2, <3>1, <3>2
  <2> QED
    BY <2>1, <2>2
<1>3. CASE UserDisconnects
  BY <1>3, <1>2 DEF UserDisconnects
<1>4. ASSUME NEW k \in Callers, Connect(k)
      PROVE  \E i \in 1..Len(drops') : drops'[i].who = l
  <2>1. Disconnect(k, "connecting") /\ k = l /\ client # NoLink
    BY <1>4 DEF Connect, Begin, InFlight
  <2> QED
    BY <2>1, <1>2
<1>5. CASE StreamEnds \/ Relaunch
  BY <1>5 DEF StreamEnds, Relaunch
<1>6. ASSUME NEW k \in Callers, Adopt(k)
      PROVE  FALSE
  <2>1. pc[k] = "dialing" /\ pc' = [pc EXCEPT ![k] = "loading"]
    BY <1>6 DEF Adopt
  <2>2. k # l /\ pc[l] = "dropping"
    BY <2>1
  <2> QED
    BY <2>1, <2>2 DEF OneConnects
<1>7. ASSUME NEW k \in Callers, Fails(k) \/ WaitEnds(k) \/ Online(k) \/ \E x \in Links : Dial(k, x)
      PROVE  \E i \in 1..Len(drops') : drops'[i].who = l
  <2>1. drops' = drops /\ pc[l] = "dropping"
    BY <1>7 DEF Fails, AttachFails, WaitEnds, Online, Dial
  <2> QED
    BY <2>1
<1>8. CASE UNCHANGED app
  BY <1>8 DEF app
<1> QED
  BY <1>1, <1>3, <1>4, <1>5, <1>6, <1>7, <1>8, AppSteps DEF AppStep

\* A core's socket file goes when it stops listening, or is left as nobody's.
LEMMA SocketStep ==
  ASSUME CoreTypes, AppTypes, SocketIsLive, [Next]_vars
  PROVE  SocketIsLive'
<1> USE DEF CoreTypes, AppTypes, SocketIsLive, Listening
<1>1. ASSUME NEW c \in Cores, Core(c) PROVE SocketIsLive'
  BY <1>1 DEF Core, Unlink, Bind, SeeParentGone, CleanUp
<1>2. ASSUME NEW c \in Cores, Exit(c) \/ Interrupt(c) \/ KillCore(c) PROVE SocketIsLive'
  BY <1>2 DEF Exit, Interrupt, KillCore, Dies
<1>3. ASSUME NEW k \in Callers, AttachFails(k) PROVE SocketIsLive'
  BY <1>3 DEF AttachFails, Spawn
<1>4. ASSUME NEW k \in Callers, Connecting(k) \/ Click(k) \/ AnswersLate(k) PROVE SocketIsLive'
  BY <1>4, <1>3 DEF Connecting, Refused, Dial, Adopt, WaitEnds, Online, Click, AnswersLate,
                    Connect, Begin
<1>5. CASE Watch
  BY <1>5 DEF Watch, SeeOffline, Ping, Answered, Unanswered, Connect, Begin
<1>6. CASE Forget \/ StreamEnds \/ UserDisconnects \/ Block \/ Unblock
  BY <1>6 DEF Forget, StreamEnds, UserDisconnects, Block, Unblock
<1>7. CASE Relaunch
  BY <1>7 DEF Relaunch, OwnAlive, Dies
<1>8. CASE UNCHANGED vars
  BY <1>8 DEF vars
<1> QED
  BY <1>1, <1>2, <1>4, <1>5, <1>6, <1>7, <1>8 DEF Next

\* The actor a blocking send() may hold is that of the client in use.
StuckIsClient == stuck \in {NoLink, client}

\* Nobody forgets a client or adopts another while the actor of the one in use is held.
LEMMA StuckStep ==
  ASSUME AppTypes, Dropping, Dialing, StuckIsClient, [Next]_vars
  PROVE  StuckIsClient'
<1> USE DEF AppTypes, StuckIsClient
<1>1. CASE Forget
  <2>1. Head(drops).link # stuck /\ stuck' = stuck /\ client' = NoLink
    BY <1>1 DEF Forget
  <2>2. client \in {NoLink, Head(drops).link}
    BY <1>1, DropsShortened DEF Dropping
  <2> QED
    BY <2>1, <2>2
<1>2. ASSUME NEW c \in Cores, Core(c) \/ Exit(c) \/ Interrupt(c) \/ KillCore(c)
      PROVE  StuckIsClient'
  BY <1>2 DEF Core, Unlink, Bind, SeeParentGone, CleanUp, Exit, Interrupt, KillCore
<1>3. ASSUME NEW k \in Callers, Connecting(k) \/ Click(k) \/ AnswersLate(k), ~Adopt(k)
      PROVE  StuckIsClient'
  BY <1>3 DEF Connecting, Dial, Refused, WaitEnds, Online, Click, Connect, Begin, AnswersLate,
              AttachFails
<1>4. ASSUME NEW k \in Callers, Adopt(k) PROVE StuckIsClient'
  BY <1>4 DEF Adopt, Dialing
<1>5. CASE Watch
  BY <1>5 DEF Watch, SeeOffline, Ping, Answered, Unanswered, Connect, Begin
<1>6. CASE StreamEnds \/ UserDisconnects \/ Block \/ Unblock \/ Relaunch
  BY <1>6 DEF StreamEnds, UserDisconnects, Block, Unblock, Relaunch
<1>7. CASE UNCHANGED vars
  BY <1>7 DEF vars
<1> QED
  BY <1>1, <1>2, <1>3, <1>4, <1>5, <1>6, <1>7 DEF Next

\* An app that shows itself online has an open client whose events it consumes, unless it is
\* about to close it; so the watchdog's test "online without a client" never holds alone.
\* (connect, attach, disconnect and startWatchdog.)
THEOREM OnlineMeansConnected == Spec => []OnlineIsConnected
<1>1. Init => OnlineIsConnected
  BY DEF Init, OnlineIsConnected
<1>2. IInv /\ OnlineIsConnected /\ [Next]_vars => OnlineIsConnected'
  BY OnlineStep DEF IInv
<1> QED
  BY <1>1, <1>2, Invariant, PTL DEF Spec

\* No connect() waits for a disconnect() that is not there: with connectInFlight set, that
\* would keep the app offline for ever.
THEOREM ConnectsAreWoken == Spec => []DropsAreAwaited
<1>1. Init => DropsAreAwaited
  BY DEF Init, DropsAreAwaited
<1>2. IInv /\ DropsAreAwaited /\ [Next]_vars => DropsAreAwaited'
  BY AwaitedStep DEF IInv
<1> QED
  BY <1>1, <1>2, Invariant, PTL DEF Spec

\* Whichever cores unlink, bind, stop and die, a file that is some core's is answered by it:
\* what waitForSocket and attach() find is a listener, nobody's file or nothing.
THEOREM SocketIsAnswered == Spec => []SocketIsLive
<1>1. Init => SocketIsLive
  BY DEF Init, SocketIsLive, Listening
<1>2. IInv /\ SocketIsLive /\ [Next]_vars => SocketIsLive'
  BY SocketStep DEF IInv
<1> QED
  BY <1>1, <1>2, Invariant, PTL DEF Spec

\* A blocking send() only ever holds the actor of the client in use: what it holds up is
\* disconnect(), the ping and the stream of that client, never an attach() under way
\* (CoreConnection.attach and disconnect, IpcClient.writeAll).
THEOREM OnlyTheClientSticks == Spec => []StuckIsClient
<1>1. Init => StuckIsClient
  BY DEF Init, StuckIsClient
<1>2. IInv /\ StuckIsClient /\ [Next]_vars => StuckIsClient'
  BY StuckStep DEF IInv
<1> QED
  BY <1>1, <1>2, Invariant, PTL DEF Spec
=============================================================================
