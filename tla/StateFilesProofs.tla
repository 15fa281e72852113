--------------------------- MODULE StateFilesProofs ---------------------------
(***************************************************************************)
(* Proofs about StateFiles for any number of jobs of each kind, in any     *)
(* workload and with any number of crashes: what was confirmed and what    *)
(* has become of it, and that the CLI's configuration is never cut off.    *)
(***************************************************************************)
EXTENDS StateFiles, FiniteSetTheorems, TLAPS

USE StateAssumption

States == {"none"} \cup Working \cup Over
Told == {"waiting", "ok", "error", "nobody"}
Content == [state : {"none", "empty", "whole", "torn"}, keys : SUBSET Jobs]

\* One change at most has the mutex of the configuration.
Mutex == \A c, d \in Changes : pc[c] = "saving" /\ pc[d] = "saving" => c = d

LEMMA PlaceOf ==
  ASSUME NEW j \in Jobs
  PROVE  /\ j \in JsonJobs => Place(j) = "json"
         /\ j \in TextJobs => Place(j) = "text"
         /\ j \in ClaudeJobs => Place(j) = "claude"
         /\ j \in Changes => Place(j) = "config"
         /\ j \in Sends \cup Drains => Place(j) = "inbox"
         /\ j \in Adds => Place(j) = "worktrees"
BY DEF Place, Jobs, Updates

LEMMA TargetOf ==
  ASSUME NEW j \in Updates
  PROVE  /\ j \in Jobs /\ Place(j) \in {"json", "text", "claude"}
         /\ j \in ClaudeJobs => Place(j) = "claude" /\ Target(j) = "tmp"
         /\ j \notin ClaudeJobs => Place(j) \in {"json", "text"} /\ Target(j) = Place(j)
BY PlaceOf DEF Jobs, Updates, Target

-----------------------------------------------------------------------------
(* Types.                                                                  *)

LEMMA BeginTypes ==
  ASSUME TypeOK, NEW j \in Jobs, NEW s \in States, Begin(j, s)
  PROVE  /\ asked' \in SUBSET Jobs /\ pc' \in [Jobs -> States] /\ told' \in [Jobs -> Told]
         /\ met' \in [Jobs -> SUBSET Jobs] /\ crashes' \in 0..MaxCrashes
         /\ s # "saving" => Mutex'
<1>1. /\ asked' \in SUBSET Jobs /\ pc' \in [Jobs -> States] /\ told' \in [Jobs -> Told]
      /\ crashes' \in 0..MaxCrashes
  BY DEF TypeOK, Begin, States, Told
<1>2. met' \in [Jobs -> SUBSET Jobs]
  <2>1. AtWork(Place(j)) \in SUBSET Jobs
    BY DEF AtWork
  <2>2. \A i \in Jobs : met[i] \in SUBSET Jobs /\ met[i] \cup {j} \in SUBSET Jobs
    BY DEF TypeOK
  <2> QED
    BY <2>1, <2>2 DEF Begin
<1>3. s # "saving" => Mutex'
  BY DEF TypeOK, Begin, Mutex, Jobs
<1> QED
  BY <1>1, <1>2, <1>3

LEMMA GoTypes ==
  ASSUME TypeOK, NEW j \in Jobs, NEW from, NEW s \in States, Go(j, from, s)
  PROVE  /\ asked' \in SUBSET Jobs /\ pc' \in [Jobs -> States] /\ told' \in [Jobs -> Told]
         /\ met' \in [Jobs -> SUBSET Jobs] /\ crashes' \in 0..MaxCrashes
         /\ s # "saving" => Mutex'
BY DEF TypeOK, Go, States, Told, Mutex, Jobs

\* What a job has open for writing: a file of its place, or the sibling.
FdOK ==
  \A j \in Updates :
    /\ j \in ClaudeJobs => fd[j] \in {"tmp", "claude", "gone"}
    /\ j \notin ClaudeJobs => /\ fd[j] \in {Place(j), "gone"}
                              /\ pc[j] = "opened" => fd[j] = Place(j)

ConfigKeys == file["config"].keys \subseteq Changes

\* What is no job's state.
RestOK ==
  /\ file \in [Files -> Content]
  /\ fd \in [Updates -> Files \cup {"gone"}]
  /\ snap \in [Updates \cup Drains -> SUBSET Jobs]
  /\ spoilt \subseteq Files
  /\ memory \subseteq Changes
  /\ lines \subseteq Sends
  /\ unfinished \subseteq Sends
  /\ mixed \subseteq Sends
  /\ detached \subseteq Sends
  /\ unwritten \subseteq Sends
  /\ trees \in Nat

JobsOK ==
  /\ asked \in SUBSET Jobs /\ pc \in [Jobs -> States] /\ told \in [Jobs -> Told]
  /\ met \in [Jobs -> SUBSET Jobs] /\ crashes \in 0..MaxCrashes
  /\ Mutex

LEMMA TypeParts == TypeOK <=> JobsOK /\ RestOK
BY Zenon DEF TypeOK, JobsOK, RestOK, States, Told, Content, Mutex

LEMMA StateNames ==
  /\ {"none", "read", "opened", "renaming", "saving", "appending", "partial", "adding",
      "ended", "failed", "lost"} = States
BY DEF States, Working, Over

LEMMA JobsStep ==
  ASSUME TypeOK, [Next]_vars
  PROVE  JobsOK'
<1> USE StateNames
<1>1. ASSUME NEW j \in Jobs, NEW s \in States, s # "saving", Begin(j, s) PROVE JobsOK'
  BY <1>1, BeginTypes DEF JobsOK
<1>2. ASSUME NEW j \in Jobs, NEW from, NEW s \in States, s # "saving", Go(j, from, s)
      PROVE  JobsOK'
  BY <1>2, GoTypes DEF JobsOK
<1>3. ASSUME NEW j \in Jobs, Refuse(j) PROVE JobsOK'
  BY <1>1, <1>3 DEF Refuse
<1>4. ASSUME NEW j \in Jobs, Reply(j) \/ GiveUp(j) PROVE JobsOK'
  BY <1>4 DEF Reply, GiveUp, TypeOK, JobsOK, Told, States, Mutex
<1>5. ASSUME NEW j \in Jobs, Update(j) PROVE JobsOK'
  BY <1>1, <1>2, <1>5 DEF Update, ReadFile, Truncate, WriteBack, WriteFails, Rename
<1>6. ASSUME NEW c \in Jobs, Configure(c) PROVE JobsOK'
  <2>1. CASE LockConfig(c)
    <3>1. Begin(c, "saving") /\ c \in Changes /\ \A d \in Changes : pc[d] # "saving"
      BY <2>1 DEF LockConfig
    <3>2. /\ asked' \in SUBSET Jobs /\ pc' \in [Jobs -> States] /\ told' \in [Jobs -> Told]
          /\ met' \in [Jobs -> SUBSET Jobs] /\ crashes' \in 0..MaxCrashes
      BY <3>1, BeginTypes
    <3>3. Mutex'
      BY <3>1 DEF Begin, Mutex, TypeOK, Jobs
    <3> QED
      BY <3>2, <3>3 DEF JobsOK
  <2> QED
    BY <1>2, <1>6, <2>1 DEF Configure, SaveConfig, SaveFails
<1>7. ASSUME NEW j \in Jobs, Mail(j) PROVE JobsOK'
  <2>1. CASE AppendPart(j)
    <3>1. pc' = [pc EXCEPT ![j] = "partial"] /\ UNCHANGED <<asked, told, crashes>>
      BY <2>1 DEF AppendPart
    <3>2. met' = met \/ met' = [met EXCEPT ![j] = @ \cup unfinished]
      BY <2>1 DEF AppendPart
    <3>3. unfinished \subseteq Jobs /\ met \in [Jobs -> SUBSET Jobs]
      BY DEF TypeOK, Jobs
    <3>4. met' \in [Jobs -> SUBSET Jobs]
      BY <3>2, <3>3
    <3>5. /\ asked' \in SUBSET Jobs /\ pc' \in [Jobs -> States] /\ told' \in [Jobs -> Told]
          /\ crashes' \in 0..MaxCrashes /\ Mutex'
      BY <3>1 DEF TypeOK, Mutex, States, Told, Jobs
    <3> QED
      BY <3>4, <3>5 DEF JobsOK
  <2> QED
    BY <1>1, <1>2, <1>7, <2>1
       DEF Mail, OpenInbox, SendFails, AppendRest, ReadInbox, RemoveInbox
<1>8. ASSUME NEW a \in Jobs, Worktree(a) PROVE JobsOK'
  BY <1>1, <1>2, <1>8 DEF Worktree, CountWorktrees, GitEnds
<1>9. CASE Crash
  <2>1. pc' \in [Jobs -> States] /\ told' \in [Jobs -> Told] /\ met' = met /\ asked' = asked
    BY <1>9 DEF Crash, TypeOK, States, Told
  <2>2. crashes' \in 0..MaxCrashes
    BY <1>9 DEF Crash, TypeOK
  <2>3. \A c \in Changes : pc'[c] # "saving"
    BY <1>9 DEF Crash, Jobs, Working
  <2> QED
    BY <2>1, <2>2, <2>3 DEF JobsOK, Mutex, TypeOK
<1>10. CASE UNCHANGED vars
  BY <1>10 DEF vars, job, TypeOK, JobsOK, States, Told, Mutex
<1> QED
  BY <1>3, <1>4, <1>5, <1>6, <1>7, <1>8, <1>9, <1>10 DEF Next

LEMMA RestStep ==
  ASSUME TypeOK, ConfigKeys, [Next]_vars
  PROVE  RestOK'
<1> USE DEF files, inbox, job
<1>0. RestOK
  BY TypeParts
<1>1. ASSUME NEW j \in Jobs, Refuse(j) \/ Reply(j) \/ GiveUp(j) PROVE RestOK'
  BY <1>0, <1>1 DEF Refuse, Reply, GiveUp, RestOK
<1>2. ASSUME NEW j \in Jobs, Update(j) PROVE RestOK'
  <2>0. Empty \in Content /\ None \in Content
    BY DEF Empty, None, Content
  <2>1. CASE ReadFile(j)
    <3>1. Parsed(Place(j)) \subseteq Jobs
      <4>1. j \in Updates
        BY <2>1 DEF ReadFile
      <4>2. Place(j) \in Files
        BY <4>1, TargetOf DEF Files
      <4> QED
        BY <1>0, <4>2 DEF Parsed, RestOK, Content
    <3> QED
      BY <1>0, <2>1, <3>1 DEF ReadFile, RestOK
  <2>2. CASE Truncate(j)
    <3>1. j \in Updates /\ Target(j) \in Files
      BY <2>2, TargetOf DEF Truncate, Files
    <3> QED
      BY <1>0, <2>0, <2>2, <3>1 DEF Truncate, RestOK
  <2>3. CASE WriteBack(j)
    <3>1. j \in Updates /\ j \in Jobs /\ snap[j] \cup {j} \subseteq Jobs
      BY <1>0, <2>3, TargetOf DEF WriteBack, RestOK
    <3>2. \A new \in Contents(file[fd[j]], snap[j] \cup {j}) : new \in Content
      BY <3>1 DEF Contents, Content
    <3>3. file' \in [Files -> Content]
      BY <1>0, <2>3, <3>2 DEF WriteBack, RestOK
    <3> QED
      BY <1>0, <2>3, <3>3 DEF WriteBack, RestOK
  <2>4. CASE WriteFails(j)
    <3>1. j \in Updates /\ j \in Jobs /\ snap[j] \cup {j} \subseteq Jobs /\ Place(j) \in Files
      BY <1>0, <2>4, TargetOf DEF WriteFails, RestOK, Files
    <3>2. \A part \in SUBSET (snap[j] \cup {j}) : [state |-> "torn", keys |-> part] \in Content
      BY <3>1 DEF Content
    <3>3. file' \in [Files -> Content] /\ spoilt' \subseteq Files
      BY <1>0, <2>4, <3>1, <3>2 DEF WriteFails, RestOK
    <3> QED
      BY <1>0, <2>4, <3>3 DEF WriteFails, RestOK
  <2>5. CASE Rename(j)
    <3>1. file' \in [Files -> Content]
      BY <1>0, <2>0, <2>5 DEF Rename, RestOK, Files
    <3>2. fd' \in [Updates -> Files \cup {"gone"}]
      BY <1>0, <2>5 DEF Rename, RestOK, Files
    <3> QED
      BY <1>0, <2>5, <3>1, <3>2 DEF Rename, RestOK
  <2> QED
    BY <1>2, <2>1, <2>2, <2>3, <2>4, <2>5 DEF Update
<1>3. ASSUME NEW c \in Jobs, Configure(c) PROVE RestOK'
  <2>1. c \in Changes /\ c \in Jobs /\ memory \subseteq Changes /\ Changes \subseteq Jobs
    BY <1>0, <1>3 DEF Configure, RestOK, Jobs
  <2>2. /\ Empty \in Content
        /\ [state |-> "whole", keys |-> memory \cup {c}] \in Content
        /\ [state |-> "torn", keys |-> {}] \in Content
    BY <2>1 DEF Content, Empty
  <2>3. memory' \subseteq Changes
    BY <1>3, <2>1 DEF Configure, LockConfig, SaveConfig, SaveFails
  <2>4. file' \in [Files -> Content]
    BY <1>0, <1>3, <2>2 DEF Configure, LockConfig, SaveConfig, SaveFails, RestOK
  <2>5. UNCHANGED <<fd, snap, spoilt, inbox, trees>>
    BY <1>3 DEF Configure, LockConfig, SaveConfig, SaveFails
  <2> QED
    BY <1>0, <2>3, <2>4, <2>5 DEF RestOK
<1>4. ASSUME NEW j \in Jobs, Mail(j) PROVE RestOK'
  <2>1. CASE OpenInbox(j) \/ SendFails(j)
    BY <1>0, <2>1 DEF OpenInbox, SendFails, RestOK
  <2>2. CASE AppendPart(j)
    BY <1>0, <2>2 DEF AppendPart, RestOK
  <2>3. CASE AppendRest(j)
    BY <1>0, <2>3 DEF AppendRest, RestOK
  <2>4. CASE ReadInbox(j)
    <3>1. lines \in SUBSET Jobs
      BY <1>0 DEF RestOK, Jobs
    <3> QED
      BY <1>0, <2>4, <3>1 DEF ReadInbox, RestOK
  <2>5. CASE RemoveInbox(j)
    BY <1>0, <2>5 DEF RemoveInbox, RestOK
  <2> QED
    BY <1>4, <2>1, <2>2, <2>3, <2>4, <2>5 DEF Mail
<1>5. ASSUME NEW a \in Jobs, Worktree(a) PROVE RestOK'
  <2>1. trees' \in Nat
    BY <1>0, <1>5 DEF Worktree, CountWorktrees, GitEnds, RestOK
  <2> QED
    BY <1>0, <1>5, <2>1 DEF Worktree, CountWorktrees, GitEnds, RestOK
<1>6. CASE Crash
  <2>1. UNCHANGED <<file, fd, snap, inbox, trees>>
    BY <1>6 DEF Crash
  <2>2. memory' \subseteq Changes
    BY <1>6 DEF Crash, Parsed, ConfigKeys
  <2>3. spoilt' \subseteq Files
    <3>1. \A j \in Updates \ ClaudeJobs : Place(j) \in Files
      BY TargetOf DEF Files
    <3>2. "config" \in Files
      BY DEF Files
    <3> QED
      BY <1>0, <1>6, <3>1, <3>2 DEF Crash, RestOK
  <2> QED
    BY <1>0, <2>1, <2>2, <2>3 DEF RestOK
<1>7. CASE UNCHANGED vars
  BY <1>0, <1>7 DEF vars, RestOK
<1> QED
  BY <1>1, <1>2, <1>3, <1>4, <1>5, <1>6, <1>7 DEF Next

-----------------------------------------------------------------------------
(* Where a step takes a job.                                               *)

StepOf(j, from, to) == pc[j] = from /\ pc' = [pc EXCEPT ![j] = to] /\ UNCHANGED told

LEMMA Stages ==
  ASSUME NEW j \in Jobs
  PROVE  /\ Refuse(j) => StepOf(j, "none", "failed")
         /\ ReadFile(j) => j \in Updates /\ StepOf(j, "none", "read")
         /\ Truncate(j) => j \in Updates /\ StepOf(j, "read", "opened")
         /\ WriteBack(j) => /\ j \in Updates
                            /\ StepOf(j, "opened",
                                      IF j \in ClaudeJobs THEN "renaming" ELSE "ended")
         /\ WriteFails(j) => j \in Updates /\ StepOf(j, "opened", "failed")
         /\ Rename(j) => /\ j \in ClaudeJobs
                         /\ StepOf(j, "renaming", "ended") \/ StepOf(j, "renaming", "failed")
         /\ Configure(j) => /\ j \in Changes
                            /\ \/ StepOf(j, "none", "saving")
                               \/ StepOf(j, "saving", "ended")
                               \/ StepOf(j, "saving", "failed")
         /\ Mail(j) => /\ j \in Sends \cup Drains
                       /\ \/ \E to \in {"appending", "ended", "read"} : StepOf(j, "none", to)
                          \/ StepOf(j, "appending", "partial")
                          \/ StepOf(j, "partial", "ended")
                          \/ StepOf(j, "read", "ended")
         /\ Worktree(j) => /\ j \in Adds
                           /\ \/ \E to \in {"failed", "adding"} : StepOf(j, "none", to)
                              \/ \E to \in {"failed", "ended"} : StepOf(j, "adding", to)
<1> USE DEF StepOf
<1>1. ASSUME NEW s, Begin(j, s) PROVE StepOf(j, "none", s)
  BY <1>1 DEF Begin
<1>2. ASSUME NEW from, NEW s, Go(j, from, s) PROVE StepOf(j, from, s)
  BY <1>2 DEF Go
<1> HIDE DEF StepOf
<1>3. Refuse(j) => StepOf(j, "none", "failed")
  BY <1>1 DEF Refuse
<1>4. /\ ReadFile(j) => j \in Updates /\ StepOf(j, "none", "read")
      /\ Truncate(j) => j \in Updates /\ StepOf(j, "read", "opened")
  BY <1>1, <1>2 DEF ReadFile, Truncate
<1>5. /\ WriteBack(j) => /\ j \in Updates
                         /\ StepOf(j, "opened",
                                   IF j \in ClaudeJobs THEN "renaming" ELSE "ended")
      /\ WriteFails(j) => j \in Updates /\ StepOf(j, "opened", "failed")
  BY <1>2 DEF WriteBack, WriteFails
<1>6. Rename(j) => /\ j \in ClaudeJobs
                   /\ StepOf(j, "renaming", "ended") \/ StepOf(j, "renaming", "failed")
  BY <1>2 DEF Rename
<1>7. Configure(j) => /\ j \in Changes
                      /\ \/ StepOf(j, "none", "saving")
                         \/ StepOf(j, "saving", "ended")
                         \/ StepOf(j, "saving", "failed")
  BY <1>1, <1>2 DEF Configure, LockConfig, SaveConfig, SaveFails
<1>8. Mail(j) => /\ j \in Sends \cup Drains
                 /\ \/ \E to \in {"appending", "ended", "read"} : StepOf(j, "none", to)
                    \/ StepOf(j, "appending", "partial")
                    \/ StepOf(j, "partial", "ended")
                    \/ StepOf(j, "read", "ended")
  <2>1. OpenInbox(j) \/ SendFails(j) \/ ReadInbox(j)
          => j \in Sends \cup Drains
               /\ \E to \in {"appending", "ended", "read"} : StepOf(j, "none", to)
    BY <1>1 DEF OpenInbox, SendFails, ReadInbox
  <2>2. AppendPart(j) => j \in Sends /\ StepOf(j, "appending", "partial")
    BY DEF AppendPart, StepOf
  <2>3. /\ AppendRest(j) => j \in Sends /\ StepOf(j, "partial", "ended")
        /\ RemoveInbox(j) => j \in Drains /\ StepOf(j, "read", "ended")
    BY <1>2 DEF AppendRest, RemoveInbox
  <2> QED
    BY <2>1, <2>2, <2>3 DEF Mail
<1>9. Worktree(j) => /\ j \in Adds
                     /\ \/ \E to \in {"failed", "adding"} : StepOf(j, "none", to)
                        \/ \E to \in {"failed", "ended"} : StepOf(j, "adding", to)
  <2>1. CountWorktrees(j) => j \in Adds /\ \E to \in {"failed", "adding"} : StepOf(j, "none", to)
    BY <1>1 DEF CountWorktrees
  <2>2. ASSUME NEW made \in {0, 1}, GitEnds(j, made)
        PROVE  j \in Adds /\ \E to \in {"failed", "ended"} : StepOf(j, "adding", to)
    BY <1>2, <2>2 DEF GitEnds
  <2> QED
    BY <2>1, <2>2 DEF Worktree
<1> QED
  BY <1>3, <1>4, <1>5, <1>6, <1>7, <1>8, <1>9

\* The steps of one job.
Job(j) == Refuse(j) \/ Update(j) \/ Configure(j) \/ Mail(j) \/ Worktree(j)

\* Whatever a job does, it does not go on when it is over, and only ReadFile and Truncate
\* lead where a file is read or open.
LEMMA JobMoves ==
  ASSUME NEW j \in Jobs, Job(j)
  PROVE  \E from, to : /\ StepOf(j, from, to) /\ from \notin Over
                       /\ to = "opened" => Truncate(j)
                       /\ to # "none"
                       /\ from = "none" \/ from \in Working
                       /\ from # "none" /\ to \in Working => from \in Working
<1> USE DEF Over, Working
<1>1. CASE Refuse(j)
  BY <1>1, Stages
<1>2. CASE Update(j)
  BY <1>2, Stages DEF Update
<1>3. CASE Configure(j)
  BY <1>3, Stages
<1>4. CASE Mail(j)
  BY <1>4, Stages
<1>5. CASE Worktree(j)
  BY <1>5, Stages
<1> QED
  BY <1>1, <1>2, <1>3, <1>4, <1>5 DEF Job

\* What a job has open is a file of its place, or the sibling.
LEMMA Descriptors ==
  ASSUME TypeOK, FdOK, [Next]_vars
  PROVE  FdOK'
<1> USE DEF files, job
<1>1. ASSUME UNCHANGED fd, \A i \in Updates : pc'[i] = "opened" => pc[i] = "opened"
      PROVE  FdOK'
  BY <1>1 DEF FdOK
<1>2. ASSUME NEW j \in Jobs, Job(j), ~Truncate(j)
      PROVE  \A i \in Updates : pc'[i] = "opened" => pc[i] = "opened"
  <2>1. PICK from, to : StepOf(j, from, to) /\ (to = "opened" => Truncate(j))
    BY <1>2, JobMoves
  <2>2. pc' = [pc EXCEPT ![j] = to] /\ to # "opened" /\ pc \in [Jobs -> States]
    BY <1>2, <2>1, TypeParts DEF StepOf, JobsOK
  <2> QED
    BY <2>2 DEF Jobs
<1>3. ASSUME NEW j \in Jobs, Reply(j) \/ GiveUp(j) PROVE FdOK'
  BY <1>1, <1>3 DEF Reply, GiveUp
<1>4. ASSUME NEW j \in Jobs, Truncate(j) PROVE FdOK'
  <2>1. /\ j \in Updates /\ pc' = [pc EXCEPT ![j] = "opened"]
        /\ fd' = [fd EXCEPT ![j] = Target(j)]
    BY <1>4 DEF Truncate, Go
  <2>2. /\ j \in ClaudeJobs => Target(j) = "tmp"
        /\ j \notin ClaudeJobs => Target(j) = Place(j)
    BY <2>1, TargetOf
  <2> QED
    BY <2>1, <2>2 DEF FdOK, TypeOK
<1>5. ASSUME NEW j \in Jobs, Rename(j), ~Truncate(j) PROVE FdOK'
  <2>1. \A i \in Updates : pc'[i] = "opened" => pc[i] = "opened"
    BY <1>2, <1>5 DEF Job, Update
  <2>2. \/ fd' = fd
        \/ fd' = [i \in Updates |-> IF i \notin ClaudeJobs THEN fd[i]
                                    ELSE IF fd[i] = "tmp" THEN "claude" ELSE "gone"]
    BY <1>5 DEF Rename
  <2> QED
    BY <2>1, <2>2 DEF FdOK
<1>6. ASSUME NEW j \in Jobs, Job(j), ~Truncate(j), ~Rename(j) PROVE FdOK'
  <2>1. CASE Refuse(j) \/ ReadFile(j) \/ WriteBack(j) \/ WriteFails(j)
    BY <1>1, <1>2, <1>6, <2>1 DEF Refuse, ReadFile, WriteBack, WriteFails
  <2>2. CASE Configure(j)
    BY <1>1, <1>2, <1>6, <2>2 DEF Configure, LockConfig, SaveConfig, SaveFails
  <2>3. CASE Mail(j)
    BY <1>1, <1>2, <1>6, <2>3 DEF Mail, OpenInbox, SendFails, AppendPart, AppendRest,
                                  ReadInbox, RemoveInbox
  <2>4. CASE Worktree(j)
    BY <1>1, <1>2, <1>6, <2>4 DEF Worktree, CountWorktrees, GitEnds
  <2> QED
    BY <1>6, <2>1, <2>2, <2>3, <2>4 DEF Job, Update
<1>7. CASE Crash
  BY <1>1, <1>7 DEF Crash, TypeOK, Jobs, Working
<1>8. CASE UNCHANGED vars
  BY <1>1, <1>8 DEF vars
<1> QED
  BY <1>3, <1>4, <1>5, <1>6, <1>7, <1>8 DEF Next, Job, Update

-----------------------------------------------------------------------------
(* The core's configuration.                                               *)

\* File and memory, whoever has the mutex.
ConfigFile ==
  /\ file["config"].state # "whole" => file["config"].keys = {}
  /\ file["config"].state = "whole" => file["config"].keys = memory
  /\ \A c \in Changes : pc[c] = "saving" => file["config"].state = "empty"
  /\ file["config"].state \in {"none", "empty"} /\ (\A c \in Changes : pc[c] # "saving")
       => memory = {}

\* Settings that are in force.
InForce ==
  \A c \in Changes :
    /\ c \in memory => pc[c] = "ended"
    /\ pc[c] = "ended" /\ "config" \notin spoilt => c \in memory

\* An answer is about how the job ended.
Answers ==
  \A j \in Jobs : /\ told[j] = "ok" => pc[j] = "ended"
                  /\ told[j] = "error" => pc[j] = "failed"

LEMMA AnswersStep ==
  ASSUME TypeOK, Answers, [Next]_vars
  PROVE  Answers'
<1> USE DEF files, job
<1>1. ASSUME NEW j \in Jobs, Job(j) PROVE Answers'
  <2>1. PICK from, to : StepOf(j, from, to) /\ from \notin Over
    BY <1>1, JobMoves
  <2>2. /\ pc[j] \notin {"ended", "failed"} /\ pc' = [pc EXCEPT ![j] = to] /\ told' = told
        /\ pc \in [Jobs -> States]
    BY <2>1, TypeParts DEF StepOf, Over, JobsOK
  <2> QED
    BY <2>2 DEF Answers
<1>2. ASSUME NEW j \in Jobs, Reply(j) \/ GiveUp(j) PROVE Answers'
  BY <1>2 DEF Reply, GiveUp, Answers, TypeOK
<1>3. CASE Crash
  <2>1. \A j \in Jobs : pc[j] \in {"ended", "failed"} => pc'[j] = pc[j]
    BY <1>3 DEF Crash, Working
  <2>2. \A j \in Jobs : told'[j] = told[j] \/ told'[j] = "nobody"
    BY <1>3 DEF Crash
  <2> QED
    BY <2>1, <2>2 DEF Answers
<1>4. CASE UNCHANGED vars
  BY <1>4 DEF vars, Answers
<1> QED
  BY <1>1, <1>2, <1>3, <1>4 DEF Next, Job

\* A step that leaves the configuration alone, except that a change may be refused.
LEMMA ConfigAlone ==
  ASSUME TypeOK, ConfigFile, InForce,
         file'["config"] = file["config"], memory' = memory, spoilt \subseteq spoilt',
         \A c \in Changes : pc'[c] = pc[c] \/ (pc[c] = "none" /\ pc'[c] = "failed")
  PROVE  ConfigFile' /\ InForce'
BY DEF ConfigFile, InForce

LEMMA ConfigStep ==
  ASSUME TypeOK, FdOK, ConfigFile, InForce, [Next]_vars
  PROVE  ConfigFile' /\ InForce'
<1> USE DEF files, inbox, job
<1>1. ASSUME NEW j \in Jobs, Refuse(j) PROVE ConfigFile' /\ InForce'
  <2>1. \A c \in Changes : pc'[c] = pc[c] \/ (pc[c] = "none" /\ pc'[c] = "failed")
    BY <1>1, Stages, TypeParts DEF StepOf, JobsOK, Jobs
  <2> QED
    BY <1>1, <2>1, ConfigAlone DEF Refuse
<1>2. ASSUME NEW j \in Jobs, Reply(j) \/ GiveUp(j) PROVE ConfigFile' /\ InForce'
  BY <1>2, ConfigAlone DEF Reply, GiveUp
<1>3. ASSUME NEW j \in Jobs, NEW from, NEW to, j \notin Changes, StepOf(j, from, to)
      PROVE  \A c \in Changes : pc'[c] = pc[c]
  BY <1>3, TypeParts DEF StepOf, JobsOK, Jobs
<1>4. ASSUME NEW j \in Jobs, Update(j) PROVE ConfigFile' /\ InForce'
  <2>1. j \in Updates /\ j \notin Changes
    BY <1>4, Stages DEF Update, Updates
  <2>2. \A c \in Changes : pc'[c] = pc[c]
    BY <1>3, <1>4, <2>1, Stages DEF Update
  <2>3. Target(j) # "config" /\ fd[j] # "config" /\ Place(j) # "config"
    <3>1. Place(j) \in {"json", "text", "claude"} /\ Target(j) \in {"tmp", Place(j)}
      BY <2>1, TargetOf
    <3>2. fd[j] \in {"tmp", "claude", "gone", Place(j)}
      BY <2>1 DEF FdOK
    <3> QED
      BY <3>1, <3>2
  <2>4. file \in [Files -> Content] /\ "config" \in Files
    BY TypeParts DEF RestOK, Files
  <2>5. file'["config"] = file["config"]
    BY <1>4, <2>3, <2>4
       DEF Update, ReadFile, Truncate, WriteBack, WriteFails, Rename
  <2>6. memory' = memory /\ spoilt \subseteq spoilt'
    BY <1>4 DEF Update, ReadFile, Truncate, WriteBack, WriteFails, Rename
  <2> QED
    BY <2>2, <2>5, <2>6, ConfigAlone
<1>5. ASSUME NEW c \in Jobs, Configure(c) PROVE ConfigFile' /\ InForce'
  <2>0. /\ c \in Changes /\ file \in [Files -> Content] /\ "config" \in Files
        /\ pc \in [Jobs -> States] /\ \A d \in Changes : d \in Jobs
    BY <1>5, Stages, TypeParts DEF RestOK, JobsOK, Files, Jobs
  <2>1. CASE LockConfig(c)
    <3>1. /\ pc[c] = "none" /\ pc' = [pc EXCEPT ![c] = "saving"] /\ memory' = memory
          /\ \A d \in Changes : pc[d] # "saving"
          /\ file'["config"] = Empty /\ spoilt' = spoilt
      BY <2>0, <2>1 DEF LockConfig, Begin
    <3>2. Empty.state = "empty" /\ Empty.keys = {}
      BY DEF Empty
    <3>3. ConfigFile'
      BY <2>0, <3>1, <3>2 DEF ConfigFile
    <3> QED
      BY <2>0, <3>1, <3>3 DEF InForce
  <2>2. CASE SaveConfig(c)
    <3>1. /\ pc[c] = "saving" /\ pc' = [pc EXCEPT ![c] = "ended"]
          /\ memory' = memory \cup {c} /\ spoilt' = spoilt
          /\ file'["config"] = [state |-> "whole", keys |-> memory \cup {c}]
      BY <2>0, <2>2 DEF SaveConfig, Go
    <3>2. \A d \in Changes : pc'[d] # "saving"
      BY <2>0, <3>1, TypeParts DEF JobsOK, Mutex
    <3>3. ConfigFile'
      BY <3>1, <3>2 DEF ConfigFile
    <3> QED
      BY <2>0, <3>1, <3>3 DEF InForce
  <2>3. CASE SaveFails(c)
    <3>1. /\ pc[c] = "saving" /\ pc' = [pc EXCEPT ![c] = "failed"]
          /\ memory' = memory /\ spoilt' = spoilt
          /\ file'["config"] = [state |-> "torn", keys |-> {}]
      BY <2>0, <2>3 DEF SaveFails, Go
    <3>2. \A d \in Changes : pc'[d] # "saving"
      BY <2>0, <3>1, TypeParts DEF JobsOK, Mutex
    <3>3. ConfigFile'
      BY <3>1, <3>2 DEF ConfigFile
    <3> QED
      BY <2>0, <3>1, <3>3 DEF InForce
  <2> QED
    BY <1>5, <2>1, <2>2, <2>3 DEF Configure
<1>6. ASSUME NEW j \in Jobs, Mail(j) PROVE ConfigFile' /\ InForce'
  <2>1. j \notin Changes
    BY <1>6, Stages
  <2>2. \A c \in Changes : pc'[c] = pc[c]
    BY <1>3, <1>6, <2>1, Stages
  <2>3. UNCHANGED <<file, memory, spoilt>>
    BY <1>6 DEF Mail, OpenInbox, SendFails, AppendPart, AppendRest, ReadInbox, RemoveInbox
  <2> QED
    BY <2>2, <2>3, ConfigAlone
<1>7. ASSUME NEW a \in Jobs, Worktree(a) PROVE ConfigFile' /\ InForce'
  <2>1. a \notin Changes
    BY <1>7, Stages
  <2>2. \A c \in Changes : pc'[c] = pc[c]
    BY <1>3, <1>7, <2>1, Stages
  <2>3. UNCHANGED <<file, memory, spoilt>>
    BY <1>7 DEF Worktree, CountWorktrees, GitEnds
  <2> QED
    BY <2>2, <2>3, ConfigAlone
<1>8. CASE Crash
  <2>1. /\ file' = file
        /\ memory' = Parsed("config") /\ spoilt \subseteq spoilt'
        /\ memory # Parsed("config") => "config" \in spoilt'
    BY <1>8 DEF Crash
  <2>2. \A c \in Changes : /\ pc'[c] # "saving"
                           /\ pc[c] = "ended" => pc'[c] = "ended"
                           /\ pc'[c] = "ended" => pc[c] = "ended"
    BY <1>8 DEF Crash, Jobs, Working
  <2>3. Parsed("config") = IF file["config"].state = "whole" THEN memory ELSE {}
    BY DEF Parsed, ConfigFile
  <2>4. ConfigFile'
    BY <2>1, <2>2, <2>3 DEF ConfigFile
  <2> QED
    BY <2>1, <2>2, <2>3, <2>4 DEF InForce
<1>9. CASE UNCHANGED vars
  BY <1>9, ConfigAlone DEF vars
<1> QED
  BY <1>1, <1>2, <1>4, <1>5, <1>6, <1>7, <1>8, <1>9 DEF Next

-----------------------------------------------------------------------------
(* Updates.                                                                *)

\* Jobs that are at work in one place know of each other.
Meeting ==
  /\ \A j \in Jobs : pc[j] = "none" => met[j] = {}
  /\ \A i, j \in Jobs :
       i # j /\ pc[i] \in Working /\ pc[j] \in Working /\ Place(i) = Place(j) => j \in met[i]

\* What a job met is not forgotten.
Remembers == \A i \in Jobs : met[i] \subseteq met'[i]

LEMMA MeetingStep ==
  ASSUME TypeOK, Meeting, [Next]_vars
  PROVE  Meeting' /\ Remembers
<1> USE DEF job
<1>0. pc \in [Jobs -> States] /\ met \in [Jobs -> SUBSET Jobs]
  BY TypeParts DEF JobsOK
<1>1. ASSUME NEW j \in Jobs, NEW s, s # "none", Begin(j, s) PROVE Meeting' /\ Remembers
  <2> DEFINE others == AtWork(Place(j))
  <2>1. /\ pc[j] = "none" /\ pc' = [pc EXCEPT ![j] = s]
        /\ met' = [i \in Jobs |-> IF i = j THEN others
                                  ELSE IF i \in others THEN met[i] \cup {j} ELSE met[i]]
    BY <1>1 DEF Begin
  <2>2. \A i \in Jobs : i \in others <=> pc[i] \in Working /\ Place(i) = Place(j)
    BY DEF AtWork
  <2>3. j \notin others /\ met[j] = {}
    BY <2>1, <2>2 DEF Meeting, Working
  <2> HIDE DEF others
  <2>4. Remembers
    BY <2>1, <2>3 DEF Remembers
  <2>5. \A i \in Jobs : pc'[i] = "none" => met'[i] = {}
    <3>1. "none" \notin Working
      BY DEF Working
    <3> QED
      BY <1>0, <1>1, <2>1, <2>2, <3>1 DEF Meeting
  <2>6. ASSUME NEW i \in Jobs, NEW k \in Jobs, i # k, pc'[i] \in Working, pc'[k] \in Working,
               Place(i) = Place(k)
        PROVE  k \in met'[i]
    <3>1. CASE i = j
      BY <1>0, <2>1, <2>2, <2>6, <3>1
    <3>2. CASE k = j /\ i # j
      BY <1>0, <2>1, <2>2, <2>6, <3>2
    <3>3. CASE i # j /\ k # j
      <4>1. k \in met[i]
        BY <1>0, <2>1, <2>6, <3>3 DEF Meeting
      <4> QED
        BY <2>4, <4>1 DEF Remembers
    <3> QED
      BY <3>1, <3>2, <3>3
  <2> QED
    BY <2>4, <2>5, <2>6 DEF Meeting
<1>2. ASSUME NEW j \in Jobs, pc[j] \in Working, NEW s, s # "none",
             pc' = [pc EXCEPT ![j] = s], Remembers,
             \A i \in Jobs : i # j => met'[i] = met[i]
      PROVE  Meeting' /\ Remembers
  <2>1. \A i \in Jobs : /\ pc'[i] = "none" => pc[i] = "none" /\ i # j
                        /\ pc'[i] \in Working => pc[i] \in Working
    BY <1>0, <1>2
  <2> QED
    BY <1>2, <2>1 DEF Meeting, Remembers
<1>3. ASSUME NEW j \in Jobs, NEW from, NEW s, from \in Working, s # "none", Go(j, from, s)
      PROVE  Meeting' /\ Remembers
  BY <1>2, <1>3 DEF Go, Remembers
<1>4. ASSUME NEW j \in Jobs, Refuse(j) PROVE Meeting' /\ Remembers
  BY <1>1, <1>4 DEF Refuse
<1>5. ASSUME NEW j \in Jobs, Reply(j) \/ GiveUp(j) PROVE Meeting' /\ Remembers
  BY <1>5 DEF Reply, GiveUp, Meeting, Remembers
<1>6. ASSUME NEW j \in Jobs, Update(j) PROVE Meeting' /\ Remembers
  <2>1. {"read", "opened", "renaming"} \subseteq Working
    BY DEF Working
  <2> QED
    BY <1>1, <1>3, <1>6, <2>1 DEF Update, ReadFile, Truncate, WriteBack, WriteFails, Rename
<1>7. ASSUME NEW c \in Jobs, Configure(c) PROVE Meeting' /\ Remembers
  <2>1. "saving" \in Working
    BY DEF Working
  <2> QED
    BY <1>1, <1>3, <1>7, <2>1 DEF Configure, LockConfig, SaveConfig, SaveFails
<1>8. ASSUME NEW j \in Jobs, Mail(j) PROVE Meeting' /\ Remembers
  <2>1. {"appending", "partial", "read"} \subseteq Working
    BY DEF Working
  <2>2. CASE AppendPart(j)
    <3>1. /\ pc[j] = "appending" /\ pc' = [pc EXCEPT ![j] = "partial"]
          /\ met' = met \/ met' = [met EXCEPT ![j] = @ \cup unfinished]
      BY <2>2 DEF AppendPart
    <3>2. Remembers /\ \A i \in Jobs : i # j => met'[i] = met[i]
      BY <1>0, <3>1 DEF Remembers
    <3> QED
      BY <1>2, <2>1, <3>1, <3>2
  <2> QED
    BY <1>1, <1>3, <1>8, <2>1, <2>2
       DEF Mail, OpenInbox, SendFails, AppendRest, ReadInbox, RemoveInbox
<1>9. ASSUME NEW a \in Jobs, Worktree(a) PROVE Meeting' /\ Remembers
  <2>1. "adding" \in Working
    BY DEF Working
  <2> QED
    BY <1>1, <1>3, <1>9, <2>1 DEF Worktree, CountWorktrees, GitEnds
<1>10. CASE Crash
  <2>1. /\ \A j \in Jobs : /\ pc'[j] = "none" => pc[j] = "none"
                           /\ pc'[j] \in Working => pc[j] \in Working
        /\ met' = met
    BY <1>10 DEF Crash, Working
  <2> QED
    BY <2>1 DEF Meeting, Remembers
<1>11. CASE UNCHANGED vars
  BY <1>11 DEF vars, Meeting, Remembers
<1> QED
  BY <1>4, <1>5, <1>6, <1>7, <1>8, <1>9, <1>10, <1>11 DEF Next

Clean(f) == Serial(f) /\ f \notin spoilt

Done(f) == {e \in Updates : Place(e) = f /\ pc[e] = "ended"}

BeingWritten(f) == f # "claude" /\ \E w \in Updates : Place(w) = f /\ pc[w] = "opened"

\* What a job at work has in its hands.
InHand(f, i) ==
  /\ pc[i] = "read" => Parsed(f) \subseteq snap[i]
  /\ pc[i] = "opened" => /\ fd[i] = Target(i) /\ file[Target(i)].state = "empty"
                         /\ Done(f) \subseteq snap[i]
  /\ pc[i] = "renaming" /\ i \in ClaudeJobs =>
       /\ file["tmp"].state = "whole"
       /\ Done(f) \cup {i} \subseteq file["tmp"].keys

\* Where the updates of a place are while its jobs come one after another: in the file,
\* and before that with the job that is at work.
Kept(f) ==
  Clean(f) =>
    /\ Done(f) \subseteq Parsed(f) \/ BeingWritten(f)
    /\ \A i \in Updates : Place(i) = f => InHand(f, i)

\* Jobs of a place that never met are at work one at a time.
LEMMA Alone ==
  ASSUME Meeting, NEW f, Serial(f), NEW j \in Jobs, Place(j) = f, pc[j] \in Working,
         NEW i \in Jobs, i # j, Place(i) = f
  PROVE  pc[i] \notin Working
BY DEF Meeting, Serial

LEMMA KeptElsewhere ==
  ASSUME NEW f \in {"json", "text", "claude"}, Kept(f), Clean(f),
         file'[f] = file[f], f = "claude" => file'["tmp"] = file["tmp"],
         \A i \in Updates :
           Place(i) = f => /\ pc'[i] = pc[i] \/ pc'[i] \notin Working \cup {"ended"}
                           /\ pc[i] = "opened" /\ f # "claude" => pc'[i] = "opened"
                           /\ snap'[i] = snap[i] /\ fd'[i] = fd[i]
  PROVE  Kept(f)'
<1>1. Parsed(f)' = Parsed(f)
  BY DEF Parsed
<1>2. Done(f)' \subseteq Done(f)
  BY DEF Done
<1>3. Done(f)' \subseteq Parsed(f)' \/ BeingWritten(f)'
  BY <1>1, <1>2 DEF Kept, BeingWritten
<1>4. ASSUME NEW i \in Updates, Place(i) = f PROVE InHand(f, i)'
  <2>1. InHand(f, i) /\ snap'[i] = snap[i] /\ fd'[i] = fd[i]
    BY <1>4 DEF Kept
  <2>2. /\ pc'[i] = "read" => pc[i] = "read"
        /\ pc'[i] = "opened" => pc[i] = "opened"
        /\ pc'[i] = "renaming" => pc[i] = "renaming"
    BY <1>4 DEF Working
  <2>3. file'[Target(i)] = file[Target(i)]
    BY <1>4, TargetOf
  <2>4. i \in ClaudeJobs => file'["tmp"] = file["tmp"]
    BY <1>4, TargetOf
  <2> QED
    BY <1>1, <1>2, <2>1, <2>2, <2>3, <2>4 DEF InHand
<1> QED
  BY <1>3, <1>4 DEF Kept

\* Job j is the only one of its place at work: what the others did is done.
LEMMA KeptAlone ==
  ASSUME NEW f, NEW j \in Updates, Place(j) = f,
         \A i \in Updates : i # j /\ Place(i) = f => pc'[i] \notin Working,
         InHand(f, j)', Done(f)' \subseteq Parsed(f)' \/ BeingWritten(f)'
  PROVE  Kept(f)'
<1>1. ASSUME NEW i \in Updates, i # j, Place(i) = f PROVE InHand(f, i)'
  BY <1>1 DEF InHand, Working
<1> QED
  BY <1>1 DEF Kept

\* A step of one of the place's own jobs.
LEMMA KeptOwn ==
  ASSUME TypeOK, FdOK, Meeting, NEW f \in {"json", "text", "claude"}, Kept(f), Clean(f),
         Clean(f)', NEW j \in Updates, Place(j) = f, Update(j)
  PROVE  Kept(f)'
<1> USE DEF files, job
<1>0. /\ pc \in [Jobs -> States] /\ met \in [Jobs -> SUBSET Jobs] /\ file \in [Files -> Content]
      /\ fd \in [Updates -> Files \cup {"gone"}] /\ snap \in [Updates \cup Drains -> SUBSET Jobs]
      /\ j \in Jobs /\ \A i \in Updates : i \in Jobs
  BY TypeParts, TargetOf DEF JobsOK, RestOK
<1>1. /\ j \in ClaudeJobs => f = "claude" /\ Target(j) = "tmp"
      /\ j \notin ClaudeJobs => f # "claude" /\ Target(j) = f
      /\ {f, "tmp", "claude"} \subseteq Files
  BY TargetOf DEF Files
<1>2. ASSUME pc[j] \in Working
      PROVE  \A i \in Updates : i # j /\ Place(i) = f => pc[i] \notin Working
  BY <1>0, <1>2, Alone DEF Clean
<1>3. Done(f) \subseteq Parsed(f) \/ BeingWritten(f)
  BY DEF Kept
<1>4. InHand(f, j)
  BY DEF Kept
<1>5. CASE ReadFile(j)
  <2>1. /\ Begin(j, "read") /\ snap'[j] = Parsed(f) /\ file' = file
    BY <1>0, <1>5 DEF ReadFile
  <2>2. pc[j] = "none" /\ pc' = [pc EXCEPT ![j] = "read"] /\ met'[j] = AtWork(f)
    BY <1>0, <2>1 DEF Begin
  <2>3. met'[j] = {}
    BY <1>0 DEF Clean, Serial
  <2>4. \A i \in Updates : i # j /\ Place(i) = f => pc[i] \notin Working
    BY <1>0, <2>2, <2>3 DEF AtWork
  <2>5. \A i \in Updates : i # j /\ Place(i) = f => pc'[i] \notin Working
    BY <1>0, <2>2, <2>4
  <2>6. Parsed(f)' = Parsed(f) /\ Done(f)' = Done(f)
    BY <1>0, <2>1, <2>2 DEF Parsed, Done
  <2>7. ~BeingWritten(f)
    BY <2>2, <2>4 DEF BeingWritten, Working
  <2>8. InHand(f, j)'
    BY <1>0, <2>1, <2>2, <2>6 DEF InHand
  <2> QED
    BY <1>3, <2>5, <2>6, <2>7, <2>8, KeptAlone
<1>6. CASE Truncate(j)
  <2>1. /\ pc[j] = "read" /\ pc' = [pc EXCEPT ![j] = "opened"]
        /\ fd'[j] = Target(j) /\ snap' = snap
        /\ file' = [file EXCEPT ![Target(j)] = Empty]
    BY <1>0, <1>6 DEF Truncate, Go
  <2>2. \A i \in Updates : i # j /\ Place(i) = f => pc[i] \notin Working
    BY <1>2, <2>1 DEF Working
  <2>3. \A i \in Updates : i # j /\ Place(i) = f => pc'[i] \notin Working
    BY <1>0, <2>1, <2>2
  <2>4. ~BeingWritten(f)
    BY <2>1, <2>2 DEF BeingWritten, Working
  <2>5. Done(f)' = Done(f) /\ Done(f) \subseteq snap[j]
    <3>1. Done(f)' = Done(f)
      BY <1>0, <2>1 DEF Done
    <3>2. Parsed(f) \subseteq snap[j]
      BY <1>4, <2>1 DEF InHand
    <3> QED
      BY <1>3, <2>4, <3>1, <3>2
  <2>6. file'[Target(j)].state = "empty"
    BY <1>0, <1>1, <2>1 DEF Empty
  <2>7. InHand(f, j)'
    BY <1>0, <2>1, <2>5, <2>6 DEF InHand
  <2>8. Done(f)' \subseteq Parsed(f)' \/ BeingWritten(f)'
    <3>1. CASE f # "claude"
      BY <1>0, <2>1, <3>1 DEF BeingWritten
    <3>2. CASE f = "claude"
      <4>1. file'[f] = file[f]
        BY <1>0, <1>1, <2>1, <3>2
      <4>2. Parsed(f)' = Parsed(f)
        BY <4>1 DEF Parsed
      <4> QED
        BY <1>3, <2>4, <2>5, <4>2
    <3> QED
      BY <3>1, <3>2
  <2> QED
    BY <2>3, <2>7, <2>8, KeptAlone
<1>7. CASE WriteBack(j)
  <2>1. /\ pc[j] = "opened"
        /\ pc' = [pc EXCEPT ![j] = IF j \in ClaudeJobs THEN "renaming" ELSE "ended"]
        /\ fd' = fd /\ snap' = snap
    BY <1>7 DEF WriteBack, Go
  <2>2. /\ fd[j] = Target(j) /\ file[Target(j)].state = "empty" /\ Done(f) \subseteq snap[j]
    BY <1>4, <2>1 DEF InHand
  <2>3. file' = [file EXCEPT ![Target(j)] = [state |-> "whole", keys |-> snap[j] \cup {j}]]
    <3>1. fd[j] # "gone"
      BY <1>1, <2>2
    <3>2. PICK new \in Contents(file[fd[j]], snap[j] \cup {j}) :
            file' = [file EXCEPT ![fd[j]] = new]
      BY <1>7, <3>1 DEF WriteBack
    <3>3. new = [state |-> "whole", keys |-> snap[j] \cup {j}]
      BY <2>2, <3>2 DEF Contents
    <3> QED
      BY <2>2, <3>2, <3>3
  <2>4. \A i \in Updates : i # j /\ Place(i) = f => pc[i] \notin Working
    BY <1>2, <2>1 DEF Working
  <2>5. \A i \in Updates : i # j /\ Place(i) = f => pc'[i] \notin Working
    BY <1>0, <2>1, <2>4
  <2>6. CASE j \in ClaudeJobs
    <3>1. Done(f)' = Done(f) /\ file'[f] = file[f] /\ ~BeingWritten(f)
      BY <1>0, <1>1, <2>1, <2>3, <2>6 DEF Done, BeingWritten
    <3>2. Parsed(f)' = Parsed(f)
      BY <3>1 DEF Parsed
    <3>3. file'["tmp"] = [state |-> "whole", keys |-> snap[j] \cup {j}]
      BY <1>0, <1>1, <2>3, <2>6
    <3>4. InHand(f, j)'
      BY <1>0, <2>1, <2>2, <2>6, <3>1, <3>3 DEF InHand
    <3> QED
      BY <1>3, <2>5, <3>1, <3>2, <3>4, KeptAlone
  <2>7. CASE j \notin ClaudeJobs
    <3>1. Done(f)' \subseteq Done(f) \cup {j}
      BY <1>0, <2>1 DEF Done
    <3>2. file'[f] = [state |-> "whole", keys |-> snap[j] \cup {j}]
      BY <1>0, <1>1, <2>3, <2>7
    <3>3. Parsed(f)' = snap[j] \cup {j}
      BY <3>2 DEF Parsed
    <3>4. InHand(f, j)'
      BY <1>0, <2>1, <2>7 DEF InHand
    <3> QED
      BY <2>2, <2>5, <3>1, <3>3, <3>4, KeptAlone
  <2> QED
    BY <2>6, <2>7
<1>8. CASE WriteFails(j)
  <2>1. pc[j] = "opened" /\ pc' = [pc EXCEPT ![j] = "failed"] /\ fd[j] = Target(j)
    BY <1>4, <1>8 DEF WriteFails, Go, InHand
  <2>2. j \in ClaudeJobs
    BY <1>1, <1>8, <2>1 DEF WriteFails, Clean
  <2>3. file'[f] = file[f]
    BY <1>0, <1>1, <1>8, <2>1, <2>2 DEF WriteFails
  <2>4. \A i \in Updates : i # j /\ Place(i) = f => pc[i] \notin Working
    BY <1>2, <2>1 DEF Working
  <2>5. \A i \in Updates : i # j /\ Place(i) = f => pc'[i] \notin Working
    BY <1>0, <2>1, <2>4
  <2>6. Done(f)' = Done(f) /\ Parsed(f)' = Parsed(f) /\ ~BeingWritten(f)
    BY <1>0, <1>1, <2>1, <2>2, <2>3 DEF Done, Parsed, BeingWritten
  <2>7. InHand(f, j)'
    BY <1>0, <2>1 DEF InHand
  <2> QED
    BY <1>3, <2>5, <2>6, <2>7, KeptAlone
<1>9. CASE Rename(j)
  <2>1. j \in ClaudeJobs /\ pc[j] = "renaming"
    BY <1>9 DEF Rename, Go
  <2>2. file["tmp"].state = "whole" /\ Done(f) \cup {j} \subseteq file["tmp"].keys
    BY <1>4, <2>1 DEF InHand
  <2>3. /\ pc' = [pc EXCEPT ![j] = "ended"]
        /\ file' = [file EXCEPT !["claude"] = file["tmp"], !["tmp"] = None]
    BY <1>9, <2>2 DEF Rename, Go
  <2>4. \A i \in Updates : i # j /\ Place(i) = f => pc[i] \notin Working
    BY <1>2, <2>1 DEF Working
  <2>5. \A i \in Updates : i # j /\ Place(i) = f => pc'[i] \notin Working
    BY <1>0, <2>3, <2>4
  <2>6. file'[f] = file["tmp"]
    BY <1>0, <1>1, <2>1, <2>3
  <2>7. Parsed(f)' = file["tmp"].keys
    BY <2>2, <2>6 DEF Parsed
  <2>8. Done(f)' \subseteq Done(f) \cup {j}
    BY <1>0, <2>3 DEF Done
  <2>9. InHand(f, j)'
    BY <1>0, <2>3 DEF InHand
  <2> QED
    BY <2>2, <2>5, <2>7, <2>8, <2>9, KeptAlone
<1> QED
  BY <1>5, <1>6, <1>7, <1>8, <1>9 DEF Update

LEMMA SpoiltGrows ==
  ASSUME [Next]_vars
  PROVE  spoilt \subseteq spoilt'
<1> USE DEF files, job
<1>1. ASSUME NEW j \in Jobs, Refuse(j) \/ Reply(j) \/ GiveUp(j) PROVE spoilt \subseteq spoilt'
  BY <1>1 DEF Refuse, Reply, GiveUp
<1>2. ASSUME NEW j \in Jobs, Update(j) PROVE spoilt \subseteq spoilt'
  BY <1>2 DEF Update, ReadFile, Truncate, WriteBack, WriteFails, Rename
<1>3. ASSUME NEW j \in Jobs, Configure(j) \/ Worktree(j) PROVE spoilt \subseteq spoilt'
  BY <1>3 DEF Configure, LockConfig, SaveConfig, SaveFails, Worktree, CountWorktrees, GitEnds
<1>4. ASSUME NEW j \in Jobs, Mail(j) PROVE spoilt \subseteq spoilt'
  BY <1>4 DEF Mail, OpenInbox, SendFails, AppendPart, AppendRest, ReadInbox, RemoveInbox
<1>5. CASE Crash
  BY <1>5 DEF Crash
<1>6. CASE UNCHANGED vars
  BY <1>6 DEF vars
<1> QED
  BY <1>1, <1>2, <1>3, <1>4, <1>5, <1>6 DEF Next

LEMMA KeptStep ==
  ASSUME TypeOK, FdOK, Meeting, NEW f \in {"json", "text", "claude"}, Kept(f), [Next]_vars
  PROVE  Kept(f)'
<1> SUFFICES ASSUME Clean(f)' PROVE Kept(f)'
  BY DEF Kept
<1> USE DEF files, job, inbox
<1>0. /\ pc \in [Jobs -> States] /\ file \in [Files -> Content]
      /\ fd \in [Updates -> Files \cup {"gone"}] /\ snap \in [Updates \cup Drains -> SUBSET Jobs]
      /\ \A i \in Updates : i \in Jobs
  BY TypeParts DEF JobsOK, RestOK, Jobs
<1>1. Clean(f)
  BY MeetingStep, SpoiltGrows DEF Clean, Serial, Remembers
<1>2. ASSUME UNCHANGED <<file, fd, snap>>,
             \A i \in Updates : Place(i) = f =>
               pc'[i] = pc[i] \/ (pc[i] = "none" /\ pc'[i] = "failed")
      PROVE  Kept(f)'
  BY <1>1, <1>2, KeptElsewhere DEF Working
<1>3. ASSUME NEW j \in Jobs, Refuse(j) PROVE Kept(f)'
  <2>1. \A i \in Updates : pc'[i] = pc[i] \/ (pc[i] = "none" /\ pc'[i] = "failed")
    BY <1>0, <1>3, Stages DEF StepOf
  <2> QED
    BY <1>2, <1>3, <2>1 DEF Refuse
<1>4. ASSUME NEW j \in Jobs, Reply(j) \/ GiveUp(j) PROVE Kept(f)'
  BY <1>2, <1>4 DEF Reply, GiveUp
<1>5. ASSUME NEW j \in Jobs, NEW from, NEW to, j \notin Updates, StepOf(j, from, to)
      PROVE  \A i \in Updates : pc'[i] = pc[i]
  BY <1>0, <1>5 DEF StepOf
<1>6. ASSUME NEW j \in Jobs, Update(j) PROVE Kept(f)'
  <2>1. j \in Updates
    BY <1>6, Stages DEF Update, Updates
  <2>2. CASE Place(j) = f
    BY <1>1, <1>6, <2>1, <2>2, KeptOwn
  <2>3. CASE Place(j) # f
    <3>1. PICK from, to : StepOf(j, from, to)
      BY <1>6, JobMoves DEF Job
    <3>2. \A i \in Updates : Place(i) = f => pc'[i] = pc[i]
      BY <1>0, <2>3, <3>1 DEF StepOf
    <3>3. \A i \in Updates : Place(i) = f => snap'[i] = snap[i]
      BY <1>0, <1>6, <2>3 DEF Update, ReadFile, Truncate, WriteBack, WriteFails, Rename
    <3>4. \A i \in Updates : Place(i) = f => fd'[i] = fd[i]
      <4>1. CASE Rename(j)
        <5>1. j \in ClaudeJobs /\ Place(j) = "claude"
          BY <2>1, <4>1, TargetOf DEF Rename
        <5>2. \A i \in Updates : Place(i) = f => i \notin ClaudeJobs
          BY <2>3, <5>1, TargetOf
        <5> QED
          BY <1>0, <4>1, <5>2 DEF Rename
      <4> QED
        BY <1>0, <1>6, <2>3, <4>1 DEF Update, ReadFile, Truncate, WriteBack, WriteFails
    <3>5. /\ Place(j) \in {"json", "text", "claude"} /\ Target(j) \in {"tmp", Place(j)}
          /\ f = "claude" => Target(j) = Place(j)
          /\ j \in ClaudeJobs => f # "claude"
      BY <2>1, <2>3, TargetOf
    <3>6. /\ fd[j] \in {"tmp", "claude", "gone", Place(j)}
          /\ f = "claude" => fd[j] \in {"gone", Place(j)}
          /\ fd[j] = "claude" => f # "claude"
      BY <2>1, <2>3, <3>5 DEF FdOK
    <3>7. file'[f] = file[f] /\ (f = "claude" => file'["tmp"] = file["tmp"])
      <4>1. {f, "tmp"} \subseteq Files
        BY DEF Files
      <4>2. CASE ReadFile(j)
        BY <4>2 DEF ReadFile
      <4>3. CASE Truncate(j)
        BY <1>0, <2>3, <3>5, <4>1, <4>3 DEF Truncate
      <4>4. CASE WriteBack(j)
        BY <1>0, <2>3, <3>5, <3>6, <4>1, <4>4 DEF WriteBack
      <4>5. CASE WriteFails(j)
        BY <1>0, <2>3, <3>5, <3>6, <4>1, <4>5 DEF WriteFails
      <4>6. CASE Rename(j)
        BY <1>0, <2>3, <3>5, <4>1, <4>6 DEF Rename
      <4> QED
        BY <1>6, <4>2, <4>3, <4>4, <4>5, <4>6 DEF Update
    <3> QED
      BY <1>1, <3>2, <3>3, <3>4, <3>7, KeptElsewhere
  <2> QED
    BY <2>2, <2>3
<1>7. ASSUME NEW c \in Jobs, Configure(c) PROVE Kept(f)'
  <2>1. c \notin Updates /\ c \in Changes
    BY <1>7, Stages
  <2>2. \A i \in Updates : pc'[i] = pc[i]
    BY <1>5, <1>7, <2>1, Stages
  <2>3. /\ UNCHANGED <<fd, snap>>
        /\ \A g \in Files : g # "config" => file'[g] = file[g]
    BY <1>0, <1>7 DEF Configure, LockConfig, SaveConfig, SaveFails
  <2>4. file'[f] = file[f] /\ file'["tmp"] = file["tmp"]
    BY <2>3 DEF Files
  <2> QED
    BY <1>1, <2>2, <2>3, <2>4, KeptElsewhere
<1>8. ASSUME NEW j \in Jobs, Mail(j) PROVE Kept(f)'
  <2>1. j \notin Updates
    BY <1>8, Stages
  <2>2. \A i \in Updates : pc'[i] = pc[i]
    BY <1>5, <1>8, <2>1, Stages
  <2>3. UNCHANGED <<file, fd>> /\ \A i \in Updates : snap'[i] = snap[i]
    <3>1. \A i \in Updates : i \notin Drains
      OBVIOUS
    <3> QED
      BY <1>0, <1>8, <3>1
         DEF Mail, OpenInbox, SendFails, AppendPart, AppendRest, ReadInbox, RemoveInbox
  <2> QED
    BY <1>1, <2>2, <2>3, KeptElsewhere
<1>9. ASSUME NEW a \in Jobs, Worktree(a) PROVE Kept(f)'
  <2>1. a \notin Updates
    BY <1>9, Stages
  <2>2. \A i \in Updates : pc'[i] = pc[i]
    BY <1>5, <1>9, <2>1, Stages
  <2>3. UNCHANGED <<file, fd, snap>>
    BY <1>9 DEF Worktree, CountWorktrees, GitEnds
  <2> QED
    BY <1>2, <2>2, <2>3
<1>10. CASE Crash
  <2>1. UNCHANGED <<file, fd, snap>>
    BY <1>10 DEF Crash
  <2>2. \A i \in Updates : pc'[i] = pc[i] \/ pc'[i] \notin Working \cup {"ended"}
    BY <1>0, <1>10 DEF Crash, Working
  <2>3. \A i \in Updates : Place(i) = f /\ pc[i] = "opened" => f = "claude"
    <3>1. ASSUME NEW i \in Updates, Place(i) = f, pc[i] = "opened", f # "claude" PROVE FALSE
      <4>1. i \notin ClaudeJobs
        BY <3>1, TargetOf
      <4>2. f \in spoilt'
        BY <1>10, <3>1, <4>1 DEF Crash
      <4> QED
        BY <4>2 DEF Clean
    <3> QED
      BY <3>1
  <2> QED
    BY <1>1, <2>1, <2>2, <2>3, KeptElsewhere
<1>11. CASE UNCHANGED vars
  BY <1>2, <1>11 DEF vars
<1> QED
  BY <1>3, <1>4, <1>6, <1>7, <1>8, <1>9, <1>10, <1>11 DEF Next

-----------------------------------------------------------------------------
(* The inbox.                                                              *)

\* What has become of a message: it is where its sender's state says, or something was
\* at work beside it.
MailPlaced ==
  /\ \A s \in lines : pc[s] = "ended"
  /\ \A s \in unfinished : pc[s] \in {"partial", "lost"}
  /\ \A s \in detached : met[s] # {} /\ s \notin unfinished
  /\ \A s \in mixed : pc[s] = "lost" \/ met[s] # {}
  /\ \A s \in Sends :
       pc[s] = "ended" =>
         s \in lines \/ (\E d \in Drains : s \in snap[d]) \/ met[s] # {} \/ s \in unwritten

\* What a drain has: it may miss only what came while it was at work, and it has what
\* another has only if they met.
MailTaken ==
  /\ \A d \in Drains :
       /\ pc[d] = "none" => snap[d] = {}
       /\ \A s \in snap[d] : s \in Sends /\ pc[s] = "ended"
       /\ pc[d] = "read" => \A s \in lines : s \in snap[d] \/ met[s] # {}
       /\ pc[d] = "ended" => snap[d] \cap lines = {}
  /\ \A d, e \in Drains :
       d # e /\ pc[d] \in {"read", "ended"} /\ pc[e] \in {"read", "ended"}
         /\ snap[d] \cap snap[e] # {}
         => d \in met[e]

\* A step that leaves the inbox alone.
LEMMA MailAlone ==
  ASSUME TypeOK, MailPlaced, MailTaken, Remembers, UNCHANGED inbox,
         \A d \in Drains : snap'[d] = snap[d],
         \A j \in Sends \cup Drains :
           \/ pc'[j] = pc[j]
           \/ pc[j] = "none" /\ pc'[j] = "failed" /\ j \in Drains
           \/ pc[j] \in Working /\ pc'[j] = "lost"
  PROVE  MailPlaced' /\ MailTaken'
<1> USE DEF inbox
<1>0. /\ lines \subseteq Sends /\ unfinished \subseteq Sends /\ detached \subseteq Sends
      /\ mixed \subseteq Sends
      /\ \A j \in Jobs : met[j] # {} => met'[j] # {}
      /\ Sends \cup Drains \subseteq Jobs
  BY TypeParts DEF RestOK, Remembers, Jobs
<1>1. \A j \in Sends \cup Drains :
        /\ pc[j] = "ended" => pc'[j] = "ended"
        /\ pc'[j] \in {"none", "read", "ended"} => pc'[j] = pc[j]
        /\ pc[j] = "lost" => pc'[j] = "lost"
        /\ pc[j] = "partial" => pc'[j] \in {"partial", "lost"}
  BY DEF Working
<1>2. MailPlaced'
  <2>1. \A s \in lines' : pc'[s] = "ended"
    BY <1>0, <1>1 DEF MailPlaced
  <2>2. \A s \in unfinished' : pc'[s] \in {"partial", "lost"}
    BY <1>0, <1>1 DEF MailPlaced
  <2>3. \A s \in detached' : met'[s] # {} /\ s \notin unfinished'
    BY <1>0 DEF MailPlaced
  <2>4. \A s \in mixed' : pc'[s] = "lost" \/ met'[s] # {}
    BY <1>0, <1>1 DEF MailPlaced
  <2>5. ASSUME NEW s \in Sends, pc'[s] = "ended"
        PROVE  s \in lines' \/ (\E d \in Drains : s \in snap'[d]) \/ met'[s] # {}
                 \/ s \in unwritten'
    BY <1>0, <1>1, <2>5 DEF MailPlaced
  <2> QED
    BY <2>1, <2>2, <2>3, <2>4, <2>5 DEF MailPlaced
<1>3. MailTaken'
  <2>1. ASSUME NEW d \in Drains
        PROVE  /\ pc'[d] = "none" => snap'[d] = {}
               /\ \A s \in snap'[d] : s \in Sends /\ pc'[s] = "ended"
               /\ pc'[d] = "read" => \A s \in lines' : s \in snap'[d] \/ met'[s] # {}
               /\ pc'[d] = "ended" => snap'[d] \cap lines' = {}
    BY <1>0, <1>1 DEF MailTaken
  <2>2. ASSUME NEW d \in Drains, NEW e \in Drains, d # e, pc'[d] \in {"read", "ended"},
               pc'[e] \in {"read", "ended"}, snap'[d] \cap snap'[e] # {}
        PROVE  d \in met'[e]
    <3>1. d \in met[e]
      BY <1>1, <2>2 DEF MailTaken
    <3> QED
      BY <1>0, <3>1 DEF Remembers
  <2> QED
    BY <2>1, <2>2 DEF MailTaken
<1> QED
  BY <1>2, <1>3

LEMMA MailStep ==
  ASSUME TypeOK, Meeting, MailPlaced, MailTaken, [Next]_vars
  PROVE  MailPlaced' /\ MailTaken'
<1> USE DEF files, job, inbox
<1>0. /\ pc \in [Jobs -> States] /\ met \in [Jobs -> SUBSET Jobs]
      /\ snap \in [Updates \cup Drains -> SUBSET Jobs]
      /\ lines \subseteq Sends /\ unfinished \subseteq Sends /\ detached \subseteq Sends
      /\ mixed \subseteq Sends
      /\ Sends \cup Drains \subseteq Jobs
      /\ \A j \in Sends \cup Drains : j \notin Updates /\ j \notin Changes /\ j \notin Adds
      /\ \A d \in Drains : d \notin Sends
  BY TypeParts DEF JobsOK, RestOK, Jobs
<1>r. Remembers
  BY MeetingStep
<1>m. /\ \A j \in Jobs : met[j] # {} => met'[j] # {}
      /\ \A i, j \in Jobs : i \in met[j] => i \in met'[j]
  BY <1>r DEF Remembers
<1>w. ASSUME NEW i \in Jobs, NEW j \in Jobs, i # j, Place(i) = Place(j),
             pc[i] \in Working, pc[j] \in Working
      PROVE  j \in met[i] /\ met[i] # {}
  BY <1>w DEF Meeting
<1>p. \A j \in Sends \cup Drains : Place(j) = "inbox"
  BY <1>0, PlaceOf
<1>1. ASSUME NEW j \in Jobs, Refuse(j) PROVE MailPlaced' /\ MailTaken'
  <2>1. pc[j] = "none" /\ pc' = [pc EXCEPT ![j] = "failed"] /\ j \notin Sends
    BY <1>1, Stages DEF StepOf, Refuse
  <2>2. \A i \in Sends \cup Drains :
          pc'[i] = pc[i] \/ (pc[i] = "none" /\ pc'[i] = "failed" /\ i \in Drains)
    BY <1>0, <2>1
  <2>3. UNCHANGED <<inbox, snap>>
    BY <1>1 DEF Refuse
  <2> QED
    BY <1>r, <2>2, <2>3, MailAlone
<1>2. ASSUME NEW j \in Jobs, Reply(j) \/ GiveUp(j) PROVE MailPlaced' /\ MailTaken'
  BY <1>2, <1>r, MailAlone DEF Reply, GiveUp
<1>3. ASSUME NEW j \in Jobs, Update(j) \/ Configure(j) \/ Worktree(j)
      PROVE  MailPlaced' /\ MailTaken'
  <2>1. j \notin Sends \cup Drains
    BY <1>0, <1>3, Stages DEF Update, Updates
  <2>2. PICK from, to : StepOf(j, from, to)
    BY <1>3, JobMoves DEF Job
  <2>3. \A i \in Sends \cup Drains : pc'[i] = pc[i]
    BY <1>0, <2>1, <2>2 DEF StepOf
  <2>4. UNCHANGED inbox
    <3>1. CASE Update(j)
      BY <3>1 DEF Update, ReadFile, Truncate, WriteBack, WriteFails, Rename
    <3>2. CASE Configure(j)
      BY <3>2 DEF Configure, LockConfig, SaveConfig, SaveFails
    <3>3. CASE Worktree(j)
      BY <3>3 DEF Worktree, CountWorktrees, GitEnds
    <3> QED
      BY <1>3, <3>1, <3>2, <3>3
  <2>5. \A d \in Drains : snap'[d] = snap[d]
    <3>1. snap' = snap \/ \E x : snap' = [snap EXCEPT ![j] = x]
      BY <1>3 DEF Update, ReadFile, Truncate, WriteBack, WriteFails, Rename, Configure,
                  LockConfig, SaveConfig, SaveFails, Worktree, CountWorktrees, GitEnds
    <3> QED
      BY <1>0, <2>1, <3>1
  <2> QED
    BY <1>r, <2>3, <2>4, <2>5, MailAlone
<1>4. ASSUME NEW s \in Jobs, OpenInbox(s) PROVE MailPlaced' /\ MailTaken'
  <2>1. s \in Sends /\ pc[s] = "none" /\ pc' = [pc EXCEPT ![s] = "appending"]
          /\ UNCHANGED <<snap, inbox>>
    BY <1>4 DEF OpenInbox, Begin
  <2>2. /\ s \notin lines /\ s \notin unfinished /\ \A d \in Drains : s \notin snap[d]
        /\ s \in mixed => met[s] # {}
    BY <2>1 DEF MailPlaced, MailTaken
  <2>3. MailPlaced'
    BY <1>0, <1>m, <2>1, <2>2 DEF MailPlaced
  <2>4. MailTaken'
    BY <1>0, <1>m, <2>1, <2>2 DEF MailTaken
  <2> QED
    BY <2>3, <2>4
<1>5. ASSUME NEW s \in Jobs, SendFails(s) PROVE MailPlaced' /\ MailTaken'
  <2>1. s \in Sends /\ pc[s] = "none" /\ pc' = [pc EXCEPT ![s] = "ended"]
          /\ unwritten' = unwritten \cup {s}
          /\ UNCHANGED <<snap, lines, unfinished, mixed, detached>>
    BY <1>5 DEF SendFails, Begin
  <2>2. /\ s \notin lines /\ s \notin unfinished /\ \A d \in Drains : s \notin snap[d]
        /\ s \in mixed => met[s] # {}
    BY <2>1 DEF MailPlaced, MailTaken
  <2>3. MailPlaced'
    BY <1>0, <1>m, <2>1, <2>2 DEF MailPlaced
  <2>4. MailTaken'
    BY <1>0, <1>m, <2>1, <2>2 DEF MailTaken
  <2> QED
    BY <2>3, <2>4
<1>6. ASSUME NEW s \in Jobs, AppendPart(s) PROVE MailPlaced' /\ MailTaken'
  <2>1. s \in Sends /\ pc[s] = "appending" /\ pc' = [pc EXCEPT ![s] = "partial"]
          /\ UNCHANGED <<snap, lines, detached, unwritten>>
    BY <1>6 DEF AppendPart
  <2>2. /\ s \notin lines /\ s \notin unfinished /\ \A d \in Drains : s \notin snap[d]
        /\ s \in mixed => met[s] # {}
    BY <2>1 DEF MailPlaced, MailTaken
  <2>3. \A t \in Sends : t # s => pc'[t] = pc[t]
    BY <1>0, <2>1
  <2>4. \A t \in Drains : pc'[t] = pc[t]
    BY <1>0, <2>1
  <2>5. unfinished' \subseteq unfinished \cup {s}
    BY <1>6 DEF AppendPart
  <2>6. ASSUME NEW t \in mixed' PROVE pc'[t] = "lost" \/ met'[t] # {}
    <3>1. CASE t \in mixed
      BY <1>0, <1>m, <2>1, <2>2, <2>3, <3>1 DEF MailPlaced
    <3>2. CASE t \notin mixed
      <4>1. /\ unfinished # {} /\ t \in unfinished \cup {s}
            /\ met' = [met EXCEPT ![s] = @ \cup unfinished]
        BY <1>6, <2>6, <3>2 DEF AppendPart
      <4>2. CASE t = s
        BY <1>0, <4>1, <4>2
      <4>3. CASE t # s
        <5>1. t \in Sends /\ pc[t] \in {"partial", "lost"}
          BY <1>0, <4>1, <4>3 DEF MailPlaced
        <5>2. CASE pc[t] = "partial"
          <6>1. pc[t] \in Working /\ pc[s] \in Working
            BY <2>1, <5>2 DEF Working
          <6>2. met[t] # {}
            BY <1>0, <1>p, <1>w, <2>1, <4>3, <5>1, <6>1
          <6> QED
            BY <1>0, <1>m, <5>1, <6>2
        <5>3. CASE pc[t] = "lost"
          BY <2>3, <4>3, <5>1, <5>3
        <5> QED
          BY <5>1, <5>2, <5>3
      <4> QED
        BY <4>2, <4>3
    <3> QED
      BY <3>1, <3>2
  <2>7. \A t \in unfinished' : pc'[t] \in {"partial", "lost"}
    BY <1>0, <2>1, <2>3, <2>5 DEF MailPlaced
  <2>8. /\ \A t \in lines' : pc'[t] = "ended"
        /\ \A t \in detached' : met'[t] # {} /\ t \notin unfinished'
    BY <1>0, <1>6, <1>m, <2>1, <2>2, <2>3 DEF MailPlaced, AppendPart
  <2>9. ASSUME NEW t \in Sends, pc'[t] = "ended"
        PROVE  t \in lines' \/ (\E d \in Drains : t \in snap'[d]) \/ met'[t] # {}
                 \/ t \in unwritten'
    <3>1. t # s /\ pc[t] = "ended"
      BY <1>0, <2>1, <2>3, <2>9
    <3> QED
      BY <1>0, <1>m, <2>1, <3>1 DEF MailPlaced
  <2>10. MailPlaced'
    BY <2>6, <2>7, <2>8, <2>9 DEF MailPlaced
  <2>11. MailTaken'
    BY <1>0, <1>m, <2>1, <2>2, <2>3, <2>4 DEF MailTaken
  <2> QED
    BY <2>10, <2>11
<1>7. ASSUME NEW s \in Jobs, AppendRest(s) PROVE MailPlaced' /\ MailTaken'
  <2>1. s \in Sends /\ pc[s] = "partial" /\ pc' = [pc EXCEPT ![s] = "ended"]
          /\ UNCHANGED <<snap, mixed, detached, unwritten, met>>
    BY <1>7 DEF AppendRest, Go
  <2>2. /\ \A t \in Sends : t # s => pc'[t] = pc[t]
        /\ \A t \in Drains : pc'[t] = pc[t]
        /\ pc'[s] = "ended"
    BY <1>0, <2>1
  <2>3. /\ lines \subseteq lines' /\ lines' \subseteq lines \cup {s}
        /\ s \notin detached => unfinished' \subseteq {t \in unfinished \ {s} : pc[t] = "partial"}
        /\ s \in detached => unfinished' = unfinished
        /\ s \notin detached /\ s \notin mixed => s \in lines'
    BY <1>7 DEF AppendRest
  <2>4. /\ s \notin lines /\ \A d \in Drains : s \notin snap[d]
        /\ s \in mixed => met[s] # {}
    BY <2>1 DEF MailPlaced, MailTaken
  <2>5. \A d \in Drains : pc[d] = "read" => met[s] # {}
    BY <1>0, <1>p, <1>w, <2>1 DEF Working
  <2>6. \A t \in lines' : pc'[t] = "ended"
    BY <1>0, <2>2, <2>3 DEF MailPlaced
  <2>7. ASSUME NEW t \in unfinished' PROVE pc'[t] \in {"partial", "lost"}
    <3>1. CASE s \in detached
      <4>1. t \in unfinished /\ t # s
        BY <2>3, <2>7, <3>1 DEF MailPlaced
      <4> QED
        BY <1>0, <2>2, <4>1 DEF MailPlaced
    <3>2. CASE s \notin detached
      <4>1. t \in unfinished /\ t # s /\ pc[t] = "partial"
        BY <2>3, <2>7, <3>2
      <4> QED
        BY <1>0, <2>2, <4>1
    <3> QED
      BY <3>1, <3>2
  <2>8. \A t \in detached' : met'[t] # {} /\ t \notin unfinished'
    BY <2>1, <2>3 DEF MailPlaced
  <2>9. ASSUME NEW t \in mixed' PROVE pc'[t] = "lost" \/ met'[t] # {}
    BY <1>0, <2>1, <2>2, <2>4, <2>9 DEF MailPlaced
  <2>10. ASSUME NEW t \in Sends, pc'[t] = "ended"
         PROVE  t \in lines' \/ (\E d \in Drains : t \in snap'[d]) \/ met'[t] # {}
                  \/ t \in unwritten'
    <3>1. CASE t = s
      BY <2>1, <2>3, <2>4, <3>1 DEF MailPlaced
    <3>2. CASE t # s
      BY <2>1, <2>2, <2>3, <2>10, <3>2 DEF MailPlaced
    <3> QED
      BY <3>1, <3>2
  <2>11. MailPlaced'
    BY <2>6, <2>7, <2>8, <2>9, <2>10 DEF MailPlaced
  <2>12. ASSUME NEW d \in Drains
         PROVE  /\ pc'[d] = "none" => snap'[d] = {}
                /\ \A t \in snap'[d] : t \in Sends /\ pc'[t] = "ended"
                /\ pc'[d] = "read" => \A t \in lines' : t \in snap'[d] \/ met'[t] # {}
                /\ pc'[d] = "ended" => snap'[d] \cap lines' = {}
    BY <2>1, <2>2, <2>3, <2>4, <2>5 DEF MailTaken
  <2>13. MailTaken'
    BY <2>1, <2>2, <2>12 DEF MailTaken
  <2> QED
    BY <2>11, <2>13
<1>8. ASSUME NEW d \in Jobs, ReadInbox(d) PROVE MailPlaced' /\ MailTaken'
  <2>1. d \in Drains /\ pc[d] = "none" /\ pc' = [pc EXCEPT ![d] = "read"]
          /\ snap' = [snap EXCEPT ![d] = lines] /\ UNCHANGED inbox
    BY <1>8 DEF ReadInbox, Begin
  <2>2. /\ \A t \in Sends : pc'[t] = pc[t]
        /\ \A t \in Drains : t # d => pc'[t] = pc[t] /\ snap'[t] = snap[t]
        /\ pc'[d] = "read" /\ snap'[d] = lines /\ snap[d] = {}
    BY <1>0, <2>1 DEF MailTaken
  <2>3. MailPlaced'
    BY <1>0, <1>m, <2>1, <2>2 DEF MailPlaced
  <2>4. ASSUME NEW e \in Drains, e # d, pc[e] \in {"read", "ended"},
               lines \cap snap[e] # {}
        PROVE  d \in met'[e] /\ e \in met'[d]
    <3>1. pc[e] = "read"
      BY <2>4 DEF MailTaken
    <3>2. e \in AtWork(Place(d)) /\ e \in Jobs
      BY <1>0, <1>p, <2>1, <2>4, <3>1 DEF AtWork, Working
    <3>3. met' = [i \in Jobs |-> IF i = d THEN AtWork(Place(d))
                                 ELSE IF i \in AtWork(Place(d)) THEN met[i] \cup {d}
                                 ELSE met[i]]
      BY <1>8 DEF ReadInbox, Begin
    <3> QED
      BY <2>4, <3>2, <3>3
  <2>5. ASSUME NEW e \in Drains
        PROVE  /\ pc'[e] = "none" => snap'[e] = {}
               /\ \A t \in snap'[e] : t \in Sends /\ pc'[t] = "ended"
               /\ pc'[e] = "read" => \A t \in lines' : t \in snap'[e] \/ met'[t] # {}
               /\ pc'[e] = "ended" => snap'[e] \cap lines' = {}
    <3>1. CASE e = d
      BY <1>0, <2>1, <2>2, <3>1 DEF MailPlaced
    <3>2. CASE e # d
      BY <1>0, <1>m, <2>1, <2>2, <3>2 DEF MailTaken
    <3> QED
      BY <3>1, <3>2
  <2>6. ASSUME NEW e \in Drains, NEW g \in Drains, e # g, pc'[e] \in {"read", "ended"},
               pc'[g] \in {"read", "ended"}, snap'[e] \cap snap'[g] # {}
        PROVE  e \in met'[g]
    <3>1. CASE e = d
      BY <2>2, <2>4, <2>6, <3>1
    <3>2. CASE g = d
      BY <2>2, <2>4, <2>6, <3>2
    <3>3. CASE e # d /\ g # d
      <4>1. e \in met[g]
        BY <2>2, <2>6, <3>3 DEF MailTaken
      <4> QED
        BY <1>0, <1>m, <4>1
    <3> QED
      BY <3>1, <3>2, <3>3
  <2> QED
    BY <2>3, <2>5, <2>6 DEF MailTaken
<1>9. ASSUME NEW d \in Jobs, RemoveInbox(d) PROVE MailPlaced' /\ MailTaken'
  <2>1. /\ d \in Drains /\ pc[d] = "read" /\ pc' = [pc EXCEPT ![d] = "ended"]
        /\ detached' = detached \cup {s \in Sends : pc[s] \in {"appending", "partial"}}
        /\ lines' = {} /\ unfinished' = {}
        /\ UNCHANGED <<met, snap, mixed, unwritten>>
    BY <1>9 DEF RemoveInbox, Go
  <2>2. /\ \A t \in Sends : pc'[t] = pc[t]
        /\ \A t \in Drains : t # d => pc'[t] = pc[t]
        /\ pc'[d] = "ended"
    BY <1>0, <2>1
  <2>3. \A s \in Sends : pc[s] \in {"appending", "partial"} => met[s] # {}
    BY <1>0, <1>p, <1>w, <2>1 DEF Working
  <2>4. \A s \in lines : s \in snap[d] \/ met[s] # {}
    BY <2>1 DEF MailTaken
  <2>5. \A s \in detached' : met'[s] # {} /\ s \notin unfinished'
    BY <2>1, <2>3 DEF MailPlaced
  <2>6. \A s \in mixed' : pc'[s] = "lost" \/ met'[s] # {}
    BY <1>0, <2>1, <2>2 DEF MailPlaced
  <2>7. ASSUME NEW s \in Sends, pc'[s] = "ended"
        PROVE  s \in lines' \/ (\E e \in Drains : s \in snap'[e]) \/ met'[s] # {}
                 \/ s \in unwritten'
    BY <2>1, <2>2, <2>4, <2>7 DEF MailPlaced
  <2>8. MailPlaced'
    BY <2>1, <2>5, <2>6, <2>7 DEF MailPlaced
  <2>9. MailTaken'
    BY <1>0, <2>1, <2>2 DEF MailTaken
  <2> QED
    BY <2>8, <2>9
<1>10. CASE Crash
  <2>1. UNCHANGED <<snap, inbox>>
    BY <1>10 DEF Crash
  <2>2. \A j \in Jobs : pc'[j] = pc[j] \/ (pc[j] \in Working /\ pc'[j] = "lost")
    BY <1>10, Zenon DEF Crash
  <2> QED
    BY <1>0, <1>r, <2>1, <2>2, MailAlone
<1>11. CASE UNCHANGED vars
  BY <1>11, <1>r, MailAlone DEF vars
<1> QED
  BY <1>1, <1>2, <1>3, <1>4, <1>5, <1>6, <1>7, <1>8, <1>9, <1>10, <1>11 DEF Next, Mail

-----------------------------------------------------------------------------
(* Worktrees.                                                              *)

Adding == {a \in Limited : pc[a] = "adding"}
Made == {a \in Unlimited : pc[a] = "ended"}

\* What git has made and what it is making within the limit passes the limit by fewer than have met.
TreesFit ==
  Within + Cardinality(Adding) > MaxParallel
    => Within + Cardinality(Adding) - MaxParallel < Cardinality(Crowd)

LEMMA AddsFinite ==
  /\ IsFiniteSet(Adding) /\ Cardinality(Adding) \in Nat
  /\ IsFiniteSet(Crowd) /\ Cardinality(Crowd) \in Nat
  /\ IsFiniteSet(Made) /\ Cardinality(Made) \in Nat
<1>1. Adding \in SUBSET Adds /\ Crowd \in SUBSET Adds /\ Made \in SUBSET Adds
  BY DEF Adding, Crowd, Made, Limited
<1>2. IsFiniteSet(Adding) /\ IsFiniteSet(Crowd) /\ IsFiniteSet(Made)
  BY <1>1, FS_Subset
<1> QED
  BY <1>2, FS_CardinalityType

LEMMA CrowdGrows ==
  ASSUME Remembers
  PROVE  /\ IsFiniteSet(Crowd') /\ Cardinality(Crowd') \in Nat
         /\ Cardinality(Crowd) <= Cardinality(Crowd')
<1>1. Crowd \in SUBSET Crowd' /\ Crowd' \in SUBSET Adds
  BY DEF Crowd, Limited, Remembers, Jobs
<1>2. IsFiniteSet(Crowd')
  BY <1>1, FS_Subset
<1> QED
  BY <1>1, <1>2, FS_Subset, FS_CardinalityType

\* Git is at work within the limit as before.
LEMMA TreesAlone ==
  ASSUME TypeOK, TreesFit, Remembers, Adding' = Adding, Within' = Within
  PROVE  TreesFit'
<1>1. PICK n \in Nat, k \in Nat, m \in Nat :
        n = Cardinality(Adding) /\ k = Cardinality(Crowd) /\ m = Cardinality(Crowd') /\ k <= m
  BY AddsFinite, CrowdGrows
<1>2. Within \in Int
  BY TypeParts, AddsFinite DEF RestOK, Within, Made
<1>3. Within + n > MaxParallel => Within + n - MaxParallel < k
  BY <1>1 DEF TreesFit
<1>4. Within + n > MaxParallel => Within + n - MaxParallel < m
  BY <1>1, <1>2, <1>3
<1>5. Cardinality(Adding') = n
  BY <1>1
<1> QED
  BY <1>1, <1>4, <1>5 DEF TreesFit

\* Nobody begins or ends a worktree.
LEMMA TreesStay ==
  ASSUME TypeOK, TreesFit, Remembers, trees' = trees,
         \A a \in Adds : \A p \in {"adding", "ended"} : pc'[a] = p <=> pc[a] = p
  PROVE  TreesFit'
<1>1. Adding' = Adding /\ Made' = Made
  BY DEF Adding, Made, Limited
<1>2. Within' = Within
  BY <1>1 DEF Within, Made
<1> QED
  BY <1>1, <1>2, TreesAlone

LEMMA TreesStep ==
  ASSUME TypeOK, Meeting, TreesFit, [Next]_vars
  PROVE  TreesFit'
<1> USE DEF files, job, inbox
<1>0. /\ pc \in [Jobs -> States] /\ trees \in Nat /\ Remembers /\ Adds \subseteq Jobs
      /\ \A j \in Adds : j \notin Updates /\ j \notin Changes /\ j \notin Sends \cup Drains
      /\ MaxParallel \in Nat /\ Limited \subseteq Adds /\ Unlimited \subseteq Adds
  BY TypeParts, MeetingStep DEF JobsOK, RestOK, Jobs, Limited
<1>1. ASSUME NEW j \in Jobs, Refuse(j) PROVE TreesFit'
  <2>1. pc[j] = "none" /\ pc' = [pc EXCEPT ![j] = "failed"]
    BY <1>1, Stages DEF StepOf
  <2> QED
    BY <1>0, <1>1, <2>1, TreesStay DEF Refuse
<1>2. ASSUME NEW j \in Jobs, Reply(j) \/ GiveUp(j) PROVE TreesFit'
  BY <1>0, <1>2, TreesStay DEF Reply, GiveUp
<1>3. ASSUME NEW j \in Jobs, Update(j) \/ Configure(j) \/ Mail(j) PROVE TreesFit'
  <2>1. j \notin Adds
    BY <1>0, <1>3, Stages DEF Update, Updates
  <2>2. PICK from, to : StepOf(j, from, to)
    BY <1>3, JobMoves DEF Job
  <2>3. \A a \in Adds : pc'[a] = pc[a]
    BY <1>0, <2>1, <2>2 DEF StepOf
  <2>4. trees' = trees
    <3>1. CASE Update(j)
      BY <3>1 DEF Update, ReadFile, Truncate, WriteBack, WriteFails, Rename
    <3>2. CASE Configure(j)
      BY <3>2 DEF Configure, LockConfig, SaveConfig, SaveFails
    <3>3. CASE Mail(j)
      BY <3>3 DEF Mail, OpenInbox, SendFails, AppendPart, AppendRest, ReadInbox, RemoveInbox
    <3> QED
      BY <1>3, <3>1, <3>2, <3>3
  <2> QED
    BY <1>0, <2>3, <2>4, TreesStay
<1>4. ASSUME NEW a \in Jobs, CountWorktrees(a) PROVE TreesFit'
  <2>. DEFINE stage == IF a \notin Unlimited /\ trees >= MaxParallel THEN "failed" ELSE "adding"
  <2>1. a \in Adds /\ trees' = trees /\ Begin(a, stage)
    BY <1>4 DEF CountWorktrees
  <2>2. /\ pc[a] = "none" /\ pc' = [pc EXCEPT ![a] = stage]
        /\ met' = [i \in Jobs |-> IF i = a THEN AtWork(Place(a))
                                  ELSE IF i \in AtWork(Place(a)) THEN met[i] \cup {a}
                                  ELSE met[i]]
    BY <2>1 DEF Begin
  <2>3. Made' = Made /\ Within' = Within
    <3>1. Made' = Made
      BY <1>0, <2>1, <2>2 DEF Made
    <3> QED
      BY <2>1, <3>1 DEF Within, Made
  <2>4. CASE a \in Unlimited \/ trees >= MaxParallel
    <3>1. Adding' = Adding
      BY <1>0, <2>1, <2>2, <2>4 DEF Adding, Limited
    <3> QED
      BY <1>0, <2>3, <3>1, TreesAlone
  <2>5. CASE a \notin Unlimited /\ ~(trees >= MaxParallel)
    <3>1. pc' = [pc EXCEPT ![a] = "adding"] /\ a \in Limited
      BY <2>1, <2>2, <2>5 DEF Limited
    <3>2. Adding' = Adding \cup {a} /\ a \notin Adding
      BY <1>0, <2>1, <2>2, <3>1 DEF Adding
    <3>3. PICK n \in Nat : n = Cardinality(Adding) /\ Cardinality(Adding') = n + 1
      BY <3>2, AddsFinite, FS_AddElement
    <3>6. Within \in Int /\ Within <= trees
      BY <1>0, AddsFinite DEF Within, Made
    <3>7. Within < MaxParallel
      BY <1>0, <2>5, <3>6
    <3>4. CASE Adding = {}
      <4>1. n = 0
        BY <3>3, <3>4, FS_EmptySet
      <4>2. ~(Within + (n + 1) > MaxParallel)
        BY <1>0, <3>6, <3>7, <4>1
      <4> QED
        BY <2>3, <3>3, <4>2 DEF TreesFit
    <3>5. CASE Adding # {}
      <4>1. Adding \subseteq AtWork(Place(a)) /\ Adding \subseteq Limited
        BY <1>0, <2>1, PlaceOf DEF Adding, AtWork, Working
      <4>2. Adding' \in SUBSET Crowd'
        BY <1>0, <2>1, <2>2, <3>1, <3>2, <3>5, <4>1 DEF Crowd, Adding
      <4>3. PICK m \in Nat : m = Cardinality(Crowd') /\ n + 1 <= m
        BY <1>0, <3>3, <4>2, CrowdGrows, FS_Subset
      <4>4. Within + (n + 1) - MaxParallel < m
        BY <1>0, <3>6, <3>7, <4>3
      <4> QED
        BY <2>3, <3>3, <4>3, <4>4 DEF TreesFit
    <3> QED
      BY <3>4, <3>5
  <2> QED
    BY <2>4, <2>5
<1>5. ASSUME NEW a \in Jobs, NEW made \in {0, 1}, GitEnds(a, made) PROVE TreesFit'
  <2>1. /\ a \in Adds /\ pc[a] = "adding" /\ trees' = trees + made
        /\ pc' = [pc EXCEPT ![a] = IF made = 1 THEN "ended" ELSE "failed"]
    BY <1>5 DEF GitEnds, Go
  <2>2. CASE a \in Unlimited
    <3>1. Adding' = Adding
      BY <1>0, <2>1, <2>2 DEF Adding, Limited
    <3>2. Within' = Within
      <4>1. CASE made = 1
        <5>1. Made' = Made \cup {a} /\ a \notin Made
          BY <1>0, <2>1, <2>2, <4>1 DEF Made
        <5>2. Cardinality(Made') = Cardinality(Made) + 1
          BY <5>1, AddsFinite, FS_AddElement
        <5>3. PICK b \in Nat : b = Cardinality(Made) /\ Cardinality(Made') = b + 1
          BY <5>2, AddsFinite
        <5>4. Within = trees - b /\ Within' = (trees + 1) - (b + 1)
          BY <2>1, <4>1, <5>3 DEF Within, Made
        <5> QED
          BY <1>0, <5>4
      <4>2. CASE made = 0
        <5>1. Made' = Made
          BY <1>0, <2>1, <2>2, <4>2 DEF Made
        <5>2. trees' = trees
          BY <1>0, <2>1, <4>2
        <5> QED
          BY <5>1, <5>2 DEF Within, Made
      <4> QED
        BY <4>1, <4>2
    <3> QED
      BY <1>0, <3>1, <3>2, TreesAlone
  <2>3. CASE a \notin Unlimited
    <3>1. Adding' = Adding \ {a} /\ a \in Adding /\ Made' = Made
      BY <1>0, <2>1, <2>3 DEF Adding, Made, Limited
    <3>2. Within \in Int /\ Within' = Within + made
      <4>1. PICK b \in Nat : b = Cardinality(Made) /\ Cardinality(Made') = b
        BY <3>1, AddsFinite
      <4>2. Within = trees - b /\ Within' = (trees + made) - b
        BY <2>1, <4>1 DEF Within, Made
      <4> QED
        BY <1>0, <4>2
    <3>3. PICK n \in Nat, k \in Nat, m \in Nat :
            /\ n = Cardinality(Adding) /\ k = Cardinality(Crowd) /\ m = Cardinality(Crowd')
            /\ k <= m
      BY <1>0, AddsFinite, CrowdGrows
    <3>4. Cardinality(Adding') = n - 1
      BY <3>1, <3>3, AddsFinite, FS_RemoveElement
    <3>5. Within + n > MaxParallel => Within + n - MaxParallel < k
      BY <3>3 DEF TreesFit
    <3>6. Within + made + (n - 1) > MaxParallel => Within + made + (n - 1) - MaxParallel < m
      BY <1>0, <3>2, <3>3, <3>5
    <3> QED
      BY <3>2, <3>3, <3>4, <3>6 DEF TreesFit
  <2> QED
    BY <2>2, <2>3
<1>6. CASE Crash
  BY <1>0, <1>6, TreesStay DEF Crash, Working
<1>7. CASE UNCHANGED vars
  BY <1>0, <1>7, TreesStay DEF vars
<1> QED
  BY <1>1, <1>2, <1>3, <1>4, <1>5, <1>6, <1>7 DEF Next, Worktree

-----------------------------------------------------------------------------
(* The invariant and what follows from it.                                 *)

IInv ==
  /\ TypeOK /\ ConfigKeys /\ FdOK /\ Answers /\ ConfigFile /\ InForce /\ Meeting
  /\ \A f \in {"json", "text", "claude"} : Kept(f)
  /\ MailPlaced /\ MailTaken /\ TreesFit

LEMMA InitInv == Init => IInv
<1> SUFFICES ASSUME Init PROVE IInv
  OBVIOUS
<1>1. TypeOK
  <2>1. JobsOK
    BY DEF Init, JobsOK, Mutex, States, Told, Jobs
  <2>2. RestOK
    BY DEF Init, RestOK, Content, None
  <2> QED
    BY <2>1, <2>2, TypeParts
<1>2. ConfigKeys /\ ConfigFile /\ InForce
  <2>1. file["config"] = None /\ None.state = "none" /\ None.keys = {} /\ memory = {}
    BY DEF Init, None, Files
  <2>2. \A c \in Changes : pc[c] = "none"
    BY DEF Init, Jobs
  <2> QED
    BY <2>1, <2>2 DEF ConfigKeys, ConfigFile, InForce
<1>3. FdOK /\ Answers /\ Meeting
  BY DEF Init, FdOK, Answers, Meeting, Jobs, Working
<1>4. ASSUME NEW f \in {"json", "text", "claude"} PROVE Kept(f)
  <2>1. \A i \in Updates : pc[i] = "none"
    BY DEF Init, Jobs
  <2> QED
    BY <2>1 DEF Kept, Done, InHand
<1>5. MailPlaced /\ MailTaken
  <2>1. /\ lines = {} /\ unfinished = {} /\ mixed = {} /\ detached = {}
        /\ \A d \in Drains : snap[d] = {}
    BY DEF Init
  <2>2. \A j \in Sends \cup Drains : pc[j] = "none"
    BY DEF Init, Jobs
  <2> QED
    BY <2>1, <2>2 DEF MailPlaced, MailTaken
<1>6. TreesFit
  <2>1. Adding = {} /\ Made = {} /\ trees = 1
    BY DEF Init, Adding, Made, Limited, Jobs
  <2>2. Cardinality(Adding) = 0 /\ Cardinality(Made) = 0
    BY <2>1, FS_EmptySet
  <2>3. Within = 1
    BY <2>1, <2>2 DEF Within, Made
  <2> QED
    BY <2>2, <2>3 DEF TreesFit
<1> QED
  BY <1>1, <1>2, <1>3, <1>4, <1>5, <1>6 DEF IInv

LEMMA StepInv == IInv /\ [Next]_vars => IInv'
<1> SUFFICES ASSUME IInv, [Next]_vars PROVE IInv'
  OBVIOUS
<1>1. JobsOK' /\ RestOK'
  BY JobsStep, RestStep DEF IInv
<1>0. TypeOK'
  BY <1>1, TypeParts, PTL
<1>2. FdOK' /\ Answers' /\ Meeting'
  BY Descriptors, AnswersStep, MeetingStep DEF IInv
<1>3. ConfigFile' /\ InForce'
  BY ConfigStep DEF IInv
<1>4. ConfigKeys'
  <2>1. memory' \subseteq Changes
    BY <1>1 DEF RestOK
  <2>2. file'["config"].keys \in {{}, memory'}
    BY <1>3 DEF ConfigFile
  <2> QED
    BY <2>1, <2>2 DEF ConfigKeys
<1>5. \A f \in {"json", "text", "claude"} : Kept(f)'
  BY KeptStep DEF IInv
<1>6. MailPlaced' /\ MailTaken' /\ TreesFit'
  BY MailStep, TreesStep DEF IInv
<1> QED
  BY <1>0, <1>2, <1>3, <1>4, <1>5, <1>6 DEF IInv

\* The inductive invariant of the handlers that change the router's files.
THEOREM Invariant == Spec => []IInv
BY InitInv, StepInv, PTL DEF Spec

\* Every variable keeps its type, and one change at most has the configuration's mutex.
THEOREM TypeCorrect == Spec => []TypeOK
<1>1. IInv => TypeOK
  BY DEF IInv
<1> QED
  BY <1>1, Invariant, PTL

\* config.set saves a copy and commits it only then: what was confirmed is in force, what
\* was refused never is, and memory and disk agree (ConfigIsCoherent).
THEOREM ConfigCoherent == Spec => []ConfigIsCoherent
<1>1. IInv => ConfigIsCoherent
  <2> SUFFICES ASSUME IInv PROVE ConfigIsCoherent
    OBVIOUS
  <2>1. (\A c \in Changes : pc[c] # "saving") /\ file["config"].state # "torn"
          => file["config"].keys = memory
    <3>1. file["config"].state \in {"none", "empty", "whole", "torn"}
      BY TypeParts DEF IInv, RestOK, Files, Content
    <3> QED
      BY <3>1 DEF IInv, ConfigFile
  <2>2. ASSUME NEW c \in Changes
        PROVE  /\ told[c] = "ok" /\ "config" \notin spoilt => c \in memory
               /\ told[c] = "error" => c \notin memory
    <3>1. c \in Jobs
      BY DEF Jobs
    <3> QED
      BY <3>1 DEF IInv, Answers, InForce
  <2> QED
    BY <2>1, <2>2 DEF ConfigIsCoherent
<1> QED
  BY <1>1, Invariant, PTL

\* As long as no two jobs of a place overlapped and no write to it was cut, no confirmed
\* update is lost, whoever gave up waiting and wherever the core was killed
\* (UpdatesAreKept).
THEOREM UpdatesKept == Spec => []UpdatesAreKept
<1>1. IInv => UpdatesAreKept
  <2> SUFFICES ASSUME IInv, NEW j \in Updates, NEW f, f = Place(j),
                      told[j] = "ok", Serial(f), f \notin spoilt
               PROVE  \/ j \in Parsed(f)
                      \/ /\ f # "claude"
                         /\ \E i \in Updates : Place(i) = f /\ pc[i] = "opened" /\ j \in snap[i]
    BY DEF UpdatesAreKept
  <2>1. pc[j] = "ended" /\ f \in {"json", "text", "claude"}
    BY TargetOf DEF IInv, Answers
  <2>2. j \in Done(f)
    BY <2>1 DEF Done
  <2>3. /\ Done(f) \subseteq Parsed(f) \/ BeingWritten(f)
        /\ \A i \in Updates : Place(i) = f => InHand(f, i)
    BY <2>1 DEF IInv, Kept, Clean
  <2> QED
    BY <2>2, <2>3 DEF BeingWritten, InHand
<1> QED
  BY <1>1, Invariant, PTL

\* A message confirmed to its sender is in the inbox or with a drain, unless something was
\* at work beside it or it could not be written; a message is given out twice only by
\* drains that overlapped (MailIsAccountedFor).
THEOREM MailAccounted == Spec => []MailIsAccountedFor
<1>1. IInv => MailIsAccountedFor
  <2> SUFFICES ASSUME IInv PROVE MailIsAccountedFor
    OBVIOUS
  <2>1. \A j \in Sends \cup Drains : told[j] = "ok" => pc[j] = "ended"
    BY DEF IInv, Answers, Jobs
  <2>2. MailPlaced /\ MailTaken
    BY DEF IInv
  <2>3. ASSUME NEW s \in Sends, told[s] = "ok"
        PROVE  s \in lines \/ (\E d \in Drains : s \in snap[d]) \/ met[s] # {} \/ s \in unwritten
    BY <2>1, <2>2, <2>3 DEF MailPlaced
  <2>4. ASSUME NEW d \in Drains, NEW e \in Drains, d # e, told[d] = "ok", told[e] = "ok",
               snap[d] \cap snap[e] # {}
        PROVE  d \in met[e]
    BY <2>1, <2>2, <2>4 DEF MailTaken
  <2> QED
    BY <2>3, <2>4 DEF MailIsAccountedFor
<1> QED
  BY <1>1, Invariant, PTL

\* Requests that name a limit of worktrees pass it only when they overlapped, and by fewer
\* than did, whatever is made without a limit beside them (LimitNeedsOverlap).
THEOREM LimitKept == Spec => []LimitNeedsOverlap
<1>1. IInv => LimitNeedsOverlap
  <2> SUFFICES ASSUME IInv, Within > MaxParallel
               PROVE  Within - MaxParallel < Cardinality(Crowd)
    BY DEF LimitNeedsOverlap
  <2>1. PICK n \in Nat, k \in Nat : n = Cardinality(Adding) /\ k = Cardinality(Crowd)
    BY AddsFinite
  <2>2. Within \in Int
    BY TypeParts, AddsFinite DEF IInv, RestOK, Within, Made
  <2>3. Within + n > MaxParallel => Within + n - MaxParallel < k
    BY <2>1 DEF IInv, TreesFit
  <2> QED
    BY <2>1, <2>2, <2>3
<1> QED
  BY <1>1, Invariant, PTL

-----------------------------------------------------------------------------
(* atomic_write.                                                           *)

\* The CLI's configuration is whole, or was never written, as long as its writers came one
\* after another: no write that failed and no kill ever shows in it.
ClaudeIsWhole ==
  Serial("claude") => file["claude"].state \in {"none", "whole"} /\ "claude" \notin spoilt

LEMMA ClaudeStep ==
  ASSUME IInv, ClaudeIsWhole, [Next]_vars
  PROVE  ClaudeIsWhole'
<1> SUFFICES ASSUME Serial("claude")'
             PROVE  file'["claude"].state \in {"none", "whole"} /\ "claude" \notin spoilt'
  BY DEF ClaudeIsWhole
<1> USE DEF files, job, inbox
<1> DEFINE Whole == file'["claude"].state \in {"none", "whole"} /\ "claude" \notin spoilt'
<1>0. /\ pc \in [Jobs -> States] /\ file \in [Files -> Content]
      /\ fd \in [Updates -> Files \cup {"gone"}] /\ {"claude", "tmp", "config"} \subseteq Files
  BY TypeParts DEF IInv, JobsOK, RestOK, Files
<1>1. Serial("claude") /\ file["claude"].state \in {"none", "whole"} /\ "claude" \notin spoilt
  <2>1. Remembers
    BY MeetingStep DEF IInv
  <2>2. Serial("claude")
    BY <2>1 DEF Serial, Remembers
  <2> QED
    BY <2>2 DEF ClaudeIsWhole
<1>2. \A i \in Updates : Place(i) = "claude" => InHand("claude", i)
  BY <1>1 DEF IInv, Kept, Clean
<1>3. ASSUME NEW j \in Updates, pc[j] = "opened"
      PROVE  /\ fd[j] # "claude" /\ fd[j] \in Files
             /\ Place(j) = "claude" => fd[j] = "tmp"
  <2>1. CASE j \in ClaudeJobs
    <3>1. fd[j] = "tmp"
      BY <1>2, <1>3, <2>1, TargetOf DEF InHand
    <3> QED
      BY <3>1 DEF Files
  <2>2. CASE j \notin ClaudeJobs
    BY <1>3, <2>2, TargetOf DEF IInv, FdOK, Files
  <2> QED
    BY <2>1, <2>2
<1>4. ASSUME UNCHANGED <<file, spoilt>> PROVE Whole
  BY <1>1, <1>4
<1>5. ASSUME NEW j \in Jobs, Update(j) PROVE Whole
  <2>1. j \in Updates
    BY <1>5, Stages DEF Update, Updates
  <2>2. CASE ReadFile(j)
    BY <1>4, <2>2 DEF ReadFile
  <2>3. CASE Truncate(j)
    <3>1. Target(j) # "claude" /\ file' = [file EXCEPT ![Target(j)] = Empty] /\ spoilt' = spoilt
      BY <2>1, <2>3, TargetOf DEF Truncate
    <3>2. file'["claude"] = file["claude"]
      BY <1>0, <3>1
    <3> QED
      BY <1>1, <3>1, <3>2
  <2>4. CASE WriteBack(j)
    <3>1. pc[j] = "opened" /\ spoilt' = spoilt
      BY <2>4 DEF WriteBack, Go
    <3>2. fd[j] # "claude" /\ fd[j] \in Files
      BY <1>3, <2>1, <3>1
    <3>3. file'["claude"] = file["claude"]
      BY <1>0, <2>4, <3>2 DEF WriteBack
    <3> QED
      BY <1>1, <3>1, <3>3
  <2>5. CASE WriteFails(j)
    <3>1. pc[j] = "opened"
      BY <2>5 DEF WriteFails, Go
    <3>2. fd[j] # "claude" /\ fd[j] \in Files /\ (Place(j) = "claude" => fd[j] = "tmp")
      BY <1>3, <2>1, <3>1
    <3>3. file'["claude"] = file["claude"]
      BY <1>0, <2>5, <3>2 DEF WriteFails
    <3>4. "claude" \notin spoilt'
      BY <1>1, <2>5, <3>2 DEF WriteFails
    <3> QED
      BY <1>1, <3>3, <3>4
  <2>6. CASE Rename(j)
    <3>1. j \in ClaudeJobs /\ pc[j] = "renaming" /\ spoilt' = spoilt
      BY <2>6 DEF Rename, Go
    <3>2. file["tmp"].state = "whole"
      BY <1>2, <2>1, <3>1, TargetOf DEF InHand
    <3>3. file'["claude"] = file["tmp"]
      BY <1>0, <2>6, <3>2 DEF Rename
    <3> QED
      BY <1>1, <3>1, <3>2, <3>3
  <2> QED
    BY <1>5, <2>2, <2>3, <2>4, <2>5, <2>6 DEF Update
<1>6. ASSUME NEW c \in Jobs, Configure(c) PROVE Whole
  <2>1. spoilt' = spoilt /\ file'["claude"] = file["claude"]
    BY <1>0, <1>6 DEF Configure, LockConfig, SaveConfig, SaveFails
  <2> QED
    BY <1>1, <2>1
<1>7. ASSUME NEW j \in Jobs,
             Refuse(j) \/ Reply(j) \/ GiveUp(j) \/ Mail(j) \/ Worktree(j)
      PROVE  Whole
  <2>1. UNCHANGED <<file, spoilt>>
    BY <1>7 DEF Refuse, Reply, GiveUp, Mail, OpenInbox, SendFails, AppendPart, AppendRest,
                ReadInbox, RemoveInbox, Worktree, CountWorktrees, GitEnds
  <2> QED
    BY <1>4, <2>1
<1>8. ASSUME Crash PROVE Whole
  <2>1. \A i \in Updates \ ClaudeJobs : Place(i) # "claude"
    BY TargetOf
  <2>2. "claude" \notin spoilt' /\ file' = file
    BY <1>1, <1>8, <2>1 DEF Crash
  <2> QED
    BY <1>1, <2>2
<1>9. ASSUME UNCHANGED vars PROVE Whole
  BY <1>4, <1>9 DEF vars
<1> QED
  BY <1>5, <1>6, <1>7, <1>8, <1>9 DEF Next

\* What atomic_write is for: a reader of the CLI's configuration, the CLI above all, never
\* finds it cut off or empty, whichever write failed and wherever the core was killed.
THEOREM AtomicWriteHolds == Spec => []ClaudeIsWhole
<1>1. Init => ClaudeIsWhole
  BY DEF Init, ClaudeIsWhole, Files, None
<1>2. IInv /\ ClaudeIsWhole /\ [Next]_vars => ClaudeIsWhole'
  BY ClaudeStep
<1> QED
  BY <1>1, <1>2, Invariant, PTL DEF Spec
=============================================================================
