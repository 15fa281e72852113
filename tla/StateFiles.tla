------------------------------ MODULE StateFiles ------------------------------
(***************************************************************************)
(* The files the router keeps its state in, and the handlers that change   *)
(* them.  A handler runs on the blocking pool, so that those of several    *)
(* connections, or of one that was given up and its retry, overlap:        *)
(*                                                                         *)
(*  - JsonJobs read a map (notes, rules, settings, matrix, shares), add to *)
(*    it and write it back; what does not parse counts as empty.  TextJobs *)
(*    do so with a memory file;                                            *)
(*  - ClaudeJobs change the CLI's own configuration through atomic_write,  *)
(*    a sibling file that is renamed over the target;                      *)
(*  - Changes set the core's configuration, under its mutex;               *)
(*  - Sends append a line to an agent's inbox, Drains read and remove it;  *)
(*  - Adds create a git worktree, if there are fewer than MaxParallel: but *)
(*    the Unlimited ones, requests of worktree.add that name no limit and  *)
(*    sessions started in a worktree of their own, check nothing.          *)
(*                                                                         *)
(* Writing a file truncates it first.  A file's content is the set of jobs *)
(* whose effect is in it.                                                  *)
(***************************************************************************)
EXTENDS Integers, FiniteSets

CONSTANTS
  JsonJobs, TextJobs, ClaudeJobs, Changes, Sends, Drains, Adds,
  Unlimited,    \* the Adds that name no limit
  Workloads,    \* bound: the sets of jobs that come together
  MaxParallel,  \* the limit of worktrees the other requests give
  MaxCrashes    \* bound

Updates == JsonJobs \cup TextJobs \cup ClaudeJobs
Jobs == Updates \cup Changes \cup Sends \cup Drains \cup Adds

ASSUME StateAssumption ==
  /\ Workloads \subseteq SUBSET Jobs
  /\ MaxParallel \in Nat \ {0}
  /\ MaxCrashes \in Nat
  /\ IsFiniteSet(Adds) /\ Unlimited \subseteq Adds
  /\ TextJobs \cap JsonJobs = {} /\ ClaudeJobs \cap (JsonJobs \cup TextJobs) = {}
  /\ Changes \cap Updates = {}
  /\ Sends \cap (Updates \cup Changes) = {}
  /\ Drains \cap (Updates \cup Changes \cup Sends) = {}
  /\ Adds \cap (Updates \cup Changes \cup Sends \cup Drains) = {}

Files == {"json", "text", "claude", "tmp", "config"}

\* What a job works on.
Place(j) ==
  CASE j \in JsonJobs -> "json"
    [] j \in TextJobs -> "text"
    [] j \in ClaudeJobs -> "claude"
    [] j \in Changes -> "config"
    [] j \in Sends \cup Drains -> "inbox"
    [] OTHER -> "worktrees"

VARIABLES
  asked,       \* the jobs that may come
  pc,          \* where a job is; "ended" well, "failed" with an error, or "lost"
  told,        \* what its caller has: "waiting", "ok", "error" or "nobody" is there
  met,         \* the jobs at work in its place while it was
  crashes,     \* how often the core was killed
  file,        \* each file: "none", "empty", "whole" or "torn", and what is in it
  fd,          \* the file a job has opened for writing, or "gone"
  snap,        \* what a job read
  spoilt,      \* places where a failed or interrupted write lost what was there
  memory,      \* the configuration in memory
  lines,       \* the inbox's intact lines
  unfinished,  \* messages with bytes on its last, unfinished line
  mixed,       \* messages that shared a line with another
  detached,    \* messages whose inbox was removed after they had opened it
  unwritten,   \* messages that could not be appended
  trees        \* the repository's worktrees

job == <<pc, told, met>>
files == <<file, fd, spoilt>>
inbox == <<lines, unfinished, mixed, detached, unwritten>>
vars == <<asked, pc, told, met, crashes, file, fd, snap, spoilt, memory, lines,
          unfinished, mixed, detached, unwritten, trees>>

Working == {"read", "opened", "renaming", "saving", "appending", "partial", "adding"}
Over == {"ended", "failed", "lost"}

None == [state |-> "none", keys |-> {}]
Empty == [state |-> "empty", keys |-> {}]

Init ==
  /\ asked \in Workloads
  /\ pc = [j \in Jobs |-> "none"]
  /\ told = [j \in Jobs |-> "waiting"]
  /\ met = [j \in Jobs |-> {}]
  /\ crashes = 0
  /\ file = [f \in Files |-> None]
  /\ fd = [j \in Updates |-> "gone"]
  /\ snap = [j \in Updates \cup Drains |-> {}]
  /\ spoilt = {}
  /\ memory = {}
  /\ lines = {} /\ unfinished = {} /\ mixed = {} /\ detached = {} /\ unwritten = {}
  /\ trees = 1

-----------------------------------------------------------------------------
(* The life of a job.                                                      *)

AtWork(place) == {j \in Jobs : pc[j] \in Working /\ Place(j) = place}

\* Job j begins and meets the others in its place.
Begin(j, stage) ==
  /\ j \in asked
  /\ pc[j] = "none"
  /\ pc' = [pc EXCEPT ![j] = stage]
  /\ LET others == AtWork(Place(j)) IN
       met' = [i \in Jobs |-> IF i = j THEN others
                              ELSE IF i \in others THEN met[i] \cup {j} ELSE met[i]]
  /\ UNCHANGED <<asked, told, crashes>>

Go(j, from, to) ==
  /\ pc[j] = from
  /\ pc' = [pc EXCEPT ![j] = to]
  /\ UNCHANGED <<asked, told, met, crashes>>

\* A parameter is missing or invalid, or the file cannot be opened.
Refuse(j) ==
  /\ j \notin Sends
  /\ Begin(j, "failed")
  /\ UNCHANGED <<files, snap, memory, inbox, trees>>

Reply(j) ==
  /\ pc[j] \in {"ended", "failed"}
  /\ told[j] = "waiting"
  /\ told' = [told EXCEPT ![j] = IF pc[j] = "ended" THEN "ok" ELSE "error"]
  /\ UNCHANGED <<asked, pc, met, crashes, files, snap, memory, inbox, trees>>

\* The deadline passes or the connection ends: the work goes on.
GiveUp(j) ==
  /\ pc[j] # "none"
  /\ told[j] = "waiting"
  /\ told' = [told EXCEPT ![j] = "nobody"]
  /\ UNCHANGED <<asked, pc, met, crashes, files, snap, memory, inbox, trees>>

-----------------------------------------------------------------------------
(* Files that are read, changed and written back.                          *)

\* What a reader makes of a file: JSON that does not parse counts as empty.
Parsed(f) == IF file[f].state = "whole" \/ f = "text" THEN file[f].keys ELSE {}

\* Mutant: every writer starts from an empty map.
ReadFile_Fresh(j) ==
  /\ j \in Updates
  /\ Begin(j, "read")
  /\ snap' = [snap EXCEPT ![j] = {}]
  /\ UNCHANGED <<files, memory, inbox, trees>>

ReadFile(j) ==
  /\ j \in Updates
  /\ Begin(j, "read")
  /\ snap' = [snap EXCEPT ![j] = Parsed(Place(j))]
  /\ UNCHANGED <<files, memory, inbox, trees>>

\* std::fs::write opens the file and truncates it; atomic_write does so with a sibling,
\* the same for every writer.
Target(j) == IF j \in ClaudeJobs THEN "tmp" ELSE Place(j)

Truncate(j) ==
  /\ j \in Updates
  /\ Go(j, "read", "opened")
  /\ fd' = [fd EXCEPT ![j] = Target(j)]
  /\ file' = [file EXCEPT ![Target(j)] = Empty]
  /\ UNCHANGED <<snap, spoilt, memory, inbox, trees>>

\* The whole content goes to the start of the file: over what another writer put there
\* in the meantime, whose end may stick out.
Contents(old, keys) ==
  {[state |-> s, keys |-> keys] :
     s \in IF old.state = "empty" THEN {"whole"} ELSE {"whole", "torn"}}

WriteBack(j) ==
  /\ j \in Updates
  /\ Go(j, "opened", IF j \in ClaudeJobs THEN "renaming" ELSE "ended")
  /\ IF fd[j] = "gone"
     THEN UNCHANGED file
     ELSE \E new \in Contents(file[fd[j]], snap[j] \cup {j}) :
            file' = [file EXCEPT ![fd[j]] = new]
  /\ UNCHANGED <<fd, snap, spoilt, memory, inbox, trees>>

\* The disk is full: what could be written stays, the caller gets an error.
WriteFails(j) ==
  /\ j \in Updates
  /\ Go(j, "opened", "failed")
  /\ IF fd[j] = "gone"
     THEN UNCHANGED <<file, spoilt>>
     ELSE \E part \in SUBSET (snap[j] \cup {j}) :
            /\ file' = [file EXCEPT ![fd[j]] = [state |-> "torn", keys |-> part]]
            /\ spoilt' = IF fd[j] = "tmp" THEN spoilt ELSE spoilt \cup {Place(j)}
  /\ UNCHANGED <<fd, snap, memory, inbox, trees>>

\* atomic_write's rename.  Who still has the sibling open writes into the target from now
\* on, and finds nothing to rename.
Rename(j) ==
  /\ j \in ClaudeJobs
  /\ Go(j, "renaming", IF file["tmp"].state = "none" THEN "failed" ELSE "ended")
  /\ IF file["tmp"].state = "none"
     THEN UNCHANGED <<file, fd>>
     ELSE /\ file' = [file EXCEPT !["claude"] = file["tmp"], !["tmp"] = None]
          /\ fd' = [i \in Updates |->
                      IF i \notin ClaudeJobs THEN fd[i]
                      ELSE IF fd[i] = "tmp" THEN "claude" ELSE "gone"]
  /\ UNCHANGED <<snap, spoilt, memory, inbox, trees>>

-----------------------------------------------------------------------------
(* The core's configuration.                                               *)

\* Mutant: the change is committed before it is saved.
LockConfig_Commit(c) ==
  /\ c \in Changes
  /\ \A d \in Changes : pc[d] # "saving"
  /\ Begin(c, "saving")
  /\ memory' = memory \cup {c}
  /\ file' = [file EXCEPT !["config"] = Empty]
  /\ UNCHANGED <<fd, snap, spoilt, inbox, trees>>

\* Mutant: the mutex is released before the save.
LockConfig_Released(c) ==
  /\ c \in Changes
  /\ Begin(c, "saving")
  /\ file' = [file EXCEPT !["config"] = Empty]
  /\ UNCHANGED <<fd, snap, spoilt, memory, inbox, trees>>

\* config.set has the mutex; the save truncates settings.json.
LockConfig(c) ==
  /\ c \in Changes
  /\ \A d \in Changes : pc[d] # "saving"
  /\ Begin(c, "saving")
  /\ file' = [file EXCEPT !["config"] = Empty]
  /\ UNCHANGED <<fd, snap, spoilt, memory, inbox, trees>>

\* The changed copy is written, then committed to memory.
SaveConfig(c) ==
  /\ Go(c, "saving", "ended")
  /\ file' = [file EXCEPT !["config"] = [state |-> "whole", keys |-> memory \cup {c}]]
  /\ memory' = memory \cup {c}
  /\ UNCHANGED <<fd, snap, spoilt, inbox, trees>>

\* The disk is full.  (A directory or a file that cannot be opened is Refuse: nothing is
\* truncated.)
SaveFails(c) ==
  /\ Go(c, "saving", "failed")
  /\ file' = [file EXCEPT !["config"] = [state |-> "torn", keys |-> {}]]
  /\ UNCHANGED <<fd, snap, spoilt, memory, inbox, trees>>

-----------------------------------------------------------------------------
(* The inbox of an agent: one message a line.                              *)

OpenInbox(s) ==
  /\ s \in Sends
  /\ Begin(s, "appending")
  /\ UNCHANGED <<files, snap, memory, inbox, trees>>

\* The inbox cannot be opened, or nothing written to it: the sender is told "ok".
SendFails(s) ==
  /\ s \in Sends
  /\ Begin(s, "ended")
  /\ unwritten' = unwritten \cup {s}
  /\ UNCHANGED <<files, snap, memory, lines, unfinished, mixed, detached, trees>>

\* An entry is written piece by piece.  Its first piece goes to the end of the file,
\* where another's unfinished line, also one of a core that was killed, may be.
AppendPart(s) ==
  /\ s \in Sends
  /\ pc[s] = "appending"
  /\ pc' = [pc EXCEPT ![s] = "partial"]
  /\ IF s \in detached
     THEN UNCHANGED <<met, unfinished, mixed>>
     ELSE /\ met' = [met EXCEPT ![s] = @ \cup unfinished]
          /\ mixed' = IF unfinished = {} THEN mixed ELSE mixed \cup unfinished \cup {s}
          /\ unfinished' = unfinished \cup {s}
  /\ UNCHANGED <<asked, told, crashes, files, snap, memory, lines, detached, unwritten,
                 trees>>

\* The rest of it and the end of the line.  Others still writing may have pieces behind.
AppendRest(s) ==
  /\ s \in Sends
  /\ Go(s, "partial", "ended")
  /\ IF s \in detached
     THEN UNCHANGED <<lines, unfinished>>
     ELSE /\ lines' = IF s \in mixed THEN lines ELSE lines \cup {s}
          /\ unfinished' \in SUBSET {t \in unfinished \ {s} : pc[t] = "partial"}
  /\ UNCHANGED <<files, snap, memory, mixed, detached, unwritten, trees>>

\* The drain reads the lines that parse ...
ReadInbox(d) ==
  /\ d \in Drains
  /\ Begin(d, "read")
  /\ snap' = [snap EXCEPT ![d] = lines]
  /\ UNCHANGED <<files, memory, inbox, trees>>

\* Mutant: a drain leaves the inbox as a peek does.
RemoveInbox_Keeps(d) ==
  /\ d \in Drains
  /\ Go(d, "read", "ended")
  /\ UNCHANGED <<files, snap, memory, inbox, trees>>

\* ... and removes the file, whatever is in it by now.
RemoveInbox(d) ==
  /\ d \in Drains
  /\ Go(d, "read", "ended")
  /\ detached' = detached \cup {s \in Sends : pc[s] \in {"appending", "partial"}}
  /\ lines' = {}
  /\ unfinished' = {}
  /\ UNCHANGED <<files, snap, memory, mixed, unwritten, trees>>

-----------------------------------------------------------------------------
(* Worktrees.                                                              *)

\* Mutant: the limit is compared with one worktree too few.
CountWorktrees_OffByOne(a) ==
  /\ a \in Adds
  /\ Begin(a, IF a \notin Unlimited /\ trees > MaxParallel THEN "failed" ELSE "adding")
  /\ UNCHANGED <<files, snap, memory, inbox, trees>>

\* worktree.add lists the worktrees and starts `git worktree add` below the limit; without
\* a limit, and for a session's own worktree, git is started at once.
CountWorktrees(a) ==
  /\ a \in Adds
  /\ Begin(a, IF a \notin Unlimited /\ trees >= MaxParallel THEN "failed" ELSE "adding")
  /\ UNCHANGED <<files, snap, memory, inbox, trees>>

\* git ends, also when nobody waits for it any more or the core is gone.
GitEnds(a, made) ==
  /\ a \in Adds
  /\ made \in {0, 1}
  /\ Go(a, "adding", IF made = 1 THEN "ended" ELSE "failed")
  /\ trees' = trees + made
  /\ UNCHANGED <<files, snap, memory, inbox>>

-----------------------------------------------------------------------------
\* The core is killed and starts again.  What its threads were doing stays half done;
\* a configuration that does not parse is replaced by the defaults.
Crash ==
  /\ crashes < MaxCrashes
  /\ crashes' = crashes + 1
  /\ pc' = [j \in Jobs |-> IF pc[j] \in Working \ {"adding"} THEN "lost" ELSE pc[j]]
  /\ told' = [j \in Jobs |-> IF pc[j] # "none" /\ told[j] = "waiting" THEN "nobody"
                             ELSE told[j]]
  /\ memory' = Parsed("config")
  /\ spoilt' = spoilt
       \cup {Place(j) : j \in {i \in Updates \ ClaudeJobs : pc[i] = "opened"}}
       \cup (IF memory # Parsed("config") THEN {"config"} ELSE {})
  /\ UNCHANGED <<asked, met, file, fd, snap, inbox, trees>>

Update(j) == ReadFile(j) \/ Truncate(j) \/ WriteBack(j) \/ WriteFails(j) \/ Rename(j)
Configure(c) == c \in Changes /\ (LockConfig(c) \/ SaveConfig(c) \/ SaveFails(c))
Mail(j) ==
  \/ OpenInbox(j) \/ SendFails(j) \/ AppendPart(j) \/ AppendRest(j)
  \/ ReadInbox(j) \/ RemoveInbox(j)
Worktree(a) == CountWorktrees(a) \/ \E made \in {0, 1} : GitEnds(a, made)

Next ==
  \/ \E j \in Jobs :
       Refuse(j) \/ Reply(j) \/ GiveUp(j) \/ Update(j) \/ Configure(j) \/ Mail(j)
         \/ Worktree(j)
  \/ Crash

Spec == Init /\ [][Next]_vars

-----------------------------------------------------------------------------
\* Every variable has its type, and one change at most has the configuration's mutex.
TypeOK ==
  /\ asked \in SUBSET Jobs
  /\ pc \in [Jobs -> {"none"} \cup Working \cup Over]
  /\ told \in [Jobs -> {"waiting", "ok", "error", "nobody"}]
  /\ met \in [Jobs -> SUBSET Jobs]
  /\ crashes \in 0..MaxCrashes
  /\ file \in [Files -> [state : {"none", "empty", "whole", "torn"}, keys : SUBSET Jobs]]
  /\ fd \in [Updates -> Files \cup {"gone"}]
  /\ snap \in [Updates \cup Drains -> SUBSET Jobs]
  /\ spoilt \subseteq Files
  /\ memory \subseteq Changes
  /\ \A c, d \in Changes : pc[c] = "saving" /\ pc[d] = "saving" => c = d
  /\ lines \subseteq Sends
  /\ unfinished \subseteq Sends
  /\ mixed \subseteq Sends
  /\ detached \subseteq Sends
  /\ unwritten \subseteq Sends
  /\ trees \in Nat

\* The jobs of a place never overlapped.
Serial(place) == \A j \in Jobs : Place(j) = place => met[j] = {}

\* Whose request was answered well finds its update in the file, or in the hands of the
\* one job that is writing it, as long as no two jobs overlapped and no write to it was
\* cut: a job that follows another loses nothing of it, whoever gave up waiting.  The
\* CLI's configuration, written through a sibling, is whole at every moment, whatever
\* write failed and wherever the core was killed.
UpdatesAreKept ==
  \A j \in Updates :
    LET f == Place(j) IN
      told[j] = "ok" /\ Serial(f) /\ f \notin spoilt =>
        \/ j \in Parsed(f)
        \/ f # "claude" /\ \E i \in Updates : Place(i) = f /\ pc[i] = "opened" /\ j \in snap[i]

\* Settings in memory and on disk agree whenever nobody saves and the file is intact; a
\* setting that was confirmed is in force until a crash finds the file cut off; one that
\* was refused never is, not after a restart either.
ConfigIsCoherent ==
  /\ (\A c \in Changes : pc[c] # "saving") /\ file["config"].state # "torn"
       => file["config"].keys = memory
  /\ \A c \in Changes :
       /\ told[c] = "ok" /\ "config" \notin spoilt => c \in memory
       /\ told[c] = "error" => c \notin memory

\* A message confirmed to its sender waits in the inbox or was taken by a drain, unless
\* something was at work in the inbox beside it or it could not be written; and two
\* drains give out the same message only when they overlapped.
MailIsAccountedFor ==
  /\ \A s \in Sends :
       told[s] = "ok" =>
         s \in lines \/ (\E d \in Drains : s \in snap[d]) \/ met[s] # {} \/ s \in unwritten
  /\ \A d, e \in Drains :
       d # e /\ told[d] = "ok" /\ told[e] = "ok" /\ snap[d] \cap snap[e] # {}
         => d \in met[e]

\* Requests with a limit pass it only when they overlapped, and by fewer than did: beside
\* the worktrees made without a limit there are no more than MaxParallel and those.
Limited == Adds \ Unlimited
Crowd == {a \in Limited : met[a] \cap Limited # {}}
Within == trees - Cardinality({a \in Unlimited : pc[a] = "ended"})

LimitNeedsOverlap == Within > MaxParallel => Within - MaxParallel < Cardinality(Crowd)
=============================================================================
