---------------------------- MODULE ArchiveProofs ----------------------------
(***************************************************************************)
(* Proofs about Archive for any runs, rows, batch size and number of       *)
(* restarts: types, vectors under their own model's tag, and the           *)
(* completeness of the index once a run's backfill and the start-up task   *)
(* are over, what a failed statement or a death costs, and that a backfill *)
(* is over after five steps of its own.                                    *)
(***************************************************************************)
EXTENDS Archive, FiniteSetTheorems, TLAPS

USE DEF errors

\* What is in memory next to a tag is the embedder of that tag.
TagsTogether ==
    /\ slot.by = slot.tag
    /\ \A s \in Sessions : record[s] # NoRecord => record[s].by = record[s].tag
    /\ \A j \in Jobs : job[j].slot.by = job[j].slot.tag

TagInv == TagsTogether /\ NoMixedTags
MixInv == TypeOK /\ TagInv

-----------------------------------------------------------------------------
Found(n, g) == Kept(rows[n], g)
RowsOf(s) == {n \in 1..Len(rows) : owner[rows[n]] = s}
Working(j) == job[j].stage \in {"scan", "embed"}

\* Rows have owners, and only a run that still records has a record under way.
Ownership ==
    /\ \A n \in 1..Len(rows) : owner[rows[n]] # Nobody
    /\ \A s \in Sessions :
         /\ record[s] # NoRecord => owner[record[s].item] = s
         /\ record[s] # NoRecord => run[s] \in {"running", "aborted"}

\* Which job exists when, and what the slot holds until the start-up task is through.
Stages ==
    /\ \A s \in Sessions : job[s].stage # "idle" <=> run[s] = "ended"
    /\ job[Core].stage # "idle" <=> loader = "backfill"
    /\ loader = "loading" => slot.tag = Hash
    /\ loader = "backfill" => slot.tag = Neural

\* A job at work on the rows N has left none of them behind.
Covers(j, N) ==
    /\ job[j].kind = "tool" => \A n \in N : rows[n] \in Messages => Found(n, job[j].slot.tag)
    /\ job[j].stage = "embed" =>
         \A n \in N : rows[n] \in OfKind(job[j].kind) =>
             Found(n, job[j].slot.tag) \/ \E p \in job[j].pending : p.item = rows[n]

\* The rows of s were there when the neural model was set.
Early(s) == slot.tag = Neural /\ \A n \in RowsOf(s) : n <= old

CoreProgress == Working(Core) => job[Core].slot.tag = Neural /\ Covers(Core, 1..old)
RunProgress ==
    \A s \in Sessions :
        Working(s) => Covers(s, RowsOf(s)) /\ (job[s].slot.tag = slot.tag \/ Early(s))
IndexedRuns ==
    \A s \in Sessions :
        run[s] = "indexed" => (\A n \in RowsOf(s) : Found(n, slot.tag)) \/ Early(s)

LoadedRows ==
    loader = "ready" /\ slot.tag = Neural => \A n \in 1..old : Found(n, Neural)

\* The four parts about what the jobs have found, while no kind is larger than a batch.
Coverage == CoreProgress /\ RunProgress /\ IndexedRuns /\ LoadedRows
FitInv == TypeOK /\ Ownership /\ Stages /\ Coverage
IndexInv == TypeOK /\ Ownership /\ Stages /\ (Fits => Coverage)

JobRecords == [stage : {"idle", "queued", "scan", "embed"}, slot : Slots,
               kind : {"message", "tool"},
               pending : SUBSET [item : Items, text : {"call", "full"}]]

\* A job that changes its stage, or what it has found, is still a job.
LEMMA JobSets ==
  ASSUME NEW f \in [Jobs -> JobRecords], NEW j \in Jobs,
         NEW st \in {"idle", "queued", "scan", "embed"},
         NEW P \in SUBSET [item : Items, text : {"call", "full"}]
  PROVE  /\ [f EXCEPT ![j].stage = st] \in [Jobs -> JobRecords]
         /\ [f EXCEPT ![j].stage = st, ![j].pending = P] \in [Jobs -> JobRecords]
<1>1. f[j] \in JobRecords
  OBVIOUS
<1>2. [f[j] EXCEPT !.stage = st] \in JobRecords
      /\ [f[j] EXCEPT !.stage = st, !.pending = P] \in JobRecords
  BY <1>1 DEF JobRecords
<1>3. [f EXCEPT ![j] = [f[j] EXCEPT !.stage = st]] \in [Jobs -> JobRecords]
      /\ [f EXCEPT ![j] = [f[j] EXCEPT !.stage = st, !.pending = P]] \in [Jobs -> JobRecords]
  BY <1>2
<1>. QED
  BY <1>3

LEMMA JobType == TypeOK => job \in [Jobs -> JobRecords]
  BY DEF TypeOK, JobRecords

LEMMA Distinct == Hash # Neural /\ Core \notin Sessions /\ Sessions \subseteq Jobs /\ Core \in Jobs
  BY ArchiveAssumption DEF Hash, Neural, Jobs

LEMMA InitTypes == Init => TypeOK
  BY ArchiveAssumption DEF Init, TypeOK, IdleJob, Slots, Tags, Items, Vectors, Records

LEMMA IdleType ==
  IdleJob \in JobRecords
  BY DEF IdleJob, JobRecords, Slots, Tags

\* The next kind, or the end of the job, keeps the three variables it touches typed.
LEMMA AdvanceTypes ==
  ASSUME TypeOK, NEW j \in Jobs, Advance(j, job[j].kind)
  PROVE  /\ job' \in [Jobs -> JobRecords]
         /\ run' \in [Sessions -> {"off", "running", "ended", "indexed", "aborted"}]
         /\ loader' \in {"loading", "backfill", "ready"}
<1>1. CASE job[j].kind = "message"
  BY <1>1 DEF TypeOK, Advance
<1>2. CASE job[j].kind # "message"
  BY <1>2, IdleType DEF TypeOK, JobRecords, Advance
<1>. QED
  BY <1>1, <1>2

\* What is stored is a row appended and a vector of a known text.
LEMMA RestartTypes ==
  ASSUME TypeOK, Restart, rows' \in Seq(Items)
  PROVE  /\ slot' \in Slots /\ loader' \in {"loading", "backfill", "ready"} /\ old' \in 0..Len(rows')
         /\ run' \in [Sessions -> {"off", "running", "ended", "indexed", "aborted"}]
         /\ record' \in [Sessions -> Records \cup {NoRecord}]
         /\ job' \in [Jobs -> JobRecords]
         /\ crashes' \in 0..MaxCrashes
         /\ skipped' \in [Tags -> SUBSET Items] /\ faults' \in 0..MaxFaults
<1>1. crashes' \in 0..MaxCrashes
  BY ArchiveAssumption DEF Restart, TypeOK
<1>2. job' \in [Jobs -> JobRecords]
  BY IdleType DEF Restart
<1>3. slot' \in Slots /\ old' \in 0..Len(rows')
  BY DEF Restart, Slots, Tags
<1>4. run' \in [Sessions -> {"off", "running", "ended", "indexed", "aborted"}]
  BY DEF Restart, TypeOK
<1>. QED
  BY <1>1, <1>2, <1>3, <1>4 DEF Restart, TypeOK

LEMMA StoredRecord ==
  ASSUME TypeOK, NEW s \in Sessions, record[s] # NoRecord
  PROVE  /\ record[s] \in Records /\ record[s].item \in Messages /\ record[s].item \in Items
         /\ record[s].by \in Tags /\ record[s].tag \in Tags
         /\ [by |-> record[s].by, text |-> "full"] \in Vectors
         /\ Append(rows, record[s].item) \in Seq(Items)
         /\ Len(Append(rows, record[s].item)) = Len(rows) + 1
<1>1. record[s] \in Records
  BY DEF TypeOK
<1>2. record[s].item \in Messages /\ record[s].by \in Tags /\ record[s].tag \in Tags
  BY <1>1 DEF Records
<1>. QED
  BY <1>1, <1>2 DEF TypeOK, Vectors, Items

\* The types of a batch: each item stored is one the scan saw.
LEMMA BatchTypes ==
  ASSUME TypeOK, NEW j \in Jobs, NEW done \in SUBSET job[j].pending, Upserts(j, done)
  PROVE  /\ stored' \in [Items -> [Tags -> Vectors \cup {NoVector}]]
         /\ \A i \in Items : \A g \in Tags :
              IF g = job[j].slot.tag /\ \E p \in done : p.item = i
              THEN stored'[i][g] # NoVector /\ stored'[i][g].by = job[j].slot.by
              ELSE stored'[i][g] = stored[i][g]
<1>. DEFINE Text(i) == (CHOOSE p \in done : p.item = i).text
           V(i) == [by |-> job[j].slot.by, text |-> Text(i)]
<1>1. done \subseteq [item : Items, text : {"call", "full"}] /\ job[j].slot.by \in Tags
  BY DEF TypeOK, Slots
<1>2. \A i \in Items : (\E p \in done : p.item = i) => V(i) \in Vectors
  <2>. SUFFICES ASSUME NEW i \in Items, \E p \in done : p.item = i
                PROVE  V(i) \in Vectors
    OBVIOUS
  <2>1. (CHOOSE p \in done : p.item = i) \in done
    OBVIOUS
  <2>2. Text(i) \in {"call", "full"}
    BY <1>1, <2>1
  <2>. QED
    BY <1>1, <2>2 DEF Vectors
<1>3. stored' = [i \in Items |-> [g \in Tags |->
                    IF g = job[j].slot.tag /\ \E p \in done : p.item = i
                    THEN V(i) ELSE stored[i][g]]]
  BY DEF Upserts
<1>4. \A i : V(i).by = job[j].slot.by
  OBVIOUS
<1>. HIDE DEF V
<1>5. \A i \in Items : \A g \in Tags : stored[i][g] \in Vectors \cup {NoVector}
  BY DEF TypeOK
<1>6. \A i \in Items : \A g \in Tags : stored'[i][g] \in Vectors \cup {NoVector}
  BY <1>2, <1>3, <1>5
<1>7. stored' \in [Items -> [Tags -> Vectors \cup {NoVector}]]
  BY <1>3, <1>6
<1>. QED
  BY <1>2, <1>3, <1>4, <1>7, ArchiveAssumption

LEMMA ScanTypes ==
  ASSUME TypeOK, NEW kind, NEW tag
  PROVE  /\ Unembedded(kind, tag) \subseteq Items
         /\ {[item |-> i, text |-> TextOf(i)] : i \in Unembedded(kind, tag)}
               \subseteq [item : Items, text : {"call", "full"}]
<1>1. Lacking(kind, tag) \subseteq 1..Len(rows)
  BY DEF Lacking
<1>2. \A n \in 1..Len(rows) : rows[n] \in Items
  BY DEF TypeOK
<1>3. Unembedded(kind, tag) \subseteq Items
  BY <1>1, <1>2 DEF Unembedded
<1>4. \A i : TextOf(i) \in {"call", "full"}
  BY DEF TextOf
<1>. QED
  BY <1>3, <1>4

\* Every step keeps the variables in their types.
LEMMA TypeStep ==
  ASSUME TypeOK, [Next]_vars
  PROVE  TypeOK'
<1>. USE ArchiveAssumption
<1>0. Len(rows) \in Nat /\ \A i \in Items : Append(rows, i) \in Seq(Items) /\ Len(Append(rows, i)) = Len(rows) + 1
  BY DEF TypeOK
<1>1. ASSUME NEW s \in Sessions, StartRun(s) PROVE TypeOK'
  BY <1>1 DEF TypeOK, StartRun
<1>2. ASSUME NEW s \in Sessions, BeginMessage(s) PROVE TypeOK'
  <2>1. PICK m \in Messages : owner' = [owner EXCEPT ![m] = s]
                             /\ record' = [record EXCEPT ![s] = [item |-> m, by |-> slot.by, tag |-> slot.tag]]
    BY <1>2 DEF BeginMessage
  <2>2. [item |-> m, by |-> slot.by, tag |-> slot.tag] \in Records
    BY DEF TypeOK, Slots, Records
  <2>. QED
    BY <1>2, <2>1, <2>2 DEF TypeOK, BeginMessage
<1>3. ASSUME NEW s \in Sessions, StoreMessage(s) PROVE TypeOK'
  <2>1. record[s] # NoRecord
    BY <1>3 DEF StoreMessage
  <2>2. rows' \in Seq(Items) /\ old' \in 0..Len(rows')
    BY <1>0, <1>3, <2>1, StoredRecord DEF TypeOK, StoreMessage
  <2>3. stored' \in [Items -> [Tags -> Vectors \cup {NoVector}]]
    <3>1. stored' = [stored EXCEPT ![record[s].item][record[s].tag] = [by |-> record[s].by, text |-> "full"]]
      BY <1>3 DEF StoreMessage
    <3>. QED
      BY <3>1, <2>1, StoredRecord DEF TypeOK
  <2>4. keyword' \in SUBSET Messages
    BY <1>3, <2>1, StoredRecord DEF TypeOK, StoreMessage
  <2>. QED
    BY <1>3, <2>2, <2>3, <2>4 DEF TypeOK, StoreMessage
<1>4. ASSUME NEW s \in Sessions, CallTool(s) PROVE TypeOK'
  <2>1. PICK t \in Tools : owner' = [owner EXCEPT ![t] = s] /\ rows' = Append(rows, t)
    BY <1>4 DEF CallTool
  <2>2. rows' \in Seq(Items) /\ old' \in 0..Len(rows')
    BY <1>0, <1>4, <2>1 DEF TypeOK, CallTool, Items
  <2>. QED
    BY <1>4, <2>1, <2>2 DEF TypeOK, CallTool
<1>5. ASSUME NEW s \in Sessions, ToolResult(s) PROVE TypeOK'
  BY <1>5 DEF TypeOK, ToolResult
<1>6. ASSUME NEW s \in Sessions, EndRun(s) PROVE TypeOK'
  <2>1. job' = [job EXCEPT ![s].stage = "queued"] /\ s \in Jobs
    BY <1>6, Distinct DEF EndRun
  <2>2. job' \in [Jobs -> JobRecords]
    BY <2>1, JobType, JobSets
  <2>. QED
    BY <1>6, <2>2 DEF TypeOK, EndRun, JobRecords
<1>7. ASSUME NEW s \in Sessions, HangUp(s) PROVE TypeOK'
  BY <1>7 DEF TypeOK, HangUp
<1>8. ASSUME NEW s \in Sessions, CrashInStore(s) PROVE TypeOK'
  <2>1. record[s] # NoRecord /\ Restart
    BY <1>8 DEF CrashInStore
  <2>2. rows' \in Seq(Items) /\ keyword' \in SUBSET Messages
    BY <1>8, <2>1, StoredRecord DEF TypeOK, CrashInStore
  <2>. QED
    BY <1>8, <2>1, <2>2, RestartTypes DEF TypeOK, JobRecords, CrashInStore
<1>9. ASSUME NEW j \in Jobs, Take(j) PROVE TypeOK'
  <2>1. [stage |-> "scan", slot |-> slot, kind |-> "message", pending |-> {}]
           \in JobRecords
    BY DEF TypeOK, JobRecords
  <2>. QED
    BY <1>9, <2>1 DEF TypeOK, Take
<1>10. ASSUME NEW j \in Jobs, Scan(j) PROVE TypeOK'
  <2>. DEFINE todo == Unembedded(job[j].kind, job[j].slot.tag)
  <2>1. CASE todo = {}
    <3>1. Advance(j, job[j].kind)
      BY <1>10, <2>1 DEF Scan
    <3>. QED
      BY <1>10, <3>1, AdvanceTypes DEF TypeOK, JobRecords, Scan
  <2>2. CASE todo # {}
    <3>1. job' = [job EXCEPT ![j].stage = "embed", ![j].pending = {[item |-> i, text |-> TextOf(i)] : i \in todo}]
          /\ UNCHANGED <<run, loader>>
      BY <1>10, <2>2 DEF Scan
    <3>2. {[item |-> i, text |-> TextOf(i)] : i \in todo} \subseteq [item : Items, text : {"call", "full"}]
      BY ScanTypes
    <3>. HIDE DEF todo
    <3>. DEFINE P == {[item |-> i, text |-> TextOf(i)] : i \in todo}
    <3>. HIDE DEF P
    <3>3. job' = [job EXCEPT ![j].stage = "embed", ![j].pending = P] /\ P \in SUBSET [item : Items, text : {"call", "full"}]
      BY <3>1, <3>2 DEF P
    <3>4. job' \in [Jobs -> JobRecords]
      BY <3>3, JobType, JobSets
    <3>. QED
      BY <1>10, <3>1, <3>4 DEF TypeOK, Scan, JobRecords
  <2>. QED
    BY <2>1, <2>2
<1>11. ASSUME NEW j \in Jobs, StoreBatch(j) PROVE TypeOK'
  <2>1. Advance(j, job[j].kind)
    BY <1>11 DEF StoreBatch
  <2>. QED
    BY <1>11, <2>1, AdvanceTypes, BatchTypes DEF TypeOK, JobRecords, StoreBatch
<1>15. ASSUME NEW s \in Sessions, StoreFails(s) PROVE TypeOK'
  <2>1. rows' \in Seq(Items) /\ old' \in 0..Len(rows') /\ keyword' \in SUBSET Messages
    <3>1. record[s] # NoRecord
      BY <1>15 DEF StoreFails
    <3>2. record[s].item \in Items /\ record[s].item \in Messages
      BY <3>1, StoredRecord
    <3>3. rows' = rows \/ rows' = Append(rows, record[s].item)
      BY <1>15 DEF StoreFails
    <3>4. keyword' \in SUBSET Messages /\ old' = old
      BY <1>15, <3>2 DEF StoreFails, TypeOK
    <3>5. rows' \in Seq(Items) /\ Len(rows') \in Nat /\ Len(rows') >= Len(rows)
      <4>1. CASE rows' = rows
        BY <1>0, <4>1 DEF TypeOK
      <4>2. CASE rows' = Append(rows, record[s].item)
        <5>1. rows' \in Seq(Items) /\ Len(rows') = Len(rows) + 1
          BY <1>0, <3>2, <4>2
        <5>. QED
          BY <1>0, <5>1
      <4>. QED
        BY <3>3, <4>1, <4>2
    <3>. QED
      BY <1>0, <3>4, <3>5 DEF TypeOK
  <2>2. faults' \in 0..MaxFaults
    BY <1>15 DEF TypeOK, StoreFails
  <2>. QED
    BY <1>15, <2>1, <2>2 DEF TypeOK, StoreFails
<1>16. ASSUME NEW j \in Jobs, JobFails(j) PROVE TypeOK'
  <2>1. Advance(j, job[j].kind) /\ faults' \in 0..MaxFaults
    BY <1>16 DEF JobFails, TypeOK
  <2>2. stored' \in [Items -> [Tags -> Vectors \cup {NoVector}]]
    <3>1. CASE UNCHANGED stored
      BY <3>1 DEF TypeOK
    <3>2. CASE \E p \in job[j].pending : Upserts(j, job[j].pending \ {p})
      BY <3>2, BatchTypes
    <3>. QED
      BY <1>16, <3>1, <3>2 DEF JobFails
  <2>3. skipped' \in [Tags -> SUBSET Items]
    <3>1. job[j].slot.tag \in Tags /\ \A p \in job[j].pending : p.item \in Items
      BY DEF TypeOK, Slots
    <3>2. Unembedded(job[j].kind, job[j].slot.tag) \subseteq Items
      BY ScanTypes
    <3>3. ASSUME NEW I \in SUBSET Items, skipped' = [skipped EXCEPT ![job[j].slot.tag] = @ \cup I]
          PROVE  skipped' \in [Tags -> SUBSET Items]
      BY <3>1, <3>3 DEF TypeOK
    <3>4. \E I \in SUBSET Items : skipped' = [skipped EXCEPT ![job[j].slot.tag] = @ \cup I]
      BY <1>16, <3>1, <3>2 DEF JobFails
    <3>. QED
      BY <3>3, <3>4
  <2>. QED
    BY <1>16, <2>1, <2>2, <2>3, AdvanceTypes DEF TypeOK, JobRecords, JobFails
<1>12. ASSUME NEW tag \in Tags, Load(tag) PROVE TypeOK'
  <2>1. [by |-> tag, tag |-> tag] \in Slots /\ Core \in Jobs
    BY DEF Slots, Jobs
  <2>2. job' \in [Jobs -> JobRecords] /\ loader' \in {"backfill", "ready"}
    <3>1. CASE tag = Neural
      <4>1. job' = [job EXCEPT ![Core].stage = "queued"] /\ loader' = "backfill"
        BY <1>12, <3>1 DEF Load
      <4>. QED
        BY <2>1, <4>1, JobType, JobSets
    <3>2. CASE tag # Neural
      BY <1>12, <2>1, <3>2 DEF TypeOK, JobRecords, Load
    <3>. QED
      BY <3>1, <3>2
  <2>. QED
    BY <1>0, <1>12, <2>1, <2>2 DEF TypeOK, JobRecords, Load
<1>13. CASE Crash
  <2>1. rows' \in Seq(Items) /\ Restart
    BY <1>13 DEF Crash, TypeOK
  <2>. QED
    BY <1>13, <2>1, RestartTypes DEF TypeOK, JobRecords, Crash
<1>14. CASE UNCHANGED vars
  BY <1>14 DEF TypeOK, vars
<1>. QED
  BY <1>1, <1>2, <1>3, <1>4, <1>5, <1>6, <1>7, <1>8, <1>9, <1>10, <1>11, <1>12, <1>13, <1>14, <1>15, <1>16 DEF Next

(* Every reachable state is well typed (all variables of the archive).     *)
THEOREM TypeCorrect == Spec => []TypeOK
<1>. QED
  BY InitTypes, TypeStep, PTL DEF Spec

-----------------------------------------------------------------------------
\* Whatever Advance does, each job keeps its snapshot or goes back to the idle one.
LEMMA AdvanceSlots ==
  ASSUME TypeOK, TagsTogether, NEW j \in Jobs, Advance(j, job[j].kind)
  PROVE  \A k \in Jobs : job'[k].slot.by = job'[k].slot.tag
<1>1. CASE job[j].kind = "message"
  BY <1>1 DEF TypeOK, TagsTogether, Advance
<1>2. CASE job[j].kind # "message"
  BY <1>2 DEF TypeOK, TagsTogether, Advance, IdleJob
<1>. QED
  BY <1>1, <1>2

\* A snapshot is taken whole and stored whole.
LEMMA MixStep ==
  ASSUME MixInv, TypeOK', [Next]_vars
  PROVE  TagInv'
<1>0. TypeOK /\ TagsTogether /\ NoMixedTags
  BY DEF MixInv, TagInv
<1>. HIDE DEF MixInv
<1>1. ASSUME NEW s \in Sessions, StartRun(s) PROVE TagInv'
  BY <1>0, <1>1 DEF TagsTogether, NoMixedTags, StartRun, TagInv
<1>2. ASSUME NEW s \in Sessions, BeginMessage(s) PROVE TagInv'
  BY <1>0, <1>2 DEF TypeOK, TagsTogether, NoMixedTags, BeginMessage, TagInv
<1>3. ASSUME NEW s \in Sessions, StoreMessage(s) PROVE TagInv'
  <2>1. record[s] # NoRecord /\ record[s].by = record[s].tag
    BY <1>0, <1>3 DEF StoreMessage, TagsTogether, TagInv
  <2>2. stored' = [stored EXCEPT ![record[s].item][record[s].tag] = [by |-> record[s].by, text |-> "full"]]
    BY <1>3 DEF StoreMessage
  <2>3. NoMixedTags'
    BY <1>0, <2>1, <2>2, StoredRecord DEF TypeOK, NoMixedTags, TagInv
  <2>4. TagsTogether'
    BY <1>0, <1>3 DEF TypeOK, TagsTogether, StoreMessage, TagInv
  <2>. QED
    BY <2>3, <2>4 DEF TagInv
<1>4. ASSUME NEW s \in Sessions, CallTool(s) PROVE TagInv'
  BY <1>0, <1>4 DEF TagsTogether, NoMixedTags, CallTool, TagInv
<1>5. ASSUME NEW s \in Sessions, ToolResult(s) PROVE TagInv'
  BY <1>0, <1>5 DEF TagsTogether, NoMixedTags, ToolResult, TagInv
<1>6. ASSUME NEW s \in Sessions, EndRun(s) PROVE TagInv'
  BY <1>0, <1>6 DEF TypeOK, TagsTogether, NoMixedTags, EndRun, TagInv
<1>7. ASSUME NEW s \in Sessions, HangUp(s) PROVE TagInv'
  BY <1>0, <1>7 DEF TagsTogether, NoMixedTags, HangUp, TagInv
<1>8. ASSUME NEW s \in Sessions, CrashInStore(s) PROVE TagInv'
  BY <1>0, <1>8 DEF TagsTogether, NoMixedTags, CrashInStore, Restart, IdleJob, TagInv
<1>9. ASSUME NEW j \in Jobs, Take(j) PROVE TagInv'
  BY <1>0, <1>9 DEF TypeOK, TagsTogether, NoMixedTags, Take, TagInv
<1>10. ASSUME NEW j \in Jobs, Scan(j) PROVE TagInv'
  <2>1. CASE Unembedded(job[j].kind, job[j].slot.tag) = {}
    <3>1. Advance(j, job[j].kind)
      BY <1>10, <2>1 DEF Scan
    <3>. QED
      BY <1>0, <1>10, <3>1, AdvanceSlots DEF TagsTogether, NoMixedTags, Scan, TagInv
  <2>2. CASE Unembedded(job[j].kind, job[j].slot.tag) # {}
    <3>1. \A k \in Jobs : job'[k].slot = job[k].slot
      BY <1>0, <1>10, <2>2 DEF TypeOK, Scan, TagInv
    <3>2. UNCHANGED <<slot, record, stored>>
      BY <1>10 DEF Scan
    <3>. QED
      BY <1>0, <3>1, <3>2 DEF TagsTogether, NoMixedTags, TagInv
  <2>. QED
    BY <2>1, <2>2 DEF TagInv
<1>11. ASSUME NEW j \in Jobs, StoreBatch(j) PROVE TagInv'
  <2>1. Advance(j, job[j].kind) /\ job[j].slot.by = job[j].slot.tag
    BY <1>0, <1>11 DEF StoreBatch, TagsTogether, TagInv
  <2>2. NoMixedTags'
    BY <1>0, <1>11, <2>1, BatchTypes DEF StoreBatch, NoMixedTags
  <2>. QED
    BY <1>0, <1>11, <2>1, <2>2, AdvanceSlots DEF TagsTogether, StoreBatch, TagInv
<1>12. ASSUME NEW tag \in Tags, Load(tag) PROVE TagInv'
  <2>1. \A j \in Jobs : job'[j].slot = job[j].slot
    BY <1>0, <1>12, Distinct DEF Load, TypeOK, TagInv
  <2>. QED
    BY <1>0, <1>12, <2>1 DEF TagsTogether, NoMixedTags, Load, TagInv
<1>13. CASE Crash
  BY <1>0, <1>13 DEF TagsTogether, NoMixedTags, Crash, Restart, IdleJob, TagInv
<1>14. CASE UNCHANGED vars
  BY <1>0, <1>14 DEF TagsTogether, NoMixedTags, vars, TagInv
<1>15. ASSUME NEW s \in Sessions, StoreFails(s) PROVE TagInv'
  BY <1>0, <1>15 DEF TypeOK, TagsTogether, NoMixedTags, StoreFails, TagInv
<1>16. ASSUME NEW j \in Jobs, JobFails(j) PROVE TagInv'
  <2>1. Advance(j, job[j].kind) /\ UNCHANGED <<slot, record>> /\ job[j].slot.by = job[j].slot.tag
    BY <1>0, <1>16 DEF JobFails, TagsTogether
  <2>2. NoMixedTags'
    <3>1. CASE UNCHANGED stored
      BY <1>0, <3>1 DEF NoMixedTags
    <3>2. ASSUME NEW p \in job[j].pending, Upserts(j, job[j].pending \ {p}) PROVE NoMixedTags'
      BY <1>0, <2>1, <3>2, BatchTypes DEF NoMixedTags
    <3>. QED
      BY <1>16, <3>1, <3>2 DEF JobFails
  <2>. QED
    BY <1>0, <2>1, <2>2, AdvanceSlots DEF TagsTogether, TagInv
<1>. QED
  BY <1>1, <1>2, <1>3, <1>4, <1>5, <1>6, <1>7, <1>8, <1>9, <1>10, <1>11, <1>12, <1>13, <1>14, <1>15, <1>16 DEF Next

(* Vectors of two models never mix under one tag, whatever is swapped,     *)
(* restarted or backfilled between an embedding and its upsert.            *)
THEOREM NeverMixed == Spec => []NoMixedTags
<1>1. Init => MixInv
  BY InitTypes DEF Init, MixInv, TagInv, TagsTogether, NoMixedTags, IdleJob
<1>2. MixInv /\ [Next]_vars => MixInv'
  BY TypeStep, MixStep DEF MixInv
<1>3. MixInv => NoMixedTags
  BY DEF MixInv, TagInv
<1>. QED
  BY <1>1, <1>2, <1>3, PTL DEF Spec

-----------------------------------------------------------------------------
\* When a kind fits a batch a scan sees every row of it without a vector.
LEMMA FitsTakesAll ==
  ASSUME TypeOK, Fits, NEW kind \in {"message", "tool"}, NEW tag
  PROVE  Unembedded(kind, tag) = {rows[n] : n \in Lacking(kind, tag)}
<1>1. SUFFICES ASSUME NEW k \in Lacking(kind, tag)
               PROVE  Cardinality({l \in Lacking(kind, tag) : l <= k}) <= Batch
  BY DEF Unembedded
<1>. DEFINE S == {l \in Lacking(kind, tag) : l <= k}
           R == {n \in 1..Len(rows) : rows[n] \in OfKind(kind)}
<1>a. Len(rows) \in Nat
  BY DEF TypeOK
<1>b. Cardinality(R) <= Batch
  BY DEF Fits
<1>2. Len(rows) \in Nat /\ Cardinality(R) <= Batch
  BY <1>a, <1>b
<1>3. S \subseteq R /\ R \subseteq 1..Len(rows)
  BY DEF Lacking
<1>. HIDE DEF S, R
<1>4. IsFiniteSet(1..Len(rows))
  BY <1>2, FS_Interval
<1>5. IsFiniteSet(R)
  BY <1>3, <1>4, FS_Subset
<1>6. Cardinality(S) <= Cardinality(R) /\ IsFiniteSet(S)
  BY <1>3, <1>5, FS_Subset
<1>7. Cardinality(S) \in Nat /\ Cardinality(R) \in Nat
  BY <1>5, <1>6, FS_CardinalityType
<1>8. Cardinality(S) <= Batch
  BY <1>2, <1>6, <1>7, ArchiveAssumption
<1>. QED
  BY <1>8 DEF S

\* Rows are only appended, so an archive that fits has always fitted.
LEMMA FitsBefore ==
  ASSUME TypeOK, TypeOK', rows' = rows \/ \E i \in Items : rows' = Append(rows, i), Fits'
  PROVE  Fits
<1>1. /\ Len(rows) \in Nat /\ Len(rows') \in Nat
      /\ \A n \in 1..Len(rows) : n \in 1..Len(rows') /\ rows'[n] = rows[n]
  <2>1. rows \in Seq(Items) /\ rows' \in Seq(Items)
    BY DEF TypeOK
  <2>2. CASE rows' = rows
    BY <2>1, <2>2
  <2>3. ASSUME NEW i \in Items, rows' = Append(rows, i)
        PROVE  \A n \in 1..Len(rows) : n \in 1..Len(rows') /\ rows'[n] = rows[n]
    BY <2>1, <2>3
  <2>. QED
    BY <2>1, <2>2, <2>3
<1>2. ASSUME NEW kind \in {"message", "tool"}
      PROVE  Cardinality({n \in 1..Len(rows) : rows[n] \in OfKind(kind)}) <= Batch
  <2>. DEFINE R == {n \in 1..Len(rows) : rows[n] \in OfKind(kind)}
              Q == {n \in 1..Len(rows') : rows'[n] \in OfKind(kind)}
  <2>1. R \subseteq Q /\ Q \subseteq 1..Len(rows')
    BY <1>1
  <2>2. Cardinality(Q) <= Batch
    BY DEF Fits, OfKind
  <2>. HIDE DEF R, Q
  <2>3. IsFiniteSet(1..Len(rows'))
    BY <1>1, FS_Interval
  <2>4. IsFiniteSet(Q)
    BY <2>1, <2>3, FS_Subset
  <2>5. Cardinality(R) <= Cardinality(Q) /\ IsFiniteSet(R)
    BY <2>1, <2>4, FS_Subset
  <2>6. Cardinality(R) \in Nat /\ Cardinality(Q) \in Nat
    BY <2>4, <2>5, FS_CardinalityType
  <2>7. Cardinality(R) <= Batch
    BY <2>2, <2>5, <2>6, ArchiveAssumption
  <2>. QED
    BY <2>7 DEF R
<1>. QED
  BY <1>2 DEF Fits

\* What Kept is after the step, of a row and a tag named before it.
KeptNext(i, g) == stored'[i][g] # NoVector \/ i \in skipped'[g]

USE DEF Kept, KeptNext

\* Rows stay where they are, with their owner and their vectors.
Grows ==
    /\ \A n \in 1..Len(rows) : /\ n \in 1..Len(rows')
                              /\ rows'[n] = rows[n] /\ rows[n] \in Items
                              /\ owner'[rows[n]] = owner[rows[n]]
    /\ \A i \in Items : \A g \in Tags : Kept(i, g) => KeptNext(i, g)

\* A finished run gets no more rows.
Closed == \A s \in Sessions : run[s] \in {"ended", "indexed"} => RowsOf(s)' = RowsOf(s)

LEMMA SameRows ==
  ASSUME TypeOK, rows' = rows, owner' = owner, stored' = stored, skipped' = skipped
  PROVE  Grows /\ \A s \in Sessions : RowsOf(s)' = RowsOf(s)
<1>1. \A n \in 1..Len(rows) : rows[n] \in Items
  BY DEF TypeOK
<1>. QED
  BY <1>1 DEF Grows, RowsOf

\* A row appended for a run changes the rows of that run only.
LEMMA OneMoreRow ==
  ASSUME TypeOK, Ownership, NEW i \in Items, NEW u \in Sessions, run[u] \in {"running", "aborted"},
         rows' = Append(rows, i), owner' = owner \/ owner' = [owner EXCEPT ![i] = u], owner'[i] = u,
         owner[i] \in {u, Nobody},
         \A k \in Items : \A g \in Tags : Kept(k, g) => KeptNext(k, g)
  PROVE  Grows /\ Closed
<1>1. Len(rows') = Len(rows) + 1 /\ rows'[Len(rows) + 1] = i /\ Len(rows) \in Nat
  BY DEF TypeOK
<1>2. \A n \in 1..Len(rows) : rows'[n] = rows[n] /\ rows[n] \in Items /\ n \in 1..Len(rows')
  BY <1>1 DEF TypeOK
<1>3. \A n \in 1..Len(rows) : owner'[rows[n]] = owner[rows[n]]
  BY <1>2 DEF Ownership, TypeOK
<1>4. Grows
  BY <1>2, <1>3 DEF Grows
<1>5. ASSUME NEW s \in Sessions, run[s] \in {"ended", "indexed"} PROVE RowsOf(s)' = RowsOf(s)
  <2>1. s # u
    BY <1>5
  <2>2. \A n \in 1..Len(rows') : n \in 1..Len(rows) \/ n = Len(rows) + 1
    BY <1>1
  <2>. QED
    BY <1>1, <1>2, <1>3, <2>1, <2>2 DEF RowsOf
<1>. QED
  BY <1>4, <1>5 DEF Closed

\* The same for a row that a run reserves and appends later.
LEMMA Reserved ==
  ASSUME TypeOK, Ownership, NEW i \in Items, NEW u \in Sessions, owner[i] = Nobody,
         rows' = rows, stored' = stored, skipped' = skipped, owner' = [owner EXCEPT ![i] = u]
  PROVE  Grows /\ Closed
<1>1. \A n \in 1..Len(rows) : rows[n] \in Items /\ owner'[rows[n]] = owner[rows[n]]
  BY DEF TypeOK, Ownership
<1>. QED
  BY <1>1 DEF Grows, Closed, RowsOf

\* Ownership is kept: a row belongs to the run that asked for it.
LEMMA OwnershipStep ==
  ASSUME TypeOK, Ownership, Stages, [Next]_vars
  PROVE  Ownership'
<1>0. Len(rows) \in Nat /\ \A n \in 1..Len(rows) : rows[n] \in Items
  BY DEF TypeOK
<1>1. ASSUME NEW s \in Sessions, StartRun(s) PROVE Ownership'
  BY <1>1 DEF TypeOK, Ownership, StartRun
<1>2. ASSUME NEW s \in Sessions, BeginMessage(s) PROVE Ownership'
  <2>1. PICK m \in Messages : /\ owner[m] = Nobody /\ owner' = [owner EXCEPT ![m] = s]
                              /\ record' = [record EXCEPT ![s] = [item |-> m, by |-> slot.by, tag |-> slot.tag]]
    BY <1>2 DEF BeginMessage
  <2>2. m \in Items /\ s # Nobody /\ rows' = rows /\ run' = run /\ run[s] = "running"
    BY <1>2, ArchiveAssumption DEF Items, BeginMessage
  <2>3. \A n \in 1..Len(rows') : owner'[rows'[n]] # Nobody
    BY <1>0, <2>1, <2>2 DEF Ownership, TypeOK
  <2>4. ASSUME NEW u \in Sessions, record'[u] # NoRecord
        PROVE  owner'[record'[u].item] = u /\ run'[u] \in {"running", "aborted"}
    <3>1. CASE u = s
      BY <2>1, <2>2, <3>1 DEF TypeOK
    <3>2. CASE u # s
      <4>1. record'[u] = record[u] /\ record[u] # NoRecord
        BY <2>1, <2>4, <3>2 DEF TypeOK
      <4>2. record[u].item \in Items /\ owner[record[u].item] = u /\ u # Nobody
        BY <4>1, StoredRecord, ArchiveAssumption DEF Ownership
      <4>. QED
        BY <2>1, <2>2, <4>1, <4>2 DEF Ownership, TypeOK
    <3>. QED
      BY <3>1, <3>2
  <2>. QED
    BY <2>3, <2>4 DEF Ownership
<1>3. ASSUME NEW s \in Sessions, StoreMessage(s) PROVE Ownership'
  <2>1. record[s] # NoRecord /\ rows' = Append(rows, record[s].item) /\ owner' = owner /\ run' = run
        /\ record' = [record EXCEPT ![s] = NoRecord]
    BY <1>3 DEF StoreMessage
  <2>2. record[s].item \in Items /\ owner[record[s].item] = s /\ s # Nobody
    BY <2>1, StoredRecord, ArchiveAssumption DEF Ownership
  <2>3. \A n \in 1..Len(rows') : rows'[n] = IF n \in 1..Len(rows) THEN rows[n] ELSE record[s].item
    BY <1>0, <2>1, <2>2 DEF TypeOK
  <2>4. \A n \in 1..Len(rows') : owner'[rows'[n]] # Nobody
    BY <2>1, <2>2, <2>3 DEF Ownership
  <2>5. \A u \in Sessions : record'[u] # NoRecord => record'[u] = record[u]
    BY <2>1 DEF TypeOK
  <2>. QED
    BY <2>1, <2>4, <2>5 DEF Ownership
<1>4. ASSUME NEW s \in Sessions, CallTool(s) PROVE Ownership'
  <2>1. PICK t \in Tools : owner[t] = Nobody /\ owner' = [owner EXCEPT ![t] = s] /\ rows' = Append(rows, t)
    BY <1>4 DEF CallTool
  <2>2. t \in Items /\ s # Nobody /\ run' = run /\ record' = record
    BY <1>4, ArchiveAssumption DEF Items, CallTool
  <2>3. \A n \in 1..Len(rows') : rows'[n] = IF n \in 1..Len(rows) THEN rows[n] ELSE t
    BY <1>0, <2>1, <2>2 DEF TypeOK
  <2>4. \A n \in 1..Len(rows') : owner'[rows'[n]] # Nobody
    BY <1>0, <2>1, <2>2, <2>3 DEF Ownership, TypeOK
  <2>5. ASSUME NEW u \in Sessions, record[u] # NoRecord PROVE owner'[record[u].item] = u
    <3>1. record[u].item \in Items /\ owner[record[u].item] = u /\ u # Nobody
      BY <2>5, StoredRecord, ArchiveAssumption DEF Ownership
    <3>. QED
      BY <2>1, <2>2, <3>1 DEF TypeOK
  <2>. QED
    BY <2>2, <2>4, <2>5 DEF Ownership
<1>5. ASSUME NEW s \in Sessions, ToolResult(s) PROVE Ownership'
  BY <1>5 DEF Ownership, ToolResult
<1>6. ASSUME NEW s \in Sessions, EndRun(s) PROVE Ownership'
  BY <1>6 DEF TypeOK, Ownership, EndRun
<1>7. ASSUME NEW s \in Sessions, HangUp(s) PROVE Ownership'
  BY <1>7 DEF TypeOK, Ownership, HangUp
<1>8. ASSUME NEW s \in Sessions, CrashInStore(s) PROVE Ownership'
  <2>1. record[s] # NoRecord /\ rows' = Append(rows, record[s].item) /\ owner' = owner
    BY <1>8 DEF CrashInStore
  <2>2. record[s].item \in Items /\ owner[record[s].item] = s /\ s # Nobody
    BY <2>1, StoredRecord, ArchiveAssumption DEF Ownership
  <2>3. \A n \in 1..Len(rows') : rows'[n] = IF n \in 1..Len(rows) THEN rows[n] ELSE record[s].item
    BY <1>0, <2>1, <2>2 DEF TypeOK
  <2>4. \A u \in Sessions : record'[u] = NoRecord
    BY <1>8 DEF CrashInStore, Restart
  <2>. QED
    BY <2>1, <2>2, <2>3, <2>4 DEF Ownership
<1>9. ASSUME NEW j \in Jobs, Take(j) PROVE Ownership'
  BY <1>9 DEF Ownership, Take
<1>10. ASSUME NEW j \in Jobs, Advance(j, job[j].kind), job[j].stage # "idle", UNCHANGED <<rows, owner, record>>
       PROVE Ownership'
  <2>1. \A s \in Sessions : run'[s] # run[s] => s = j
    BY <1>10 DEF Advance, TypeOK
  <2>2. \A s \in Sessions : s = j => record[s] = NoRecord
    BY <1>10 DEF Stages, Ownership
  <2>. QED
    BY <1>10, <2>1, <2>2 DEF Ownership
<1>11. ASSUME NEW j \in Jobs, Scan(j) PROVE Ownership'
  BY <1>10, <1>11 DEF Ownership, Scan
<1>12. ASSUME NEW j \in Jobs, StoreBatch(j) PROVE Ownership'
  BY <1>10, <1>12 DEF StoreBatch
<1>13. ASSUME NEW tag \in Tags, Load(tag) PROVE Ownership'
  BY <1>13 DEF Ownership, Load
<1>14. CASE Crash
  BY <1>14 DEF Ownership, Crash, Restart
<1>15. CASE UNCHANGED vars
  BY <1>15 DEF Ownership, vars
<1>16. ASSUME NEW s \in Sessions, StoreFails(s) PROVE Ownership'
  <2>1. /\ record[s] # NoRecord /\ owner' = owner /\ run' = run
        /\ rows' = rows \/ rows' = Append(rows, record[s].item)
        /\ record' = [record EXCEPT ![s] = NoRecord]
    BY <1>16 DEF StoreFails
  <2>2. record[s].item \in Items /\ owner[record[s].item] = s /\ s # Nobody
    BY <2>1, StoredRecord, ArchiveAssumption DEF Ownership
  <2>3. \A n \in 1..Len(rows') : rows'[n] = IF n \in 1..Len(rows) THEN rows[n] ELSE record[s].item
    <3>1. CASE rows' = rows
      BY <3>1
    <3>2. CASE rows' = Append(rows, record[s].item)
      BY <1>0, <2>2, <3>2 DEF TypeOK
    <3>. QED
      BY <2>1, <3>1, <3>2
  <2>4. \A n \in 1..Len(rows') : owner'[rows'[n]] # Nobody
    BY <2>1, <2>2, <2>3 DEF Ownership
  <2>5. \A u \in Sessions : record'[u] # NoRecord => record'[u] = record[u]
    BY <2>1 DEF TypeOK
  <2>. QED
    BY <2>1, <2>4, <2>5 DEF Ownership
<1>17. ASSUME NEW j \in Jobs, JobFails(j) PROVE Ownership'
  BY <1>10, <1>17 DEF JobFails
<1>. QED
  BY <1>1, <1>2, <1>3, <1>4, <1>5, <1>6, <1>7, <1>8, <1>9, <1>11, <1>12, <1>13, <1>14, <1>15, <1>16, <1>17 DEF Next

\* What Advance does to the stages: a run's job ends with the run, Core's with the start-up task.
LEMMA AdvanceStages ==
  ASSUME TypeOK, Stages, NEW j \in Jobs, job[j].stage # "idle", Advance(j, job[j].kind), slot' = slot
  PROVE  Stages'
<1>1. CASE job[j].kind = "message"
  <2>1. job'[j].stage = "scan" /\ (\A k \in Jobs : k # j => job'[k] = job[k]) /\ UNCHANGED <<run, loader>>
    BY <1>1 DEF Advance, TypeOK
  <2>2. \A k \in Jobs : job'[k].stage # "idle" <=> job[k].stage # "idle"
    BY <2>1
  <2>. QED
    BY <2>1, <2>2, Distinct DEF Stages
<1>2. CASE job[j].kind # "message"
  <2>1. job'[j].stage = "idle" /\ (\A k \in Jobs : k # j => job'[k] = job[k])
    BY <1>2 DEF Advance, TypeOK, IdleJob
  <2>2. CASE j = Core
    <3>1. run' = run /\ loader' = "ready"
      BY <1>2, <2>2, Distinct DEF Advance
    <3>. QED
      BY <2>1, <2>2, <3>1, Distinct DEF Stages
  <2>3. CASE j # Core
    <3>1. j \in Sessions /\ run' = [run EXCEPT ![j] = "indexed"] /\ loader' = loader
      BY <1>2, <2>3 DEF Advance, Jobs
    <3>2. run'[j] = "indexed" /\ \A s \in Sessions : s # j => run'[s] = run[s]
      BY <3>1 DEF TypeOK
    <3>. QED
      BY <2>1, <2>3, <3>1, <3>2, Distinct DEF Stages
  <2>. QED
    BY <2>2, <2>3
<1>. QED
  BY <1>1, <1>2

\* Steps that leave the jobs, the slot and the start-up task alone.
LEMMA SameStages ==
  ASSUME Stages, UNCHANGED <<job, slot, loader>>,
         \A s \in Sessions : run'[s] = "ended" <=> run[s] = "ended"
  PROVE  Stages'
  BY DEF Stages

LEMMA StagesStep ==
  ASSUME TypeOK, Stages, [Next]_vars
  PROVE  Stages'
<1>1. ASSUME NEW s \in Sessions, StartRun(s) PROVE Stages'
  BY <1>1, SameStages DEF StartRun, TypeOK
<1>2. ASSUME NEW s \in Sessions, BeginMessage(s) PROVE Stages'
  BY <1>2, SameStages DEF BeginMessage
<1>3. ASSUME NEW s \in Sessions, StoreMessage(s) PROVE Stages'
  BY <1>3, SameStages DEF StoreMessage
<1>4. ASSUME NEW s \in Sessions, CallTool(s) PROVE Stages'
  BY <1>4, SameStages DEF CallTool
<1>5. ASSUME NEW s \in Sessions, ToolResult(s) PROVE Stages'
  BY <1>5, SameStages DEF ToolResult
<1>6. ASSUME NEW s \in Sessions, EndRun(s) PROVE Stages'
  <2>1. job' = [job EXCEPT ![s].stage = "queued"] /\ run' = [run EXCEPT ![s] = "ended"] /\ UNCHANGED <<slot, loader>>
    BY <1>6 DEF EndRun
  <2>2. job'[s].stage = "queued" /\ run'[s] = "ended"
    BY <2>1, Distinct DEF TypeOK
  <2>3. \A k \in Jobs : k # s => job'[k] = job[k]
    BY <2>1, Distinct DEF TypeOK
  <2>4. \A u \in Sessions : u # s => run'[u] = run[u]
    BY <2>1 DEF TypeOK
  <2>. QED
    BY <2>1, <2>2, <2>3, <2>4, Distinct DEF Stages
<1>7. ASSUME NEW s \in Sessions, HangUp(s) PROVE Stages'
  BY <1>7, SameStages DEF HangUp, TypeOK
<1>8. CASE Restart
  BY <1>8, Distinct DEF Restart, Stages, IdleJob
<1>9. ASSUME NEW j \in Jobs, Take(j) PROVE Stages'
  <2>1. job'[j].stage = "scan" /\ job[j].stage = "queued" /\ UNCHANGED <<slot, loader, run>>
    BY <1>9 DEF Take, TypeOK
  <2>2. \A k \in Jobs : k # j => job'[k] = job[k]
    BY <1>9 DEF Take, TypeOK
  <2>3. \A k \in Jobs : job'[k].stage # "idle" <=> job[k].stage # "idle"
    BY <2>1, <2>2
  <2>. QED
    BY <2>1, <2>3, Distinct DEF Stages
<1>10. ASSUME NEW j \in Jobs, Scan(j) PROVE Stages'
  <2>1. CASE Unembedded(job[j].kind, job[j].slot.tag) = {}
    BY <1>10, <2>1, AdvanceStages DEF Scan
  <2>2. CASE Unembedded(job[j].kind, job[j].slot.tag) # {}
    <3>1. job'[j].stage = "embed" /\ job[j].stage = "scan" /\ UNCHANGED <<slot, loader, run>>
      BY <1>10, <2>2 DEF Scan, TypeOK
    <3>2. \A k \in Jobs : k # j => job'[k] = job[k]
      BY <1>10, <2>2 DEF Scan, TypeOK
    <3>3. \A k \in Jobs : job'[k].stage # "idle" <=> job[k].stage # "idle"
      BY <3>1, <3>2
    <3>. QED
      BY <3>1, <3>3, Distinct DEF Stages
  <2>. QED
    BY <2>1, <2>2
<1>11. ASSUME NEW j \in Jobs, StoreBatch(j) PROVE Stages'
  BY <1>11, AdvanceStages DEF StoreBatch
<1>12. ASSUME NEW tag \in Tags, Load(tag) PROVE Stages'
  <2>1. job[Core].stage = "idle" /\ run' = run
    BY <1>12, Distinct DEF Load, Stages, TypeOK
  <2>2. CASE tag = Neural
    <3>1. job' = [job EXCEPT ![Core].stage = "queued"] /\ loader' = "backfill" /\ slot'.tag = Neural
      BY <1>12, <2>2 DEF Load
    <3>2. job'[Core].stage = "queued" /\ \A k \in Jobs : k # Core => job'[k] = job[k]
      BY <3>1, Distinct DEF TypeOK
    <3>. QED
      BY <2>1, <3>1, <3>2, Distinct DEF Stages
  <2>3. CASE tag # Neural
    <3>1. job' = job /\ loader' = "ready"
      BY <1>12, <2>3 DEF Load
    <3>. QED
      BY <2>1, <3>1 DEF Stages
  <2>. QED
    BY <2>2, <2>3
<1>13. CASE UNCHANGED vars
  BY <1>13, SameStages DEF vars
<1>14. ASSUME NEW s \in Sessions, StoreFails(s) PROVE Stages'
  BY <1>14, SameStages DEF StoreFails
<1>15. ASSUME NEW j \in Jobs, JobFails(j) PROVE Stages'
  BY <1>15, AdvanceStages DEF JobFails
<1>. QED
  BY <1>1, <1>2, <1>3, <1>4, <1>5, <1>6, <1>7, <1>8, <1>9, <1>10, <1>11, <1>12, <1>13, <1>14, <1>15 DEF Next, CrashInStore, Crash

-----------------------------------------------------------------------------
\* A row found stays found, and what a job covers it goes on covering.
LEMMA CoversStay ==
  ASSUME TypeOK, Grows, NEW j \in Jobs, job'[j] = job[j], NEW N, N \subseteq 1..Len(rows), Covers(j, N)
  PROVE  /\ job'[j].kind = "tool" =>
                \A n \in N : rows'[n] \in Messages => KeptNext(rows'[n], job'[j].slot.tag)
         /\ job'[j].stage = "embed" =>
                \A n \in N : rows'[n] \in OfKind(job'[j].kind) =>
                  \/ KeptNext(rows'[n], job'[j].slot.tag)
                  \/ \E p \in job'[j].pending : p.item = rows'[n]
<1>1. job[j].slot.tag \in Tags
  BY DEF TypeOK, Slots
<1>. QED
  BY <1>1 DEF Covers, Found, Grows

LEMMA RunCoversStay ==
  ASSUME TypeOK, Grows, NEW s \in Sessions, job'[s] = job[s], RowsOf(s)' = RowsOf(s),
         Covers(s, RowsOf(s))
  PROVE  Covers(s, RowsOf(s))'
<1>. DEFINE N == RowsOf(s)
<1>1. N \subseteq 1..Len(rows) /\ N' = N
  BY DEF RowsOf
<1>2. Covers(s, N) /\ s \in Jobs
  BY Distinct
<1>. HIDE DEF N
<1>3. /\ job'[s].kind = "tool" =>
             \A n \in N : rows'[n] \in Messages => KeptNext(rows'[n], job'[s].slot.tag)
      /\ job'[s].stage = "embed" =>
             \A n \in N : rows'[n] \in OfKind(job'[s].kind) =>
               \/ KeptNext(rows'[n], job'[s].slot.tag)
               \/ \E p \in job'[s].pending : p.item = rows'[n]
  BY <1>1, <1>2, CoversStay
<1>4. Covers(s, N)'
  BY <1>1, <1>3 DEF Covers, Found
<1>. QED
  BY <1>4 DEF N

\* Steps of the runs, and the beginning of a job, disturb none of it.
LEMMA QuietStep ==
  ASSUME TypeOK, Stages, Coverage, Grows, Closed, UNCHANGED <<slot, old>>, loader' = loader,
         \A j \in Jobs : \/ job'[j] = job[j]
                         \/ job'[j].stage = "queued"
                         \/ /\ job'[j].stage = "scan" /\ job'[j].kind = "message" /\ job'[j].slot = slot
                            /\ job[j].stage # "idle",
         \A s \in Sessions : run'[s] = "indexed" => run[s] = "indexed"
  PROVE  Coverage'
<1>1. old \in 0..Len(rows) /\ Len(rows) \in Nat /\ slot.tag \in Tags
  BY DEF TypeOK, Slots
<1>2. ASSUME NEW s \in Sessions, run[s] \in {"ended", "indexed"}, Early(s) PROVE Early(s)'
  BY <1>2 DEF Closed, Early
<1>3. CoreProgress'
  <2>. SUFFICES ASSUME Working(Core)' PROVE (job[Core].slot.tag = Neural /\ Covers(Core, 1..old))'
    BY DEF CoreProgress
  <2>1. CASE job'[Core] = job[Core]
    <3>1. job[Core].slot.tag = Neural /\ Covers(Core, 1..old)
      BY <2>1 DEF Coverage, CoreProgress, Working
    <3>2. 1..old \subseteq 1..Len(rows)
      BY <1>1
    <3>3. Covers(Core, 1..old)'
      BY <2>1, <3>1, <3>2, CoversStay, Distinct DEF Covers, Found
    <3>. QED
      BY <2>1, <3>1, <3>3
  <2>2. CASE job'[Core] # job[Core]
    <3>1. job'[Core].stage = "scan" /\ job'[Core].kind = "message" /\ job'[Core].slot = slot /\ job[Core].stage # "idle"
      BY <2>2, Distinct DEF Working
    <3>2. slot.tag = Neural
      BY <3>1 DEF Stages
    <3>. QED
      BY <3>1, <3>2 DEF Covers
  <2>. QED
    BY <2>1, <2>2
<1>4. RunProgress'
  <2>. SUFFICES ASSUME NEW s \in Sessions, Working(s)'
                PROVE  (Covers(s, RowsOf(s)) /\ (job[s].slot.tag = slot.tag \/ Early(s)))'
    BY DEF RunProgress
  <2>1. CASE job'[s] = job[s]
    <3>1. Working(s) /\ Covers(s, RowsOf(s)) /\ (job[s].slot.tag = slot.tag \/ Early(s))
      BY <2>1 DEF Coverage, RunProgress, Working
    <3>2. run[s] = "ended"
      BY <3>1 DEF Stages, Working
    <3>3. RowsOf(s)' = RowsOf(s) /\ RowsOf(s) \subseteq 1..Len(rows)
      BY <3>2 DEF Closed, RowsOf
    <3>4. Covers(s, RowsOf(s))'
      BY <2>1, <3>1, <3>3, RunCoversStay
    <3>. QED
      BY <1>2, <2>1, <3>1, <3>2, <3>4
  <2>2. CASE job'[s] # job[s]
    <3>1. job'[s].stage = "scan" /\ job'[s].kind = "message" /\ job'[s].slot = slot
      BY <2>2, Distinct DEF Working
    <3>. QED
      BY <3>1 DEF Covers
  <2>. QED
    BY <2>1, <2>2
<1>5. IndexedRuns'
  <2>. SUFFICES ASSUME NEW s \in Sessions, run[s] = "indexed"
                PROVE  ((\A n \in RowsOf(s) : Found(n, slot.tag)) \/ Early(s))'
    BY DEF IndexedRuns
  <2>1. RowsOf(s)' = RowsOf(s) /\ RowsOf(s) \subseteq 1..Len(rows)
    BY DEF Closed, RowsOf
  <2>2. (\A n \in RowsOf(s) : Found(n, slot.tag)) \/ Early(s)
    BY DEF Coverage, IndexedRuns
  <2>. QED
    BY <1>1, <1>2, <2>1, <2>2 DEF Found, Grows
<1>6. LoadedRows'
  BY <1>1, Distinct DEF Coverage, LoadedRows, Found, Grows, Tags
<1>. QED
  BY <1>3, <1>4, <1>5, <1>6 DEF Coverage

\* A job that has found all rows of its kind goes on to the next, or is over, with nothing left behind.
LEMMA AdvanceStep ==
  ASSUME FitInv, TypeOK', NEW j \in Jobs, Working(j), Advance(j, job[j].kind), Grows,
         UNCHANGED <<slot, old, rows, owner>>,
         \A n \in 1..Len(rows) :
         /\ (j \in Sessions /\ n \in RowsOf(j)) \/ (j = Core /\ n \in 1..old)
         /\ rows[n] \in OfKind(job[j].kind)
         => KeptNext(rows[n], job[j].slot.tag)
  PROVE  Coverage'
<1>0. TypeOK /\ Stages /\ CoreProgress /\ RunProgress /\ IndexedRuns /\ LoadedRows
  BY DEF FitInv, Coverage
<1>1. old \in 0..Len(rows) /\ Len(rows) \in Nat /\ job[j].slot.tag \in Tags /\ slot.tag \in Tags
  BY <1>0 DEF TypeOK, Slots
<1>2. 1..old \subseteq 1..Len(rows) /\ (\A s \in Sessions : RowsOf(s) \subseteq 1..Len(rows) /\ RowsOf(s)' = RowsOf(s))
      /\ (\A n \in 1..Len(rows) : rows[n] \in Messages \cup Tools)
  BY <1>0, <1>1 DEF RowsOf, TypeOK, Items
<1>3. \A s \in Sessions : Early(s)' <=> Early(s)
  BY <1>2 DEF Early
<1>4. \A k \in Jobs : k # j => job'[k] = job[k]
  <2>1. CASE job[j].kind = "message"
    BY <1>0, <2>1 DEF Advance, TypeOK
  <2>2. CASE job[j].kind # "message"
    BY <1>0, <2>2 DEF Advance, TypeOK
  <2>. QED
    BY <2>1, <2>2
\* The job's next stage, over the rows N it has to cover.
<1>5. ASSUME NEW N, N \subseteq 1..Len(rows), Covers(j, N), job[j].kind = "message",
             \A n \in N : rows[n] \in OfKind(job[j].kind) => KeptNext(rows[n], job[j].slot.tag)
      PROVE  /\ job'[j].kind = "tool" /\ job'[j].stage = "scan" /\ job'[j].slot = job[j].slot
             /\ \A n \in N : rows[n] \in Messages => KeptNext(rows[n], job'[j].slot.tag)
  <2>1. job' = [job EXCEPT ![j].stage = "scan", ![j].kind = "tool", ![j].pending = {}]
    BY <1>5 DEF Advance
  <2>2. job[j] \in JobRecords /\ j \in DOMAIN job
    BY <1>0, JobType
  <2>3. job'[j] = [job[j] EXCEPT !.stage = "scan", !.kind = "tool", !.pending = {}]
    BY <2>1, <2>2
  <2>4. job'[j].kind = "tool" /\ job'[j].stage = "scan" /\ job'[j].slot = job[j].slot
    BY <2>2, <2>3 DEF JobRecords
  <2>. QED
    BY <1>5, <2>4 DEF OfKind
\* Past the tool calls, all of N is found.
<1>6. ASSUME NEW N, N \subseteq 1..Len(rows), Covers(j, N), job[j].kind # "message",
             \A n \in N : rows[n] \in OfKind(job[j].kind) => KeptNext(rows[n], job[j].slot.tag)
      PROVE  \A n \in N : KeptNext(rows[n], job[j].slot.tag)
  <2>1. job[j].kind = "tool"
    BY <1>0, <1>6 DEF TypeOK
  <2>2. \A n \in N : rows[n] \in Messages => KeptNext(rows[n], job[j].slot.tag)
    <3>1. \A n \in N : rows[n] \in Messages => Kept(rows[n], job[j].slot.tag)
      BY <1>6, <2>1 DEF Covers, Found
    <3>. QED
      BY <1>1, <1>6, <3>1 DEF Grows
  <2>. QED
    BY <1>2, <1>6, <2>1, <2>2 DEF OfKind
<1>7. CoreProgress'
  <2>. SUFFICES ASSUME Working(Core)' PROVE (job[Core].slot.tag = Neural /\ Covers(Core, 1..old))'
    BY DEF CoreProgress
  <2>1. CASE j = Core
    <3>1. job[j].kind = "message"
      BY <2>1, <1>0 DEF Advance, Working, IdleJob, TypeOK
    <3>2. job[j].slot.tag = Neural /\ Covers(j, 1..old)
      BY <1>0, <2>1 DEF CoreProgress
    <3>3. \A n \in 1..old : rows[n] \in OfKind(job[j].kind) => KeptNext(rows[n], job[j].slot.tag)
      BY <1>2, <2>1
    <3>4. /\ job'[j].kind = "tool" /\ job'[j].stage = "scan" /\ job'[j].slot = job[j].slot
          /\ \A n \in 1..old : rows[n] \in Messages => KeptNext(rows[n], job'[j].slot.tag)
      BY <1>2, <1>5, <3>1, <3>2, <3>3
    <3>. QED
      BY <2>1, <3>2, <3>4 DEF Covers, Found
  <2>2. CASE j # Core
    <3>1. job'[Core] = job[Core]
      BY <1>4, <2>2, Distinct
    <3>2. job[Core].slot.tag = Neural /\ Covers(Core, 1..old)
      BY <1>0, <3>1 DEF CoreProgress, Working
    <3>. QED
      BY <1>0, <1>2, <3>1, <3>2, CoversStay, Distinct DEF Covers, Found
  <2>. QED
    BY <2>1, <2>2
<1>8. RunProgress'
  <2>. SUFFICES ASSUME NEW s \in Sessions, Working(s)'
                PROVE  (Covers(s, RowsOf(s)) /\ (job[s].slot.tag = slot.tag \/ Early(s)))'
    BY DEF RunProgress
  <2>1. CASE j = s
    <3>1. job[j].kind = "message"
      BY <2>1, <1>0 DEF Advance, Working, IdleJob, TypeOK
    <3>2. Covers(j, RowsOf(s)) /\ (job[j].slot.tag = slot.tag \/ Early(s))
      BY <1>0, <2>1 DEF RunProgress
    <3>3. \A n \in RowsOf(s) : rows[n] \in OfKind(job[j].kind) => KeptNext(rows[n], job[j].slot.tag)
      BY <1>2, <2>1
    <3>4. /\ job'[j].kind = "tool" /\ job'[j].stage = "scan" /\ job'[j].slot = job[j].slot
          /\ \A n \in RowsOf(s) : rows[n] \in Messages => KeptNext(rows[n], job'[j].slot.tag)
      BY <1>2, <1>5, <3>1, <3>2, <3>3
    <3>. QED
      BY <1>2, <1>3, <2>1, <3>2, <3>4 DEF Covers, Found
  <2>2. CASE j # s
    <3>1. job'[s] = job[s]
      BY <1>4, <2>2, Distinct
    <3>2. Covers(s, RowsOf(s)) /\ (job[s].slot.tag = slot.tag \/ Early(s))
      BY <1>0, <3>1 DEF RunProgress, Working
    <3>3. Covers(s, RowsOf(s))'
      BY <1>0, <1>2, <3>1, <3>2, RunCoversStay
    <3>. QED
      BY <1>3, <3>1, <3>2, <3>3
  <2>. QED
    BY <2>1, <2>2
<1>9. IndexedRuns'
  <2>. SUFFICES ASSUME NEW s \in Sessions, run'[s] = "indexed"
                PROVE  ((\A n \in RowsOf(s) : Found(n, slot.tag)) \/ Early(s))'
    BY DEF IndexedRuns
  <2>1. CASE run[s] = "indexed"
    <3>1. (\A n \in RowsOf(s) : Found(n, slot.tag)) \/ Early(s)
      BY <1>0, <2>1 DEF IndexedRuns
    <3>. QED
      BY <1>1, <1>2, <1>3, <3>1 DEF Found, Grows
  <2>2. CASE run[s] # "indexed"
    <3>1. j = s /\ job[j].kind # "message"
      BY <1>0, <2>2 DEF Advance, TypeOK
    <3>2. Covers(j, RowsOf(s)) /\ (job[j].slot.tag = slot.tag \/ Early(s))
      BY <1>0, <3>1 DEF RunProgress
    <3>3. \A n \in RowsOf(s) : rows[n] \in OfKind(job[j].kind) => KeptNext(rows[n], job[j].slot.tag)
      BY <1>2, <3>1
    <3>4. \A n \in RowsOf(s) : KeptNext(rows[n], job[j].slot.tag)
      BY <1>2, <1>6, <3>1, <3>2, <3>3
    <3>. QED
      BY <1>2, <1>3, <3>2, <3>4 DEF Found
  <2>. QED
    BY <2>1, <2>2
<1>10. LoadedRows'
  <2>. SUFFICES ASSUME loader' = "ready", slot.tag = Neural, NEW n \in 1..old
                PROVE  KeptNext(rows[n], Neural)
    BY DEF LoadedRows, Found
  <2>1. CASE loader = "ready"
    BY <1>0, <1>1, <1>2, <2>1 DEF LoadedRows, Found, Grows
  <2>2. CASE loader # "ready"
    <3>1. j = Core /\ job[j].kind # "message"
      BY <1>0, <2>2, Distinct DEF Advance, TypeOK
    <3>2. Covers(j, 1..old) /\ job[j].slot.tag = Neural
      BY <1>0, <3>1 DEF CoreProgress
    <3>3. \A k \in 1..old : rows[k] \in OfKind(job[j].kind) => KeptNext(rows[k], job[j].slot.tag)
      BY <1>2, <3>1
    <3>. QED
      BY <1>2, <1>6, <3>1, <3>2, <3>3
  <2>. QED
    BY <2>1, <2>2
<1>. QED
  BY <1>7, <1>8, <1>9, <1>10 DEF Coverage

\* The steps of a backfill over an archive that fits a batch.
LEMMA ScanStep ==
  ASSUME FitInv, TypeOK', Fits, NEW j \in Jobs, Scan(j)
  PROVE  Coverage'
<1>0. TypeOK /\ Stages /\ Coverage /\ Ownership
  BY DEF FitInv, Coverage
<1>. DEFINE todo == Unembedded(job[j].kind, job[j].slot.tag)
<1>1. UNCHANGED <<slot, old, rows, owner, stored, skipped>> /\ job[j].stage = "scan" /\ Working(j)
  BY DEF Scan, Working
<1>2. Grows /\ Closed
  BY <1>0, <1>1, SameRows DEF Closed
<1>3. todo = {rows[n] : n \in Lacking(job[j].kind, job[j].slot.tag)}
  BY <1>0, FitsTakesAll DEF TypeOK
<1>4. CASE todo = {}
  <2>1. Advance(j, job[j].kind)
    BY <1>4 DEF Scan
  <2>2. \A n \in 1..Len(rows) : rows[n] \in OfKind(job[j].kind) => Kept(rows[n], job[j].slot.tag)
    BY <1>3, <1>4 DEF Lacking
  <2>. QED
    BY <1>1, <1>2, <2>1, <2>2, AdvanceStep
<1>5. CASE todo # {}
  <2>. DEFINE P == {[item |-> i, text |-> TextOf(i)] : i \in todo}
  <2>0. job' = [job EXCEPT ![j].stage = "embed", ![j].pending = P] /\ UNCHANGED <<run, loader>>
    BY <1>5 DEF Scan
  <2>1. \A n \in 1..Len(rows) : rows[n] \in OfKind(job[j].kind) =>
            Found(n, job[j].slot.tag) \/ \E p \in P : p.item = rows[n]
    <3>. SUFFICES ASSUME NEW n \in 1..Len(rows), rows[n] \in OfKind(job[j].kind), ~ Found(n, job[j].slot.tag)
                  PROVE  \E p \in P : p.item = rows[n]
      OBVIOUS
    <3>1. rows[n] \in todo
      BY <1>3 DEF Lacking, Found
    <3>2. [item |-> rows[n], text |-> TextOf(rows[n])] \in P
      BY <3>1
    <3>. QED
      BY <3>2
  <2>. HIDE DEF P
  <2>2. /\ job'[j].stage = "embed" /\ job'[j].pending = P /\ job'[j].kind = job[j].kind /\ job'[j].slot = job[j].slot
        /\ \A k \in Jobs : k # j => job'[k] = job[k]
    BY <1>0, <2>0 DEF TypeOK
  <2>3. ASSUME NEW N, N \subseteq 1..Len(rows), Covers(j, N)
        PROVE  /\ job'[j].kind = "tool" => \A n \in N : rows[n] \in Messages => Kept(rows[n], job'[j].slot.tag)
               /\ \A n \in N : rows[n] \in OfKind(job'[j].kind) =>
                    Kept(rows[n], job'[j].slot.tag) \/ \E p \in job'[j].pending : p.item = rows[n]
    BY <2>1, <2>2, <2>3 DEF Covers, Found
  <2>4. 1..old \subseteq 1..Len(rows) /\ (\A s \in Sessions : RowsOf(s) \subseteq 1..Len(rows) /\ RowsOf(s)' = RowsOf(s))
    BY <1>0, <1>1 DEF TypeOK, RowsOf
  <2>5. CoreProgress'
    <3>1. CASE j = Core
      <4>1. job[Core].slot.tag = Neural /\ Covers(Core, 1..old)
        BY <1>0, <1>1, <3>1 DEF Coverage, CoreProgress
      <4>2. job'[Core].slot.tag = Neural
        BY <2>2, <3>1, <4>1
      <4>3. Covers(Core, 1..old)'
        BY <1>1, <2>2, <2>3, <2>4, <3>1, <4>1 DEF Covers, Found
      <4>. QED
        BY <4>2, <4>3 DEF CoreProgress
    <3>2. CASE j # Core
      <4>1. job'[Core] = job[Core]
        BY <2>2, <3>2, Distinct
      <4>. QED
        BY <1>0, <1>1, <4>1 DEF Coverage, CoreProgress, Covers, Found, Working
    <3>. QED
      BY <3>1, <3>2
  <2>6. RunProgress'
    <3>. SUFFICES ASSUME NEW s \in Sessions, Working(s)'
                  PROVE  (Covers(s, RowsOf(s)) /\ (job[s].slot.tag = slot.tag \/ Early(s)))'
      BY DEF RunProgress
    <3>0. Early(s)' <=> Early(s)
      BY <1>1, <2>4 DEF Early
    <3>1. CASE j = s
      <4>1. Covers(j, RowsOf(s)) /\ (job[j].slot.tag = slot.tag \/ Early(s))
        BY <1>0, <1>1, <3>1 DEF Coverage, RunProgress
      <4>. QED
        BY <1>1, <2>2, <2>3, <2>4, <3>0, <3>1, <4>1 DEF Covers, Found
    <3>2. CASE j # s
      <4>1. job'[s] = job[s]
        BY <2>2, <3>2, Distinct
      <4>2. Covers(s, RowsOf(s)) /\ (job[s].slot.tag = slot.tag \/ Early(s))
        BY <1>0, <4>1 DEF Coverage, RunProgress, Working
      <4>. QED
        BY <1>1, <2>4, <3>0, <4>1, <4>2 DEF Covers, Found
    <3>. QED
      BY <3>1, <3>2
  <2>7. IndexedRuns'
    BY <1>0, <1>1, <2>0, <2>4 DEF Coverage, IndexedRuns, Early, Found
  <2>8. LoadedRows'
    BY <1>0, <1>1, <2>0 DEF Coverage, LoadedRows, Found
  <2>. QED
    BY <2>5, <2>6, <2>7, <2>8 DEF Coverage
<1>. QED
  BY <1>4, <1>5

\* What the upserts of a batch leave: nothing is lost, and what was stored is found.
LEMMA UpsertsGrow ==
  ASSUME TypeOK, NEW j \in Jobs, NEW done \in SUBSET job[j].pending, Upserts(j, done),
         UNCHANGED <<rows, owner>>, \A g \in Tags : skipped[g] \subseteq skipped'[g]
  PROVE  /\ Grows
         /\ \A i \in Items : (\E p \in done : p.item = i) => KeptNext(i, job[j].slot.tag)
<1>1. job[j].slot.tag \in Tags /\ \A n \in 1..Len(rows) : rows[n] \in Items
  BY DEF TypeOK, Slots
<1>2. \A i \in Items : \A g \in Tags :
         IF g = job[j].slot.tag /\ \E p \in done : p.item = i
         THEN stored'[i][g] # NoVector
         ELSE stored'[i][g] = stored[i][g]
  BY BatchTypes
<1>. QED
  BY <1>1, <1>2 DEF Grows

\* The end of a batch in which every item was stored or is told to have failed.
LEMMA BatchStep ==
  ASSUME FitInv, TypeOK', NEW j \in Jobs, job[j].stage = "embed", Advance(j, job[j].kind),
         UNCHANGED <<slot, old, rows, owner>>, Grows,
         \A i \in Items :
           (\E p \in job[j].pending : p.item = i) => KeptNext(i, job[j].slot.tag)
  PROVE  Coverage'
<1>0. TypeOK /\ Stages /\ CoreProgress /\ RunProgress
  BY DEF FitInv, Coverage
<1>. DEFINE tag == job[j].slot.tag
<1>1. Working(j)
  BY DEF Working
<1>3. tag \in Tags /\ \A n \in 1..Len(rows) : rows[n] \in Items
  BY <1>0 DEF TypeOK, Slots
<1>6. ASSUME NEW N, Covers(j, N), N \subseteq 1..Len(rows)
      PROVE  \A n \in N : rows[n] \in OfKind(job[j].kind) => KeptNext(rows[n], tag)
  BY <1>3, <1>6 DEF Covers, Found, Grows
<1>7. 1..old \subseteq 1..Len(rows) /\ (\A s \in Sessions : RowsOf(s) \subseteq 1..Len(rows))
  BY <1>0 DEF TypeOK, RowsOf
<1>8. \A n \in 1..Len(rows) :
         /\ (j \in Sessions /\ n \in RowsOf(j)) \/ (j = Core /\ n \in 1..old)
         /\ rows[n] \in OfKind(job[j].kind)
         => KeptNext(rows[n], tag)
  <2>1. j \in Sessions => Covers(j, RowsOf(j))
    BY <1>0, <1>1 DEF RunProgress
  <2>2. j = Core => Covers(j, 1..old)
    BY <1>0, <1>1 DEF CoreProgress
  <2>3. j \in Sessions => \A n \in RowsOf(j) : rows[n] \in OfKind(job[j].kind) => KeptNext(rows[n], tag)
    BY <1>6, <1>7, <2>1
  <2>4. j = Core => \A n \in 1..old : rows[n] \in OfKind(job[j].kind) => KeptNext(rows[n], tag)
    BY <1>6, <1>7, <2>2
  <2>. QED
    BY <2>3, <2>4
<1>. QED
  BY <1>1, <1>8, AdvanceStep

LEMMA StoreBatchStep ==
  ASSUME FitInv, TypeOK', NEW j \in Jobs, StoreBatch(j)
  PROVE  Coverage'
<1>1. /\ UNCHANGED <<slot, old, rows, owner, skipped>> /\ job[j].stage = "embed"
      /\ Advance(j, job[j].kind) /\ Upserts(j, job[j].pending)
  BY DEF StoreBatch
<1>2. Grows /\ \A i \in Items :
        (\E p \in job[j].pending : p.item = i) => KeptNext(i, job[j].slot.tag)
  BY <1>1, UpsertsGrow DEF FitInv
<1>. QED
  BY <1>1, <1>2, BatchStep

\* A backfill that fails leaves only what is told.
LEMMA JobFailsStep ==
  ASSUME FitInv, TypeOK', Fits, NEW j \in Jobs, JobFails(j)
  PROVE  Coverage'
<1>0. TypeOK
  BY DEF FitInv
<1>1. UNCHANGED <<slot, old, rows, owner>> /\ Advance(j, job[j].kind)
  BY DEF JobFails
<1>2. CASE /\ job[j].stage = "scan" /\ UNCHANGED stored
           /\ skipped' = [skipped EXCEPT ![job[j].slot.tag] = @ \cup Unembedded(job[j].kind, job[j].slot.tag)]
  <2>1. Unembedded(job[j].kind, job[j].slot.tag)
          = {rows[n] : n \in Lacking(job[j].kind, job[j].slot.tag)}
    BY <1>0, FitsTakesAll DEF TypeOK
  <2>2. Grows
    BY <1>0, <1>1, <1>2 DEF Grows, TypeOK
  <2>3. \A n \in 1..Len(rows) :
          rows[n] \in OfKind(job[j].kind) => KeptNext(rows[n], job[j].slot.tag)
    <3>. DEFINE tag == job[j].slot.tag
                todo == Unembedded(job[j].kind, tag)
    <3>1. tag \in Tags /\ skipped \in [Tags -> SUBSET Items]
      BY <1>0 DEF TypeOK, Slots
    <3>2. skipped'[tag] = skipped[tag] \cup todo /\ stored' = stored
      BY <1>2, <3>1
    <3>. HIDE DEF tag
    <3>3. \A n \in Lacking(job[j].kind, tag) : rows[n] \in skipped'[tag]
      BY <2>1, <3>2 DEF tag
    <3>4. \A n \in 1..Len(rows) :
            rows[n] \in OfKind(job[j].kind) => KeptNext(rows[n], tag)
      BY <3>2, <3>3 DEF Lacking
    <3>. QED
      BY <3>4 DEF tag
  <2>4. Working(j)
    BY <1>2 DEF Working
  <2>. QED
    BY <1>1, <2>2, <2>3, <2>4, AdvanceStep
<1>3. ASSUME NEW p \in job[j].pending, job[j].stage = "embed",
             Upserts(j, job[j].pending \ {p}),
             skipped' = [skipped EXCEPT ![job[j].slot.tag] = @ \cup {p.item}]
      PROVE  Coverage'
  <2>1. Grows /\ \A i \in Items :
          (\E q \in job[j].pending \ {p} : q.item = i) => KeptNext(i, job[j].slot.tag)
    BY <1>0, <1>1, <1>3, UpsertsGrow
  <2>2. \A i \in Items :
          (\E q \in job[j].pending : q.item = i) => KeptNext(i, job[j].slot.tag)
    <3>1. job[j].slot.tag \in Tags /\ skipped \in [Tags -> SUBSET Items]
      BY <1>0 DEF TypeOK, Slots
    <3>2. p.item \in skipped'[job[j].slot.tag]
      BY <1>3, <3>1
    <3>. QED
      BY <2>1, <3>2
  <2>. QED
    BY <1>1, <1>3, <2>1, <2>2, BatchStep
<1>. QED
  BY <1>2, <1>3 DEF JobFails

\* The swap: what was indexed or under way with the hash tag was there before it.
LEMMA LoadStep ==
  ASSUME TypeOK, Stages, Coverage, NEW tag \in Tags, Load(tag)
  PROVE  Coverage'
<1>1. job[Core].stage = "idle" /\ slot.tag = Hash /\ old' = Len(rows) /\ slot'.tag = tag
      /\ UNCHANGED <<rows, owner, stored, skipped, run>>
  BY Distinct DEF Load, Stages, TypeOK
<1>2. (\A s \in Sessions : RowsOf(s)' = RowsOf(s)) /\ \A s \in Sessions : \A n \in RowsOf(s) : n <= Len(rows)
  BY <1>1 DEF RowsOf, TypeOK
<1>3. (\A j \in Jobs : j # Core => job'[j] = job[j]) /\ job'[Core].stage \in {"idle", "queued"}
  <2>1. CASE tag = Neural
    BY <2>1, Distinct DEF Load, TypeOK
  <2>2. CASE tag # Neural
    BY <1>1, <2>2 DEF Load
  <2>. QED
    BY <2>1, <2>2
<1>4. tag = Neural \/ tag = Hash
  BY DEF Tags
<1>5. tag = Neural => \A s \in Sessions : Early(s)'
  BY <1>1, <1>2 DEF Early
<1>6. \A s \in Sessions : ~ Early(s)
  BY <1>1, Distinct DEF Early
<1>7. CoreProgress'
  BY <1>3 DEF CoreProgress, Working
<1>8. RunProgress'
  <2>. SUFFICES ASSUME NEW s \in Sessions, Working(s)'
                PROVE  (Covers(s, RowsOf(s)) /\ (job[s].slot.tag = slot.tag \/ Early(s)))'
    BY DEF RunProgress
  <2>1. job'[s] = job[s]
    BY <1>3, Distinct
  <2>2. Covers(s, RowsOf(s)) /\ job[s].slot.tag = Hash
    BY <1>1, <1>6, <2>1 DEF Coverage, RunProgress, Working
  <2>3. Covers(s, RowsOf(s))'
    BY <1>1, <1>2, <2>1, <2>2 DEF Covers, Found
  <2>. QED
    BY <1>1, <1>4, <1>5, <2>1, <2>2, <2>3
<1>9. IndexedRuns'
  <2>. SUFFICES ASSUME NEW s \in Sessions, run[s] = "indexed"
                PROVE  ((\A n \in RowsOf(s) : Found(n, slot.tag)) \/ Early(s))'
    BY <1>1 DEF IndexedRuns
  <2>1. \A n \in RowsOf(s) : Found(n, Hash)
    BY <1>1, <1>6 DEF Coverage, IndexedRuns
  <2>. QED
    BY <1>1, <1>2, <1>4, <1>5, <2>1 DEF Found
<1>10. LoadedRows'
  BY <1>1, <1>4, Distinct DEF Load, LoadedRows
<1>. QED
  BY <1>7, <1>8, <1>9, <1>10 DEF Coverage

\* Every step keeps the coverage while the archive fits a batch.
LEMMA CoverageStep ==
  ASSUME FitInv, Fits, TypeOK', [Next]_vars
  PROVE  Coverage'
<1>0. TypeOK /\ Ownership /\ Stages /\ Coverage
  BY DEF FitInv, Coverage
<1>1. CASE /\ rows' = rows /\ owner' = owner /\ stored' = stored /\ skipped' = skipped /\ UNCHANGED <<slot, old, loader, job>>
           /\ \A s \in Sessions : run'[s] = "indexed" => run[s] = "indexed"
  <2>1. Grows /\ Closed
    BY <1>0, <1>1, SameRows DEF Closed
  <2>. QED
    BY <1>0, <1>1, <2>1, QuietStep
<1>2. ASSUME NEW s \in Sessions, BeginMessage(s) PROVE Coverage'
  <2>1. PICK m \in Messages : owner[m] = Nobody /\ owner' = [owner EXCEPT ![m] = s]
    BY <1>2 DEF BeginMessage
  <2>2. m \in Items /\ rows' = rows /\ stored' = stored /\ skipped' = skipped
    BY <1>2 DEF Items, BeginMessage
  <2>3. Grows /\ Closed
    BY <1>0, <2>1, <2>2, Reserved
  <2>. QED
    BY <1>0, <1>2, <2>3, QuietStep DEF BeginMessage
<1>3. ASSUME NEW s \in Sessions, StoreMessage(s) PROVE Coverage'
  <2>1. record[s] # NoRecord /\ owner' = owner /\ rows' = Append(rows, record[s].item) /\ skipped' = skipped
        /\ stored' = [stored EXCEPT ![record[s].item][record[s].tag] = [by |-> record[s].by, text |-> "full"]]
    BY <1>3 DEF StoreMessage
  <2>2. record[s].item \in Items /\ owner[record[s].item] = s /\ run[s] \in {"running", "aborted"}
    BY <1>0, <2>1, StoredRecord DEF Ownership
  <2>3. [by |-> record[s].by, text |-> "full"] # NoVector
    BY <1>0, <2>1, StoredRecord, ArchiveAssumption
  <2>4. \A k \in Items : \A g \in Tags : Kept(k, g) => KeptNext(k, g)
    BY <1>0, <2>1, <2>3 DEF TypeOK
  <2>5. Grows /\ Closed
    BY <1>0, <2>1, <2>2, <2>4, OneMoreRow
  <2>. QED
    BY <1>0, <1>3, <2>5, QuietStep DEF StoreMessage
<1>10. ASSUME NEW s \in Sessions, StoreFails(s) PROVE Coverage'
  <2>1. CASE rows' = rows
    BY <1>0, <1>1, <1>10, <2>1 DEF StoreFails
  <2>2. CASE rows' = Append(rows, record[s].item)
    <3>1. record[s] # NoRecord /\ owner' = owner /\ stored' = stored /\ skipped' = skipped
      BY <1>10 DEF StoreFails
    <3>2. record[s].item \in Items /\ owner[record[s].item] = s /\ run[s] \in {"running", "aborted"}
      BY <1>0, <3>1, StoredRecord DEF Ownership
    <3>3. Grows /\ Closed
      BY <1>0, <2>2, <3>1, <3>2, OneMoreRow
    <3>. QED
      BY <1>0, <1>10, <3>3, QuietStep DEF StoreFails
  <2>. QED
    BY <1>10, <2>1, <2>2 DEF StoreFails
<1>4. ASSUME NEW s \in Sessions, CallTool(s) PROVE Coverage'
  <2>1. PICK t \in Tools : owner[t] = Nobody /\ owner' = [owner EXCEPT ![t] = s] /\ rows' = Append(rows, t)
    BY <1>4 DEF CallTool
  <2>2. t \in Items /\ run[s] \in {"running", "aborted"} /\ stored' = stored /\ skipped' = skipped /\ owner'[t] = s
    BY <1>0, <1>4, <2>1 DEF Items, CallTool, TypeOK
  <2>3. Grows /\ Closed
    BY <1>0, <2>1, <2>2, OneMoreRow
  <2>. QED
    BY <1>0, <1>4, <2>3, QuietStep DEF CallTool
<1>5. ASSUME NEW s \in Sessions, EndRun(s) PROVE Coverage'
  <2>1. Grows /\ Closed
    BY <1>0, <1>5, SameRows DEF Closed, EndRun
  <2>2. \A j \in Jobs : job'[j] = job[j] \/ job'[j].stage = "queued"
    BY <1>0, <1>5, Distinct DEF EndRun, TypeOK
  <2>3. \A u \in Sessions : run'[u] = "indexed" => run[u] = "indexed"
    BY <1>0, <1>5 DEF EndRun, TypeOK
  <2>. QED
    BY <1>0, <1>5, <2>1, <2>2, <2>3, QuietStep DEF EndRun
<1>6. ASSUME NEW j \in Jobs, Take(j) PROVE Coverage'
  <2>1. Grows /\ Closed
    BY <1>0, <1>6, SameRows DEF Closed, Take
  <2>2. \A k \in Jobs : \/ job'[k] = job[k]
                        \/ /\ job'[k].stage = "scan" /\ job'[k].kind = "message" /\ job'[k].slot = slot
                           /\ job[k].stage # "idle"
    BY <1>0, <1>6 DEF Take, TypeOK
  <2>. QED
    BY <1>0, <1>6, <2>1, <2>2, QuietStep DEF Take
<1>7. CASE Restart
  <2>1. (\A j \in Jobs : job'[j].stage = "idle") /\ (\A s \in Sessions : run'[s] # "indexed") /\ loader' = "loading"
    BY <1>7 DEF Restart, IdleJob
  <2>. QED
    BY <2>1, Distinct DEF Coverage, CoreProgress, RunProgress, IndexedRuns, LoadedRows, Working
<1>8. ASSUME NEW s \in Sessions, StartRun(s) \/ ToolResult(s) \/ HangUp(s) PROVE Coverage'
  BY <1>0, <1>1, <1>8 DEF StartRun, ToolResult, HangUp, TypeOK
<1>9. CASE UNCHANGED vars
  BY <1>1, <1>9 DEF vars
<1>. QED
  BY <1>0, <1>2, <1>3, <1>4, <1>5, <1>6, <1>7, <1>8, <1>9, <1>10, ScanStep, StoreBatchStep,
     JobFailsStep, LoadStep DEF Next, CrashInStore, Crash

\* A step leaves the rows alone or appends one.
LEMMA RowsStep ==
  ASSUME TypeOK, [Next]_vars
  PROVE  rows' = rows \/ \E i \in Items : rows' = Append(rows, i)
<1>1. ASSUME NEW s \in Sessions, StoreMessage(s) \/ StoreFails(s) \/ CrashInStore(s)
      PROVE  rows' = rows \/ \E i \in Items : rows' = Append(rows, i)
  <2>1. record[s] # NoRecord /\ (rows' = rows \/ rows' = Append(rows, record[s].item))
    BY <1>1 DEF StoreMessage, StoreFails, CrashInStore
  <2>2. record[s].item \in Items
    BY <2>1, StoredRecord
  <2>. QED
    BY <2>1, <2>2
<1>2. ASSUME NEW s \in Sessions, CallTool(s) PROVE \E i \in Items : rows' = Append(rows, i)
  BY <1>2 DEF CallTool, Items
<1>3. ASSUME NEW s \in Sessions,
             StartRun(s) \/ BeginMessage(s) \/ ToolResult(s) \/ EndRun(s) \/ HangUp(s)
      PROVE  rows' = rows
  BY <1>3 DEF StartRun, BeginMessage, ToolResult, EndRun, HangUp
<1>4. ASSUME NEW j \in Jobs, Take(j) \/ Scan(j) \/ StoreBatch(j) \/ JobFails(j) PROVE rows' = rows
  BY <1>4 DEF Take, Scan, StoreBatch, JobFails
<1>5. ASSUME NEW tag \in Tags, Load(tag) PROVE rows' = rows
  BY <1>5 DEF Load
<1>6. CASE Crash \/ UNCHANGED vars
  BY <1>6 DEF Crash, vars
<1>. QED
  BY <1>1, <1>2, <1>3, <1>4, <1>5, <1>6 DEF Next

\* Together with the types, the strengthening is kept.
LEMMA IndexStep == IndexInv /\ [Next]_vars => IndexInv'
<1>. SUFFICES ASSUME IndexInv, [Next]_vars PROVE IndexInv'
  OBVIOUS
<1>1. TypeOK /\ Ownership /\ Stages
  BY DEF IndexInv
<1>2. TypeOK'
  BY <1>1, TypeStep
<1>3. Ownership' /\ Stages'
  BY <1>1, OwnershipStep, StagesStep
<1>4. ASSUME Fits' PROVE Coverage'
  <2>1. Fits
    BY <1>1, <1>2, <1>4, RowsStep, FitsBefore
  <2>2. FitInv
    BY <2>1 DEF IndexInv, FitInv
  <2>. QED
    BY <1>2, <2>1, <2>2, CoverageStep
<1>. QED
  BY <1>2, <1>3, <1>4 DEF IndexInv

LEMMA IndexInit == Init => IndexInv
<1>. SUFFICES ASSUME Init PROVE IndexInv
  OBVIOUS
<1>1. TypeOK
  BY InitTypes
<1>2. Ownership /\ Stages
  BY Distinct DEF Init, Ownership, Stages, IdleJob
<1>3. Coverage
  BY Distinct DEF Init, Coverage, CoreProgress, RunProgress, IndexedRuns, LoadedRows, Working, IdleJob
<1>. QED
  BY <1>1, <1>2, <1>3 DEF IndexInv

(* As long as no kind of row is larger than a batch, whatever was there at *)
(* the swap has a neural vector once the start-up task is through, but for *)
(* the rows a backfill failed on.                                          *)
THEOREM SwapIndexes == Spec => []LoadedIsIndexed
<1>1. IndexInv => LoadedIsIndexed
  BY DEF IndexInv, Coverage, LoadedRows, Found, LoadedIsIndexed
<1>. QED
  BY <1>1, IndexInit, IndexStep, PTL DEF Spec

(* As long as no kind of row is larger than a batch, a run whose backfill  *)
(* is over is searchable in full with the active embedder once the         *)
(* start-up task is through, in whatever order the swap, the run and the   *)
(* two jobs came, and but for the rows a backfill failed on.               *)
THEOREM RunsIndexed == Spec => []RunIsIndexed
<1>1. IndexInv => RunIsIndexed
  <2>. SUFFICES ASSUME IndexInv, Fits, NEW s \in Sessions, run[s] = "indexed", loader = "ready",
                       NEW n \in 1..Len(rows), owner[rows[n]] = s
                PROVE  Found(n, slot.tag)
    BY DEF RunIsIndexed, Found
  <2>1. TypeOK /\ n \in RowsOf(s) /\ LoadedRows /\ IndexedRuns
    BY DEF IndexInv, Coverage, RowsOf
  <2>2. (\A k \in RowsOf(s) : Found(k, slot.tag)) \/ Early(s)
    BY <2>1 DEF IndexedRuns
  <2>3. CASE Early(s)
    <3>1. slot.tag = Neural /\ n <= old /\ n \in 1..old
      BY <2>1, <2>3 DEF Early, TypeOK
    <3>. QED
      BY <2>1, <3>1 DEF LoadedRows
  <2>. QED
    BY <2>1, <2>2, <2>3
<1>. QED
  BY <1>1, IndexInit, IndexStep, PTL DEF Spec

-----------------------------------------------------------------------------
\* A death or a failed statement cuts one message off from the keyword index at most.
KeywordInv == IsFiniteSet(Unsearchable) /\ KeywordLossHasCause

LEMMA KeywordStep == TypeOK /\ KeywordInv /\ [Next]_vars => KeywordInv'
<1>. SUFFICES ASSUME TypeOK, KeywordInv, [Next]_vars PROVE KeywordInv'
  OBVIOUS
<1>. DEFINE U == Unsearchable
<1>. DEFINE Causes == crashes + faults
<1>0. /\ IsFiniteSet(U) /\ Cardinality(U) \in Nat /\ Cardinality(U) <= Causes
      /\ crashes \in Nat /\ faults \in Nat /\ Causes \in Nat
  <2>1. crashes \in Nat /\ faults \in Nat
    BY ArchiveAssumption DEF TypeOK
  <2>. QED
    BY <2>1, FS_CardinalityType DEF KeywordInv, KeywordLossHasCause
<1>a. ASSUME Unsearchable' \subseteq U, Causes' \in Nat, Causes' >= Causes PROVE KeywordInv'
  <2>1. IsFiniteSet(Unsearchable') /\ Cardinality(Unsearchable') <= Cardinality(U)
    BY <1>0, <1>a, FS_Subset
  <2>2. Cardinality(Unsearchable') \in Nat
    BY <2>1, FS_CardinalityType
  <2>. QED
    BY <1>0, <1>a, <2>1, <2>2 DEF KeywordInv, KeywordLossHasCause
<1>b. ASSUME NEW i, Unsearchable' \subseteq U \cup {i}, Causes' = Causes + 1 PROVE KeywordInv'
  <2>1. IsFiniteSet(U \cup {i}) /\ Cardinality(U \cup {i}) <= Causes + 1
        /\ Cardinality(U \cup {i}) \in Nat
    BY <1>0, FS_AddElement, FS_CardinalityType
  <2>2. IsFiniteSet(Unsearchable') /\ Cardinality(Unsearchable') <= Cardinality(U \cup {i})
    BY <1>b, <2>1, FS_Subset
  <2>3. Cardinality(Unsearchable') \in Nat
    BY <2>2, FS_CardinalityType
  <2>. QED
    BY <1>0, <1>b, <2>1, <2>2, <2>3 DEF KeywordInv, KeywordLossHasCause
<1>1. CASE UNCHANGED <<rows, keyword>> /\ Causes' \in Nat /\ Causes' >= Causes
  <2>1. Unsearchable' \subseteq U
    BY <1>1 DEF Unsearchable
  <2>. QED
    BY <1>1, <1>a, <2>1
<1>2. ASSUME NEW s \in Sessions, StoreMessage(s) PROVE KeywordInv'
  <2>1. rows' = Append(rows, record[s].item) /\ keyword' = keyword \cup {record[s].item}
        /\ Causes' = Causes
    BY <1>2 DEF StoreMessage
  <2>2. Unsearchable' \subseteq U
    BY <2>1 DEF Unsearchable, TypeOK
  <2>. QED
    BY <1>0, <1>a, <2>1, <2>2
<1>3. ASSUME NEW s \in Sessions, CallTool(s) PROVE KeywordInv'
  <2>1. PICK t \in Tools : rows' = Append(rows, t) /\ keyword' = keyword /\ Causes' = Causes
    BY <1>3 DEF CallTool
  <2>2. t \notin Messages
    BY ArchiveAssumption
  <2>3. Unsearchable' \subseteq U
    BY <2>1, <2>2 DEF Unsearchable, TypeOK
  <2>. QED
    BY <1>0, <1>a, <2>1, <2>3
<1>4. ASSUME NEW s \in Sessions, CrashInStore(s) PROVE KeywordInv'
  <2>1. rows' = Append(rows, record[s].item) /\ keyword \subseteq keyword'
        /\ Causes' = Causes + 1
    BY <1>0, <1>4 DEF CrashInStore, Restart
  <2>2. Unsearchable' \subseteq U \cup {record[s].item}
    BY <2>1 DEF Unsearchable, TypeOK
  <2>. QED
    BY <1>b, <2>1, <2>2
<1>5. CASE Crash
  BY <1>0, <1>1, <1>5 DEF Crash, Restart
<1>6. ASSUME NEW s \in Sessions,
             StartRun(s) \/ BeginMessage(s) \/ ToolResult(s) \/ EndRun(s) \/ HangUp(s)
      PROVE  KeywordInv'
  BY <1>0, <1>1, <1>6 DEF StartRun, BeginMessage, ToolResult, EndRun, HangUp
<1>7. ASSUME NEW j \in Jobs, Take(j) \/ Scan(j) \/ StoreBatch(j) PROVE KeywordInv'
  BY <1>0, <1>1, <1>7 DEF Take, Scan, StoreBatch
<1>8. ASSUME NEW tag \in Tags, Load(tag) PROVE KeywordInv'
  BY <1>0, <1>1, <1>8 DEF Load
<1>9. CASE UNCHANGED vars
  BY <1>0, <1>1, <1>9 DEF vars
<1>10. ASSUME NEW s \in Sessions, StoreFails(s) PROVE KeywordInv'
  <2>1. /\ rows' = rows \/ rows' = Append(rows, record[s].item)
        /\ keyword \subseteq keyword' /\ Causes' = Causes + 1
    BY <1>0, <1>10 DEF StoreFails
  <2>2. ASSUME rows' = rows PROVE Unsearchable' \subseteq U \cup {record[s].item}
    BY <2>1, <2>2 DEF Unsearchable
  <2>3. ASSUME rows' = Append(rows, record[s].item)
        PROVE  Unsearchable' \subseteq U \cup {record[s].item}
    BY <2>1, <2>3 DEF Unsearchable, TypeOK
  <2>. QED
    BY <1>b, <2>1, <2>2, <2>3
<1>11. ASSUME NEW j \in Jobs, JobFails(j) PROVE KeywordInv'
  BY <1>0, <1>1, <1>11 DEF JobFails
<1>. QED
  BY <1>2, <1>3, <1>4, <1>5, <1>6, <1>7, <1>8, <1>9, <1>10, <1>11 DEF Next

(* Whatever dies or fails and when, the messages without a keyword entry   *)
(* are no more than the deaths of the process and the failed statements.   *)
THEOREM KeywordsLost == Spec => []KeywordLossHasCause
<1>1. Init => KeywordInv
  <2>. SUFFICES ASSUME Init PROVE KeywordInv
    OBVIOUS
  <2>1. Unsearchable = {} /\ crashes = 0 /\ faults = 0
    BY DEF Init, Unsearchable
  <2>. QED
    BY <2>1, FS_EmptySet DEF KeywordInv, KeywordLossHasCause
<1>2. Init => TypeOK
  BY InitTypes
<1>3. TypeOK /\ [Next]_vars => TypeOK'
  BY TypeStep
<1>4. KeywordInv => KeywordLossHasCause
  BY DEF KeywordInv
<1>. QED
  BY <1>1, <1>2, <1>3, <1>4, KeywordStep, PTL DEF Spec

-----------------------------------------------------------------------------
(* Why a run that ended is indexed: the safety core of EndedIsIndexed.     *)

\* The steps under the store's mutex that a job has left at most.
JobLeft(j) ==
    CASE job[j].stage = "queued" -> 5
      [] job[j].stage = "scan"   -> IF job[j].kind = "message" THEN 4 ELSE 2
      [] job[j].stage = "embed"  -> IF job[j].kind = "message" THEN 3 ELSE 1
      [] OTHER                   -> 0

Works(j) == Take(j) \/ Scan(j) \/ StoreBatch(j) \/ JobFails(j)

JobsDescend ==
    [][\A j \in Jobs : /\ Works(j) => JobLeft(j)' < JobLeft(j)
                       /\ job[j].stage # "idle" => JobLeft(j)' <= JobLeft(j)]_vars

\* A run that ended has a job with a step to take, and stays so until the job is over or
\* the process dies.
EndedHasStep == \A s \in Sessions : run[s] = "ended" => JobLeft(s) \in 1..5
EndedGoesOn ==
    [][\A s \in Sessions : run[s] = "ended" => run'[s] \in {"ended", "indexed"} \/ Restart]_vars

LEMMA JobStages ==
  ASSUME TypeOK, NEW j \in Jobs
  PROVE  /\ job[j].stage \in {"idle", "queued", "scan", "embed"}
         /\ job[j].kind \in {"message", "tool"}
  BY DEF TypeOK

LEMMA AdvanceFalls ==
  ASSUME TypeOK, NEW j \in Jobs, Advance(j, job[j].kind), job[j].stage \in {"scan", "embed"}
  PROVE  /\ JobLeft(j)' < JobLeft(j)
         /\ \A k \in Jobs : k # j => job'[k] = job[k]
         /\ \A s \in Sessions : run'[s] = run[s] \/ run'[s] = "indexed"
<1>1. CASE job[j].kind = "message"
  <2>1. job'[j].stage = "scan" /\ job'[j].kind = "tool" /\ run' = run
    BY <1>1 DEF Advance, TypeOK
  <2>2. \A k \in Jobs : k # j => job'[k] = job[k]
    BY <1>1 DEF Advance, TypeOK
  <2>. QED
    BY <1>1, <2>1, <2>2 DEF JobLeft
<1>2. CASE job[j].kind # "message"
  <2>1. job'[j].stage = "idle"
    BY <1>2 DEF Advance, TypeOK, IdleJob
  <2>2. \A k \in Jobs : k # j => job'[k] = job[k]
    BY <1>2 DEF Advance, TypeOK
  <2>3. \A s \in Sessions : run'[s] = run[s] \/ run'[s] = "indexed"
    BY <1>2 DEF Advance, TypeOK
  <2>. QED
    BY <1>2, <2>1, <2>2, <2>3 DEF JobLeft
<1>. QED
  BY <1>1, <1>2

LEMMA WorksFall ==
  ASSUME TypeOK, NEW j \in Jobs, Works(j)
  PROVE  /\ JobLeft(j)' < JobLeft(j)
         /\ \A k \in Jobs : k # j => job'[k] = job[k]
         /\ \A s \in Sessions : run'[s] = run[s] \/ run'[s] = "indexed"
<1>1. CASE Take(j)
  <2>1. job'[j].stage = "scan" /\ job'[j].kind = "message" /\ job[j].stage = "queued" /\ run' = run
    BY <1>1 DEF Take, TypeOK
  <2>2. \A k \in Jobs : k # j => job'[k] = job[k]
    BY <1>1 DEF Take, TypeOK
  <2>. QED
    BY <2>1, <2>2 DEF JobLeft
<1>2. CASE Scan(j)
  <2>1. CASE Unembedded(job[j].kind, job[j].slot.tag) = {}
    BY <1>2, <2>1, AdvanceFalls DEF Scan
  <2>2. CASE Unembedded(job[j].kind, job[j].slot.tag) # {}
    <3>1. /\ job'[j].stage = "embed" /\ job'[j].kind = job[j].kind
          /\ job[j].stage = "scan" /\ run' = run
      BY <1>2, <2>2 DEF Scan, TypeOK
    <3>2. \A k \in Jobs : k # j => job'[k] = job[k]
      BY <1>2, <2>2 DEF Scan, TypeOK
    <3>. QED
      BY <3>1, <3>2 DEF JobLeft
  <2>. QED
    BY <2>1, <2>2
<1>3. CASE StoreBatch(j)
  BY <1>3, AdvanceFalls DEF StoreBatch
<1>4. CASE JobFails(j)
  BY <1>4, AdvanceFalls DEF JobFails
<1>. QED
  BY <1>1, <1>2, <1>3, <1>4 DEF Works

\* What becomes of the jobs and of the runs that ended.
LEMMA JobStep ==
  ASSUME TypeOK, Stages, [Next]_vars
  PROVE  /\ \A j \in Jobs : job[j].stage # "idle" => JobLeft(j)' <= JobLeft(j)
         /\ \A s \in Sessions :
              run[s] = "ended" => run'[s] \in {"ended", "indexed"} \/ Restart
<1>0. \A j \in Jobs : JobLeft(j) \in 0..5
  BY JobStages DEF JobLeft
<1> DEFINE Quiet == \A j \in Jobs : job[j].stage # "idle" => job'[j] = job[j]
           Going == \A s \in Sessions : run[s] = "ended" => run'[s] = "ended"
<1>1. ASSUME Quiet PROVE \A j \in Jobs : job[j].stage # "idle" => JobLeft(j)' <= JobLeft(j)
  BY <1>0, <1>1 DEF JobLeft
<1>2. ASSUME NEW s \in Sessions,
             \/ StartRun(s) \/ BeginMessage(s) \/ StoreMessage(s) \/ CallTool(s)
             \/ ToolResult(s) \/ HangUp(s) \/ StoreFails(s)
      PROVE  Quiet /\ Going
  BY <1>2 DEF StartRun, BeginMessage, StoreMessage, CallTool, ToolResult, HangUp, StoreFails, TypeOK
<1>3. ASSUME NEW s \in Sessions, EndRun(s) PROVE Quiet /\ Going
  <2>1. run[s] = "running" /\ job[s].stage = "idle"
    BY <1>3 DEF EndRun, Stages
  <2> QED
    BY <1>3, <2>1 DEF EndRun, TypeOK
<1>4. ASSUME NEW tag \in Tags, Load(tag) PROVE Quiet /\ Going
  <2>1. job[Core].stage = "idle"
    BY <1>4, Distinct DEF Load, Stages
  <2> QED
    BY <1>4, <2>1, Distinct DEF Load, TypeOK
<1>5. ASSUME UNCHANGED vars PROVE Quiet /\ Going
  BY <1>5 DEF vars
<1>6. CASE Restart
  <2>1. \A j \in Jobs : JobLeft(j)' = 0
    BY <1>6 DEF Restart, IdleJob, JobLeft
  <2> QED
    BY <1>0, <1>6, <2>1
<1>7. ASSUME NEW j \in Jobs, Works(j)
      PROVE  /\ \A k \in Jobs : job[k].stage # "idle" => JobLeft(k)' <= JobLeft(k)
             /\ \A s \in Sessions : run[s] = "ended" => run'[s] \in {"ended", "indexed"}
  <2>1. /\ JobLeft(j)' < JobLeft(j)
        /\ \A k \in Jobs : k # j => job'[k] = job[k]
        /\ \A s \in Sessions : run'[s] = run[s] \/ run'[s] = "indexed"
    BY <1>7, WorksFall
  <2>2. ASSUME NEW k \in Jobs, k # j PROVE JobLeft(k)' = JobLeft(k)
    BY <2>1, <2>2 DEF JobLeft
  <2>3. JobLeft(j)' \in 0..5
    <3>1. TypeOK'
      BY TypeStep
    <3> QED
      BY <3>1, JobStages DEF JobLeft, TypeOK
  <2> QED
    BY <1>0, <2>1, <2>2, <2>3
<1>. QED
  BY <1>1, <1>2, <1>3, <1>4, <1>5, <1>6, <1>7 DEF Next, Works, Crash, CrashInStore

(* A run that ended has its job, the job has a step, and five steps of it  *)
(* are the most there are, whatever the archive holds and whoever else is  *)
(* at work: nothing but the end of the process comes between.              *)
THEOREM EndedGetsThere == Spec => []EndedHasStep /\ JobsDescend /\ EndedGoesOn
<1>1. Init => TypeOK /\ Ownership /\ Stages
  BY IndexInit DEF IndexInv
<1>2. TypeOK /\ Ownership /\ Stages /\ [Next]_vars => (TypeOK /\ Ownership /\ Stages)'
  BY TypeStep, OwnershipStep, StagesStep
<1>3. TypeOK /\ Stages => EndedHasStep
  <2>. SUFFICES ASSUME TypeOK, Stages, NEW s \in Sessions, run[s] = "ended"
                PROVE  JobLeft(s) \in 1..5
    BY DEF EndedHasStep
  <2>1. job[s].stage # "idle" /\ s \in Jobs
    BY Distinct DEF Stages
  <2>. QED
    BY <2>1, JobStages DEF JobLeft
<1>4. TypeOK /\ Stages /\ [Next]_vars
        => [\A j \in Jobs : /\ Works(j) => JobLeft(j)' < JobLeft(j)
                            /\ job[j].stage # "idle" => JobLeft(j)' <= JobLeft(j)]_vars
  BY WorksFall, JobStep
<1>5. TypeOK /\ Stages /\ [Next]_vars
        => [\A s \in Sessions : run[s] = "ended" => run'[s] \in {"ended", "indexed"} \/ Restart]_vars
  BY JobStep
<1>. QED
  BY <1>1, <1>2, <1>3, <1>4, <1>5, PTL DEF Spec, JobsDescend, EndedGoesOn
=============================================================================
