------------------------------ MODULE Archive ------------------------------
(***************************************************************************)
(* The semantic index of the session archive: messages and tool calls are  *)
(* stored as rows of sessions.db while the embedder is swapped from the    *)
(* hash fallback to the neural model, runs record their transcripts on the *)
(* blocking pool, and backfill jobs (one per finished run, one at start-up)*)
(* embed what has no vector yet.  Every step that takes the store's mutex  *)
(* is one action; what is read before it is kept in the job's own record.  *)
(* The database outlives the process, everything else does not.            *)
(***************************************************************************)
EXTENDS Integers, Sequences, FiniteSets

CONSTANTS
    Sessions,    \* runs that record into the archive
    Messages,    \* message rows that may be written
    Tools,       \* tool-call rows that may be written
    Core,        \* the start-up backfill (every other job is named by its run)
    Nobody,      \* owner of a row no run has asked for
    NoVector,    \* no row in table embeddings for (owner_id, model)
    NoRecord,    \* the run has no record_message under way
    Batch,       \* max_items, 10_000 in the code
    MaxCrashes,  \* bound on restarts of the core
    MaxFaults    \* bound on statements of the database that fail

Items == Messages \cup Tools
Jobs  == Sessions \cup {Core}
Hash   == "hash"
Neural == "neural"
Tags   == {Hash, Neural}

\* A vector remembers the embedder that computed it and the text it stands for.
Vectors == [by : Tags, text : {"call", "full"}]
Slots   == [by : Tags, tag : Tags]
Records == [item : Messages, by : Tags, tag : Tags]

ASSUME ArchiveAssumption ==
    /\ Messages \cap Tools = {}
    /\ Core \notin Sessions /\ Nobody \notin Sessions
    /\ NoVector \notin Vectors /\ NoRecord \notin Records
    /\ Batch \in Nat \ {0} /\ MaxCrashes \in Nat /\ MaxFaults \in Nat

VARIABLES
    slot,      \* Inner.embedder: the active embedder and its tag
    loader,    \* the start-up task: "loading", "backfill", "ready"
    old,       \* rows there were at the last set_embedder (history)
    rows,      \* tables messages and tool_calls, oldest first
    owner,     \* the run a row belongs to
    keyword,   \* messages with a row in transcript_fts
    output,    \* tool calls whose output column is filled
    stored,    \* table embeddings, by owner_id and model
    run,       \* "off", "running", "ended", "indexed", "aborted"
    record,    \* record_message under way: what was embedded before the lock
    job,       \* backfill_embeddings under way
    skipped,   \* by tag, the rows a backfill of this process failed on (history)
    faults,    \* statements that failed and were passed over
    crashes

vars == <<slot, loader, old, rows, owner, keyword, output, stored, run, record, job, skipped,
          faults, crashes>>
errors == <<skipped, faults>>

IdleJob == [stage |-> "idle", slot |-> [by |-> Hash, tag |-> Hash], kind |-> "message", pending |-> {}]

\* Every variable has its type (rows and vectors of sessions.db, the slot, the jobs).
TypeOK ==
    /\ slot \in Slots
    /\ loader \in {"loading", "backfill", "ready"}
    /\ rows \in Seq(Items) /\ old \in 0..Len(rows)
    /\ owner \in [Items -> Sessions \cup {Nobody}]
    /\ keyword \in SUBSET Messages
    /\ output \in [Tools -> BOOLEAN]
    /\ stored \in [Items -> [Tags -> Vectors \cup {NoVector}]]
    /\ run \in [Sessions -> {"off", "running", "ended", "indexed", "aborted"}]
    /\ record \in [Sessions -> Records \cup {NoRecord}]
    /\ job \in [Jobs -> [stage : {"idle", "queued", "scan", "embed"}, slot : Slots,
                         kind : {"message", "tool"},
                         pending : SUBSET [item : Items, text : {"call", "full"}]]]
    /\ skipped \in [Tags -> SUBSET Items]
    /\ faults \in 0..MaxFaults
    /\ crashes \in 0..MaxCrashes

Init ==
    /\ slot = [by |-> Hash, tag |-> Hash] /\ loader = "loading" /\ old = 0
    /\ rows = << >> /\ owner = [i \in Items |-> Nobody] /\ keyword = {}
    /\ output = [t \in Tools |-> FALSE]
    /\ stored = [i \in Items |-> [g \in Tags |-> NoVector]]
    /\ run = [s \in Sessions |-> "off"]
    /\ record = [s \in Sessions |-> NoRecord]
    /\ job = [j \in Jobs |-> IdleJob]
    /\ skipped = [g \in Tags |-> {}] /\ faults = 0 /\ crashes = 0

\* tool_embed_text: a tool call's text grows when its output is known.
TextOf(i) == IF i \in Tools /\ ~ output[i] THEN "call" ELSE "full"

-----------------------------------------------------------------------------
(* What a run's forwarder records.  record_message is awaited, so the next *)
(* event of the run is handled after it; an aborted forwarder leaves it    *)
(* running on the pool.                                                    *)

StartRun(s) ==
    /\ run[s] = "off"
    /\ run' = [run EXCEPT ![s] = "running"]
    /\ UNCHANGED <<slot, loader, old, rows, owner, keyword, output, stored, record, job, errors, crashes>>

\* record_message, before the lock: take the embedder and its tag, embed.
BeginMessage(s) ==
    /\ run[s] = "running" /\ record[s] = NoRecord
    /\ \E m \in Messages :
         /\ owner[m] = Nobody
         /\ owner' = [owner EXCEPT ![m] = s]
         /\ record' = [record EXCEPT ![s] = [item |-> m, by |-> slot.by, tag |-> slot.tag]]
    /\ UNCHANGED <<slot, loader, old, rows, keyword, output, stored, run, job, errors, crashes>>

\* Mutant: no snapshot of the tag, it is read when the vector is stored.
StoreMessage_TagNow(s) ==
    /\ record[s] # NoRecord
    /\ LET r == record[s] IN
         /\ rows' = Append(rows, r.item)
         /\ keyword' = keyword \cup {r.item}
         /\ stored' = [stored EXCEPT ![r.item][slot.tag] = [by |-> r.by, text |-> "full"]]
    /\ record' = [record EXCEPT ![s] = NoRecord]
    /\ UNCHANGED <<slot, loader, old, owner, output, run, job, errors, crashes>>

\* Mutant: the row is inserted and not indexed.
StoreMessage_Unindexed(s) ==
    /\ record[s] # NoRecord
    /\ LET r == record[s] IN
         /\ rows' = Append(rows, r.item)
         /\ stored' = [stored EXCEPT ![r.item][r.tag] = [by |-> r.by, text |-> "full"]]
    /\ record' = [record EXCEPT ![s] = NoRecord]
    /\ UNCHANGED <<slot, loader, old, owner, keyword, output, run, job, errors, crashes>>

\* record_message, under the lock: append_message and upsert_embedding.
StoreMessage(s) ==
    /\ record[s] # NoRecord
    /\ LET r == record[s] IN
         /\ rows' = Append(rows, r.item)
         /\ keyword' = keyword \cup {r.item}
         /\ stored' = [stored EXCEPT ![r.item][r.tag] = [by |-> r.by, text |-> "full"]]
    /\ record' = [record EXCEPT ![s] = NoRecord]
    /\ UNCHANGED <<slot, loader, old, owner, output, run, job, errors, crashes>>

\* One statement of record_message fails and the error is passed over: there is no row;
\* or a row without a vector, whose keyword entry may be missing too.
StoreFails(s) ==
    /\ record[s] # NoRecord
    /\ faults < MaxFaults /\ faults' = faults + 1
    /\ \/ UNCHANGED <<rows, keyword>>
       \/ /\ rows' = Append(rows, record[s].item)
          /\ keyword' \in {keyword, keyword \cup {record[s].item}}
    /\ record' = [record EXCEPT ![s] = NoRecord]
    /\ UNCHANGED <<slot, loader, old, owner, output, stored, run, job, skipped, crashes>>

\* record_tool_call: a row without a vector.  (If it fails nothing is left of the call.)
CallTool(s) ==
    /\ run[s] = "running" /\ record[s] = NoRecord
    /\ \E t \in Tools :
         /\ owner[t] = Nobody
         /\ owner' = [owner EXCEPT ![t] = s]
         /\ rows' = Append(rows, t)
    /\ UNCHANGED <<slot, loader, old, keyword, output, stored, run, record, job, errors, crashes>>

\* record_tool_result: the output column only; a vector the row has stays.
ToolResult(s) ==
    /\ run[s] = "running" /\ record[s] = NoRecord
    /\ \E t \in Tools :
         /\ owner[t] = s /\ ~ output[t]
         /\ output' = [output EXCEPT ![t] = TRUE]
    /\ UNCHANGED <<slot, loader, old, rows, owner, keyword, stored, run, record, job, errors, crashes>>

\* Mutant: record_message is detached instead of awaited.
EndRun_Detached(s) ==
    /\ run[s] = "running"
    /\ run' = [run EXCEPT ![s] = "ended"]
    /\ job' = [job EXCEPT ![s].stage = "queued"]
    /\ UNCHANGED <<slot, loader, old, rows, owner, keyword, output, stored, record, errors, crashes>>

\* End of the event loop: the run's backfill is handed to the pool.
EndRun(s) ==
    /\ run[s] = "running" /\ record[s] = NoRecord
    /\ run' = [run EXCEPT ![s] = "ended"]
    /\ job' = [job EXCEPT ![s].stage = "queued"]
    /\ UNCHANGED <<slot, loader, old, rows, owner, keyword, output, stored, record, errors, crashes>>

\* The client is gone: the forwarder is aborted and no backfill follows.
HangUp(s) ==
    /\ run[s] = "running"
    /\ run' = [run EXCEPT ![s] = "aborted"]
    /\ UNCHANGED <<slot, loader, old, rows, owner, keyword, output, stored, record, job, errors, crashes>>

-----------------------------------------------------------------------------
(* backfill_embeddings: one snapshot of the embedder, then backfill_kind   *)
(* for messages and for tools, each a scan, an embedding and a store.      *)

\* Mutant: a job waits until the start-up task is through.
Take_WhenReady(j) ==
    /\ job[j].stage = "queued" /\ loader = "ready"
    /\ job' = [job EXCEPT ![j] = [stage |-> "scan", slot |-> slot, kind |-> "message", pending |-> {}]]
    /\ UNCHANGED <<slot, loader, old, rows, owner, keyword, output, stored, run, record, errors, crashes>>

\* backfill_embeddings: the snapshot is one for both kinds.
Take(j) ==
    /\ job[j].stage = "queued"
    /\ job' = [job EXCEPT ![j] = [stage |-> "scan", slot |-> slot, kind |-> "message", pending |-> {}]]
    /\ UNCHANGED <<slot, loader, old, rows, owner, keyword, output, stored, run, record, errors, crashes>>

OfKind(kind) == IF kind = "message" THEN Messages ELSE Tools

\* unembedded_messages, unembedded_tool_calls: oldest first, at most Batch.
Lacking(kind, tag) ==
    {n \in 1..Len(rows) : rows[n] \in OfKind(kind) /\ stored[rows[n]][tag] = NoVector}
Unembedded(kind, tag) ==
    {rows[n] : n \in {k \in Lacking(kind, tag) :
                        Cardinality({l \in Lacking(kind, tag) : l <= k}) <= Batch}}

\* Mutant: file diffs are a third kind no record provides for.
Advance_Diffs(j, kind) ==
    IF kind # "diff"
    THEN /\ job' = [job EXCEPT ![j].stage = "scan", ![j].pending = {},
                              ![j].kind = IF kind = "message" THEN "tool" ELSE "diff"]
         /\ UNCHANGED <<run, loader>>
    ELSE /\ job' = [job EXCEPT ![j] = IdleJob]
         /\ run' = IF j \in Sessions THEN [run EXCEPT ![j] = "indexed"] ELSE run
         /\ loader' = IF j = Core THEN "ready" ELSE loader

\* After one kind comes the next; after the last the job is over.
Advance(j, kind) ==
    IF kind = "message"
    THEN /\ job' = [job EXCEPT ![j].stage = "scan", ![j].kind = "tool", ![j].pending = {}]
         /\ UNCHANGED <<run, loader>>
    ELSE /\ job' = [job EXCEPT ![j] = IdleJob]
         /\ run' = IF j \in Sessions THEN [run EXCEPT ![j] = "indexed"] ELSE run
         /\ loader' = IF j = Core THEN "ready" ELSE loader

\* Phase 1.  Phase 2, the embedding, depends on nothing but what is read here.
Scan(j) ==
    /\ job[j].stage = "scan"
    /\ LET kind == job[j].kind
           todo == Unembedded(kind, job[j].slot.tag) IN
         IF todo = {}
         THEN Advance(j, kind)
         ELSE /\ job' = [job EXCEPT ![j].stage = "embed",
                                    ![j].pending = {[item |-> i, text |-> TextOf(i)] : i \in todo}]
              /\ UNCHANGED <<run, loader>>
    /\ UNCHANGED <<slot, old, rows, owner, keyword, output, stored, record, errors, crashes>>

\* The upserts of a batch, under one lock.
Upserts(j, done) ==
    LET by  == job[j].slot.by
        tag == job[j].slot.tag IN
      stored' = [i \in Items |->
                   [g \in Tags |->
                      IF g = tag /\ \E p \in done : p.item = i
                      THEN [by |-> by, text |-> (CHOOSE p \in done : p.item = i).text]
                      ELSE stored[i][g]]]

\* Phase 3: one upsert per pending item.
StoreBatch(j) ==
    /\ job[j].stage = "embed"
    /\ Upserts(j, job[j].pending)
    /\ Advance(j, job[j].kind)
    /\ UNCHANGED <<slot, old, rows, owner, keyword, output, record, errors, crashes>>

\* A scan that fails is taken for an empty one; an upsert that fails is passed over.
JobFails(j) ==
    /\ faults < MaxFaults /\ faults' = faults + 1
    /\ \/ /\ job[j].stage = "scan"
          /\ skipped' = [skipped EXCEPT ![job[j].slot.tag] = @ \cup Unembedded(job[j].kind, job[j].slot.tag)]
          /\ UNCHANGED stored
       \/ /\ job[j].stage = "embed"
          /\ \E p \in job[j].pending :
               /\ Upserts(j, job[j].pending \ {p})
               /\ skipped' = [skipped EXCEPT ![job[j].slot.tag] = @ \cup {p.item}]
    /\ Advance(j, job[j].kind)
    /\ UNCHANGED <<slot, old, rows, owner, keyword, output, record, crashes>>

-----------------------------------------------------------------------------
(* The start-up task, and the end of the process.                          *)

\* Mutant: the index is not backfilled after the swap.
Load_Unfilled(tag) ==
    /\ loader = "loading" /\ loader' = "ready"
    /\ slot' = [by |-> tag, tag |-> tag]
    /\ old' = Len(rows)
    /\ UNCHANGED <<rows, owner, keyword, output, stored, run, record, job, errors, crashes>>

\* set_embedder; only a neural model is followed by a backfill.
Load(tag) ==
    /\ loader = "loading"
    /\ slot' = [by |-> tag, tag |-> tag]
    /\ old' = Len(rows)
    /\ IF tag = Neural
       THEN loader' = "backfill" /\ job' = [job EXCEPT ![Core].stage = "queued"]
       ELSE loader' = "ready" /\ UNCHANGED job
    /\ UNCHANGED <<rows, owner, keyword, output, stored, run, record, errors, crashes>>

\* The process dies and is started again on the same database.
Restart ==
    /\ crashes < MaxCrashes /\ crashes' = crashes + 1
    /\ slot' = [by |-> Hash, tag |-> Hash] /\ loader' = "loading" /\ old' = Len(rows')
    /\ run' = [s \in Sessions |-> IF run[s] = "off" THEN "off" ELSE "aborted"]
    /\ record' = [s \in Sessions |-> NoRecord]
    /\ job' = [j \in Jobs |-> IdleJob]
    /\ skipped' = [g \in Tags |-> {}] /\ UNCHANGED faults

Crash ==
    /\ UNCHANGED <<rows, owner, keyword, output, stored>>
    /\ Restart

\* The statements of record_message commit one by one: the process may die
\* with the row written and its keyword entry, or its vector, still missing.
CrashInStore(s) ==
    /\ record[s] # NoRecord
    /\ rows' = Append(rows, record[s].item)
    /\ keyword' \in {keyword, keyword \cup {record[s].item}}
    /\ UNCHANGED <<owner, output, stored>>
    /\ Restart

Next ==
    \/ \E s \in Sessions :
         \/ StartRun(s) \/ BeginMessage(s) \/ StoreMessage(s) \/ CallTool(s)
         \/ ToolResult(s) \/ EndRun(s) \/ HangUp(s) \/ StoreFails(s) \/ CrashInStore(s)
    \/ \E j \in Jobs : Take(j) \/ Scan(j) \/ StoreBatch(j) \/ JobFails(j)
    \/ \E tag \in Tags : Load(tag)
    \/ Crash

Spec == Init /\ [][Next]_vars

\* The blocking pool carries on with the runs' backfills; nothing is assumed of the CLI,
\* of the client or of the start-up task and the model's download.
PoolFairness == \A s \in Sessions : WF_vars(Take(s) \/ Scan(s) \/ StoreBatch(s))
FairSpec == Spec /\ PoolFairness

-----------------------------------------------------------------------------
(* A vector stored under a tag was computed by the embedder of that tag,   *)
(* whatever is swapped between the embedding and the upsert: a query is    *)
(* compared with vectors of its own model only (table embeddings, column   *)
(* model).                                                                 *)
NoMixedTags ==
    \A i \in Items, g \in Tags : stored[i][g] # NoVector => stored[i][g].by = g

\* No kind has more rows than one scan takes.
Fits ==
    \A kind \in {"message", "tool"} :
        Cardinality({n \in 1..Len(rows) : rows[n] \in OfKind(kind)}) <= Batch

\* The row has its vector, or a backfill failed on it.
Kept(i, g) == stored[i][g] # NoVector \/ i \in skipped[g]

(* Once a run's backfill is over and the start-up task is through, all the *)
(* run recorded can be found with the active embedder, whichever came      *)
(* first, the swap or the run's end ("freshly captured tool calls and any  *)
(* missed messages"), also what record_message itself failed to embed: as  *)
(* long as no kind has more than Batch rows, and but for the rows a        *)
(* backfill failed on.                                                     *)
RunIsIndexed ==
    Fits => \A s \in Sessions :
        run[s] = "indexed" /\ loader = "ready" =>
            \A n \in 1..Len(rows) : owner[rows[n]] = s => Kept(rows[n], slot.tag)

(* When the start-up task is through with a neural model, every row there  *)
(* was when the model was set has a neural vector ("any transcript         *)
(* recorded before it loaded").  With more than Batch rows of a kind it    *)
(* has not: the rest waits for the backfills of later runs.                *)
LoadedIsIndexed ==
    Fits /\ loader = "ready" /\ slot.tag = Neural =>
        \A n \in 1..old : Kept(rows[n], Neural)

(* A run that ended is indexed, unless the process dies: its job needs     *)
(* nobody else, in particular not the model's download.                    *)
EndedIsIndexed ==
    \A s \in Sessions : run[s] = "ended" ~> run[s] \in {"indexed", "aborted"}

(* A death of the process, or a statement that fails, costs the keyword    *)
(* index at most one message: append_message holds the store's mutex from  *)
(* the INSERT into messages to the one into transcript_fts.  What is lost  *)
(* stays lost, as nothing ever rebuilds transcript_fts.                    *)
Unsearchable == {m \in Messages \ keyword : \E n \in 1..Len(rows) : rows[n] = m}
KeywordLossHasCause == Cardinality(Unsearchable) <= crashes + faults
=============================================================================
