------------------------------- MODULE Lineage -------------------------------
(***************************************************************************)
(* Supersession: which stored memory replaced which.                       *)
(*                                                                         *)
(* A memory that is replaced is tombstoned (superseded_by names its        *)
(* successor, valid_to is stamped) and leaves recall; it stays in the      *)
(* store, and its chain of successors must lead to a memory that recall    *)
(* can still return.  Many actors write such links with no lock between    *)
(* them: request handlers (handoff slots, the write-time dedup gate, sync  *)
(* consolidation), the goroutines a write leaves behind, the async         *)
(* consolidation worker, the enrichment of repaired writes, the periodic   *)
(* dedup pass, the supersession repair that follows it, and callers of     *)
(* supersede and update.                                                   *)
(*                                                                         *)
(* Code: internal/service/{service,handoff,consolidate,repair_enrich,      *)
(* update}.go, internal/maintenance/{dedup,repair,tombstone}.go and the    *)
(* statements of internal/store/sqlitevec/store.go.                        *)
(*                                                                         *)
(* Data abstraction: contents are near-duplicates exactly when they have   *)
(* the same class; scores, retention, word counts and the verdicts of the  *)
(* LLM are choices, and the LLM names a candidate it was shown.  An edit   *)
(* may change the content, not the tier, the slot or the validity.  The    *)
(* promoter and the embedding backfill write rows back as an edit or a     *)
(* merge that changes nothing does.  One namespace, one process.           *)
(***************************************************************************)
EXTENDS Naturals, FiniteSets, Sequences

CONSTANTS
    Ids,              \* memory ids
    Null,             \* "no row", "no id", "nothing to do"
    Classes,          \* classes of near-duplicate contents
    Slots, Fact,      \* handoff slots; Fact: not a handoff
    Writers,          \* concurrent request handlers
    DedupActions,     \* values MEMINI_WRITE_DEDUP_ACTION may take
    Modes,            \* values MEMINI_CONSOLIDATE_MODE may take
    SplitMerge,       \* the dedup gate asks the LLM about close candidates
    QueueCap,         \* capacity of consolidateQueue
    Degrades,         \* a write may miss the embedder and be enriched later
    DedupJob,         \* the periodic dedup pass runs
    LLMMerge,         \* ... and merges the contents of a cluster first
    UserLinks,        \* callers use supersede(id, by)
    MaxOps            \* bound: requests, deletions and crashes

Row == [by : Ids \cup {Null}, closed : BOOLEAN]
Kind == [class : Classes, durable : BOOLEAN, slot : Slots \cup {Fact}]
Request == [pc : {"decided", "over", "stored", "target", "rewrite", "edit"},
            kind : Kind, id : Ids \cup {Null}, old : SUBSET Ids,
            late : BOOLEAN, copy : Row \cup {Null}]
Job == [pc : {"update", "merge", "fold", "supersede", "link"},
        id : Ids, target : Ids, copy : Row]
Fix == [pc : {"read", "target", "rewrite", "searched", "fold"},
        hit : Ids, into : Ids, copy : Row \cup {Null}]
Pass == [pc : {"cluster", "restore"}, merge : SUBSET Ids,
         links : SUBSET (Ids \X Ids), stranded : SUBSET Ids]

ASSUME LineageAssumption ==
    /\ Null \notin Ids \cup Row \cup Kind \cup Request \cup Job \cup Fix \cup Pass
    /\ Fact \notin Slots
    /\ DedupActions \subseteq {"off", "hint", "coalesce", "supersede"}
    /\ Modes \subseteq {"off", "async", "sync"}
    /\ QueueCap \in Nat \ {0}
    /\ MaxOps \in Nat
    /\ {SplitMerge, Degrades, DedupJob, LLMMerge, UserLinks} \subseteq BOOLEAN

VARIABLES
    conf,    \* the settings the process was started with
    row,     \* the memories table: superseded_by and valid_to of each stored id
    kind,    \* what each id holds: class of contents, tier, slot
    age,     \* history: order of the first stores, 0 before
    births,  \* history: ids ever stored
    reopened, \* history: ids an edit has given no successor but an end of validity
    writer,  \* the request each handler is serving
    bg,      \* auto-supersede goroutines not finished: <<old, new>>
    queue,   \* consolidateQueue
    job,     \* the consolidation its worker is busy with
    owed,    \* rows whose enrichment a degraded write has deferred
    fix,     \* the enrichment in progress on each row
    pass,    \* the maintenance pass in progress
    ops      \* requests, deletions and crashes so far

Conf == [action : DedupActions, mode : Modes]

table == <<conf, row, kind, age, births, reopened>>
memory == <<bg, queue, job, owed, fix, pass>>
vars == <<conf, row, kind, age, births, reopened, writer, bg, queue, job, owed, fix, pass,
          ops>>

TypeOK ==
    /\ conf \in Conf
    /\ row \in [Ids -> Row \cup {Null}]
    /\ kind \in [Ids -> Kind \cup {Null}]
    /\ age \in [Ids -> Nat]
    /\ births \in Nat
    /\ reopened \in SUBSET Ids
    /\ writer \in [Writers -> Request \cup {Null}]
    /\ bg \in SUBSET (Ids \X Ids)
    /\ queue \in Seq(Ids)
    /\ job \in Job \cup {Null}
    /\ owed \in SUBSET Ids
    /\ fix \in [Ids -> Fix \cup {Null}]
    /\ pass \in Pass \cup {Null}
    /\ ops \in Nat

Init ==
    /\ conf \in Conf
    /\ row = [i \in Ids |-> Null]
    /\ kind = [i \in Ids |-> Null]
    /\ age = [i \in Ids |-> 0]
    /\ births = 0
    /\ reopened = {}
    /\ writer = [w \in Writers |-> Null]
    /\ bg = {}
    /\ queue = <<>>
    /\ job = Null
    /\ owed = {}
    /\ fix = [i \in Ids |-> Null]
    /\ pass = Null
    /\ ops = 0

----------------------------------------------------------------------------
(* The table and the statements on it. *)

Stored(i) == row[i] # Null
Superseded(i) == Stored(i) /\ row[i].by # Null
Live(i) == Stored(i) /\ row[i].by = Null /\ ~row[i].closed

Fresh == [by |-> Null, closed |-> FALSE]
Upsert(i, r) == row' = [row EXCEPT ![i] = r]

\* superseded_by is overwritten without a look at the row; valid_to is kept or
\* stamped.  No row, no effect (ErrNotFound is ignored by every caller but one).
SetSuperseded(i, n) ==
    row' = IF Stored(i) THEN [row EXCEPT ![i] = [by |-> n, closed |-> TRUE]] ELSE row

\* Mutation of Near: handoffs are not excluded from the candidates.
NearAnything(k) ==
    {i \in Ids : Live(i) /\ kind[i].class = k.class /\ kind[i].durable = k.durable}

\* The live facts a similarity search offers for a memory of kind k (the dedup
\* gate keeps to the tier, consolidation to the durable tiers), and the live
\* handoffs of a slot.
Near(k) ==
    {i \in Ids : /\ Live(i)
                 /\ kind[i].slot = Fact
                 /\ kind[i].class = k.class
                 /\ kind[i].durable = k.durable}
Current(s) == {i \in Ids : Live(i) /\ kind[i].slot = s}

\* A long-term memory goes to the worker unless the queue is full.
Enqueued(q, i, k) ==
    IF conf.mode = "async" /\ k.durable /\ Len(q) < QueueCap THEN Append(q, i) ELSE q

\* Consolidation decides about long-term facts, the dedup gate about the others.
Consolidated(k) == conf.mode # "off" /\ k.durable

----------------------------------------------------------------------------
(* Requests. *)

Begin(w, pc, k, id, old, late, copy) ==
    /\ writer[w] = Null
    /\ writer' = [writer EXCEPT ![w] = [pc |-> pc, kind |-> k, id |-> id, old |-> old,
                                        late |-> late, copy |-> copy]]
    /\ UNCHANGED <<table, memory>>

Lateness == {FALSE, Degrades}

\* A handoff: the live handoffs of its slot will be superseded.  A failed
\* lookup is taken for an empty slot.
WriteHandoff(w) ==
    \E k \in Kind, late \in Lateness :
        /\ k.slot # Fact
        /\ \E old \in {Current(k.slot), {}} : Begin(w, "decided", k, Null, old, late, Null)

\* The dedup gate runs for a fact that has its vector.  What the fact supersedes
\* once it is stored is up to the action; but two close candidates are the LLM's
\* to judge first, under any action.  (A write that is coalesced into an existing
\* memory stores nothing; a failed search supersedes nothing.)
Singletons(S) == {{e} : e \in S}
Gate(k) ==
    {{}} \cup IF conf.action \in {"coalesce", "supersede"} THEN Singletons(Near(k)) ELSE {}
Ambiguous(k) == SplitMerge /\ conf.action # "off" /\ Cardinality(Near(k)) >= 2

Gated(k, late) == ~late /\ ~Consolidated(k) /\ (conf.action = "hint" => k.durable)

WriteFact(w) ==
    \E k \in Kind, late \in Lateness :
        /\ k.slot = Fact
        /\ \E old \in IF ~Gated(k, late) THEN {{}}
                      ELSE Gate(k) \cup (IF Ambiguous(k) THEN Singletons(Near(k)) ELSE {}) :
              Begin(w, "decided", k, Null, old, late, Null)

\* dedupLLMMerge: the LLM has the write rewrite one of the candidates.  `old' is
\* what the gate falls back to.
MergeSplit(w) ==
    \E k \in Kind : \E t \in Near(k), old \in Gate(k) :
        /\ k.slot = Fact
        /\ Gated(k, FALSE)
        /\ Ambiguous(k)
        /\ Begin(w, "target", k, t, old, FALSE, Null)

\* Sync consolidation: the LLM says that the write restates ("target") or
\* contradicts ("over") a stored fact.
ConsolidateSync(w) ==
    /\ conf.mode = "sync"
    /\ \E k \in Kind : \E t \in Near(k), verdict \in {"target", "over"} :
        /\ k.slot = Fact
        /\ k.durable
        /\ Begin(w, verdict, k, t, IF verdict = "over" THEN {t} ELSE {}, FALSE, Null)

\* applyUpdate reads the target after the embedder answered, dedupLLMMerge
\* before; if it is gone the write is stored after all.
ReadTarget(w) ==
    /\ writer[w] # Null
    /\ writer[w].pc = "target"
    /\ writer' = [writer EXCEPT ![w] =
                    IF Stored(writer[w].id)
                    THEN [@ EXCEPT !.pc = "rewrite", !.copy = row[writer[w].id]]
                    ELSE [@ EXCEPT !.pc = "decided"]]
    /\ UNCHANGED <<table, memory>>

\* It is also stored when the embedder fails, or in dedupLLMMerge the store.
FallThrough(w) ==
    /\ writer[w] # Null
    /\ \/ writer[w].pc = "target"
       \/ writer[w].pc = "rewrite" /\ ~Consolidated(writer[w].kind)
    /\ writer' = [writer EXCEPT ![w].pc = "decided"]
    /\ UNCHANGED <<table, memory>>

Answer(w) == writer' = [writer EXCEPT ![w] = Null]

\* The whole row is written back as it was read.
RewriteTarget(w) ==
    /\ writer[w] # Null
    /\ writer[w].pc = "rewrite"
    /\ Upsert(writer[w].id, writer[w].copy)
    /\ Answer(w)
    /\ UNCHANGED <<conf, kind, age, births, reopened, memory>>

FirstStore(i, k) ==
    /\ age[i] = 0
    /\ Upsert(i, Fresh)
    /\ kind' = [kind EXCEPT ![i] = k]
    /\ births' = births + 1
    /\ UNCHANGED <<conf, reopened>>
    /\ age' = [age EXCEPT ![i] = births + 1]

\* Mutation of Store: every write is enqueued for consolidation.
StoreAndConsolidate(w, i) ==
    /\ writer[w] # Null
    /\ writer[w].pc = "decided"
    /\ FirstStore(i, writer[w].kind)
    /\ bg' = bg \cup (writer[w].old \X {i})
    /\ queue' = Enqueued(queue, i, writer[w].kind)
    /\ Answer(w)
    /\ UNCHANGED <<job, owed, fix, pass>>

\* The new memory is stored under a fresh id; then the predecessors are left to
\* goroutines, and the id to the consolidation worker and to the repair queue.
Store(w, i) ==
    /\ writer[w] # Null
    /\ writer[w].pc = "decided"
    /\ FirstStore(i, writer[w].kind)
    /\ bg' = bg \cup (writer[w].old \X {i})
    /\ queue' = IF writer[w].kind.slot = Fact THEN Enqueued(queue, i, writer[w].kind)
                                         ELSE queue
    /\ owed' = IF writer[w].late THEN owed \cup {i} ELSE owed
    /\ Answer(w)
    /\ UNCHANGED <<job, fix, pass>>

\* applySupersede: store, then tombstone the target in the same request.
StoreOver(w, i) ==
    /\ writer[w] # Null
    /\ writer[w].pc = "over"
    /\ FirstStore(i, writer[w].kind)
    /\ writer' = [writer EXCEPT ![w].pc = "stored", ![w].id = i]
    /\ UNCHANGED memory

TombstoneTarget(w) ==
    /\ writer[w] # Null
    /\ writer[w].pc = "stored"
    /\ \E t \in writer[w].old : SetSuperseded(t, writer[w].id)
    /\ Answer(w)
    /\ UNCHANGED <<conf, kind, age, births, reopened, memory>>

\* The tombstone failed: the new memory is deleted again.
Rollback(w) ==
    /\ writer[w] # Null
    /\ writer[w].pc = "stored"
    /\ Upsert(writer[w].id, Null)
    /\ Answer(w)
    /\ UNCHANGED <<conf, kind, age, births, reopened, memory>>

\* A request that fails, at any point, leaves the table as it is.
Fail(w) ==
    /\ writer[w] # Null
    /\ Answer(w)
    /\ UNCHANGED <<table, memory>>

\* update(id): the row is read, edited, embedded and written back whole.  The
\* write carries no superseded_by, and the valid_to that was read; the content
\* may now be near others.
ReadForEdit(w, i) ==
    /\ Stored(i)
    /\ \E late \in Lateness : Begin(w, "edit", kind[i], i, {}, late, row[i])

WriteEdit(w) ==
    /\ writer[w] # Null
    /\ writer[w].pc = "edit"
    /\ Upsert(writer[w].id, [by |-> Null, closed |-> writer[w].copy.closed])
    /\ \E c \in Classes : kind' = [kind EXCEPT ![writer[w].id].class = c]
    /\ reopened' = IF writer[w].copy.closed THEN reopened \cup {writer[w].id} ELSE reopened
    /\ owed' = IF writer[w].late THEN owed \cup {writer[w].id} ELSE owed \ {writer[w].id}
    /\ Answer(w)
    /\ UNCHANGED <<conf, age, births, bg, queue, job, fix, pass>>

\* forget, expiry, cap eviction and tombstone GC delete a row.
Delete(i) ==
    /\ Stored(i)
    /\ Upsert(i, Null)
    /\ owed' = owed \ {i}
    /\ UNCHANGED <<conf, kind, age, births, reopened, writer, bg, queue, job, fix, pass>>

\* supersede(id, by): `by' is any string.
Supersede(i, n) ==
    /\ UserLinks
    /\ Stored(i)
    /\ SetSuperseded(i, n)
    /\ UNCHANGED <<conf, kind, age, births, reopened, writer, memory>>

----------------------------------------------------------------------------
(* The goroutines a write leaves behind. *)

AutoSupersede(e) ==
    /\ e \in bg
    /\ SetSuperseded(e[1], e[2])
    /\ bg' = bg \ {e}
    /\ UNCHANGED <<conf, kind, age, births, reopened, writer, queue, job, owed, fix, pass>>

DropSupersede(e) ==
    /\ e \in bg
    /\ bg' = bg \ {e}
    /\ UNCHANGED <<table, writer, queue, job, owed, fix, pass>>

----------------------------------------------------------------------------
(* The async consolidation worker: one job at a time, in queue order. *)

\* Mutation of TakeJob: a memory replaced since it was enqueued is consolidated.
TakeStaleJob ==
    /\ job = Null
    /\ queue # <<>>
    /\ queue' = Tail(queue)
    /\ LET m == Head(queue) IN
       /\ Stored(m)
       /\ \E t \in Near(kind[m]) \ {m}, verdict \in {"update", "supersede", "link"} :
             job' = [pc |-> verdict, id |-> m, target |-> t, copy |-> row[m]]
    /\ UNCHANGED <<table, writer, bg, owed, fix, pass>>

\* The job reads its memory and the neighbours of it, and asks the LLM.  No
\* neighbour, a failed call, a memory gone or replaced: nothing happens.
TakeJob ==
    /\ job = Null
    /\ queue # <<>>
    /\ queue' = Tail(queue)
    /\ LET m == Head(queue) IN
       \/ job' = Null
       \/ /\ Stored(m)
          /\ row[m].by = Null
          /\ \E t \in Near(kind[m]) \ {m}, verdict \in {"update", "supersede", "link"} :
                job' = [pc |-> verdict, id |-> m, target |-> t, copy |-> row[m]]
    /\ UNCHANGED <<table, writer, bg, owed, fix, pass>>

JobAt(pc) == job # Null /\ job.pc = pc

\* Mutation of ReadMergeTarget: a target that is gone is not noticed.
ReadTargetUnchecked ==
    /\ JobAt("update")
    /\ job' = [job EXCEPT !.pc = "merge", !.copy = row[job.target]]
    /\ UNCHANGED <<table, writer, bg, queue, owed, fix, pass>>

\* asyncUpdate: the target is read after the embedder answered, rewritten whole,
\* and the merged memory is tombstoned onto it.
ReadMergeTarget ==
    /\ JobAt("update")
    /\ job' = IF Stored(job.target)
              THEN [job EXCEPT !.pc = "merge", !.copy = row[job.target]]
              ELSE Null
    /\ UNCHANGED <<table, writer, bg, queue, owed, fix, pass>>

MergeIntoTarget ==
    /\ JobAt("merge")
    /\ Upsert(job.target, job.copy)
    /\ job' = [job EXCEPT !.pc = "fold"]
    /\ UNCHANGED <<conf, kind, age, births, reopened, writer, bg, queue, owed, fix, pass>>

TombstoneMerged ==
    /\ JobAt("fold")
    /\ SetSuperseded(job.id, job.target)
    /\ job' = Null
    /\ UNCHANGED <<conf, kind, age, births, reopened, writer, bg, queue, owed, fix, pass>>

\* asyncSupersede
SupersedeTarget ==
    /\ JobAt("supersede")
    /\ SetSuperseded(job.target, job.id)
    /\ job' = Null
    /\ UNCHANGED <<conf, kind, age, births, reopened, writer, bg, queue, owed, fix, pass>>

\* ActionNew with links: the memory is written back whole as the job read it.
WriteLinks ==
    /\ JobAt("link")
    /\ Upsert(job.id, job.copy)
    /\ job' = Null
    /\ UNCHANGED <<conf, kind, age, births, reopened, writer, bg, queue, owed, fix, pass>>

\* An embedder or store error ends the job where it is.
FailJob ==
    /\ job # Null
    /\ job' = Null
    /\ UNCHANGED <<table, writer, bg, queue, owed, fix, pass>>

----------------------------------------------------------------------------
(* Enrichment of a degraded write, once a repair has given it its vector. *)

ReadForFix(i) ==
    /\ i \in owed
    /\ fix[i] = Null
    /\ owed' = owed \ {i}
    /\ fix' = IF Stored(i) /\ row[i].by = Null
              THEN [fix EXCEPT ![i] = [pc |-> "read", hit |-> i, into |-> i, copy |-> Null]]
              ELSE fix
    /\ UNCHANGED <<table, writer, bg, queue, job, pass>>

\* The nearest neighbour of a memory is itself: it has just got its vector, and
\* the search does not exclude it.
Nearest(i) ==
    IF i \in Near(kind[i]) THEN {i} ELSE Near(kind[i])

FixAt(i, pc) == fix[i] # Null /\ fix[i].pc = pc

Fixed(i) == fix' = [fix EXCEPT ![i] = Null]

\* The dedup gate of a write, for a memory that is stored: here too the LLM is
\* asked about close candidates, which include the memory.
FixMerges(i) ==
    /\ FixAt(i, "read")
    /\ Ambiguous(kind[i])
    /\ \E hit \in Nearest(i), t \in Near(kind[i]) :
          fix' = [fix EXCEPT ![i] = [pc |-> "target", hit |-> hit, into |-> t, copy |-> Null]]
    /\ UNCHANGED <<table, writer, bg, queue, job, owed, pass>>

FixReadsTarget(i) ==
    /\ FixAt(i, "target")
    /\ Stored(fix[i].into)
    /\ fix' = [fix EXCEPT ![i].pc = "rewrite", ![i].copy = row[fix[i].into]]
    /\ UNCHANGED <<table, writer, bg, queue, job, owed, pass>>

FixRewritesTarget(i) ==
    /\ FixAt(i, "rewrite")
    /\ Upsert(fix[i].into, fix[i].copy)
    /\ fix' = [fix EXCEPT ![i] = [@ EXCEPT !.pc = "fold", !.hit = i, !.copy = Null]]
    /\ UNCHANGED <<conf, kind, age, births, reopened, writer, bg, queue, job, owed, pass>>

FixFallsBack(i) ==
    /\ FixAt(i, "target") \/ FixAt(i, "rewrite")
    /\ fix' = [fix EXCEPT ![i] = [@ EXCEPT !.pc = "searched", !.into = i, !.copy = Null]]
    /\ UNCHANGED <<table, writer, bg, queue, job, owed, pass>>

\* repairDedup: fold the memory into its neighbour, or have it replace the
\* neighbour, whichever the dedup action and the two phrasings say.
Deciding(i) == FixAt(i, "read") \/ FixAt(i, "searched")
Hits(i) == IF FixAt(i, "read") THEN Nearest(i) ELSE {fix[i].hit}

FixFolds(i) ==
    /\ Deciding(i)
    /\ conf.action = "coalesce"
    /\ \E hit \in Hits(i) :
              fix' = [fix EXCEPT ![i] = [@ EXCEPT !.pc = "fold", !.hit = i, !.into = hit]]
    /\ UNCHANGED <<table, writer, bg, queue, job, owed, pass>>

FixReplaces(i) ==
    /\ Deciding(i)
    /\ \/ \E hit \in Hits(i) :
             /\ conf.action = "supersede" \/ (conf.action = "coalesce" /\ hit # i)
             /\ bg' = bg \cup {<<hit, i>>}
       \/ /\ FixAt(i, "read")
          /\ Ambiguous(kind[i])
          /\ \E t \in Near(kind[i]) : bg' = bg \cup {<<t, i>>}
    /\ queue' = Enqueued(queue, i, kind[i])
    /\ Fixed(i)
    /\ UNCHANGED <<table, writer, job, owed, pass>>

FixKeeps(i) ==
    /\ Deciding(i)
    /\ conf.action \in {"off", "hint"} \/ Hits(i) = {}
    /\ queue' = Enqueued(queue, i, kind[i])
    /\ Fixed(i)
    /\ UNCHANGED <<table, writer, bg, job, owed, pass>>

TombstoneFolded(i) ==
    /\ FixAt(i, "fold")
    /\ SetSuperseded(i, fix[i].into)
    /\ Fixed(i)
    /\ UNCHANGED <<conf, kind, age, births, reopened, writer, bg, queue, job, owed, pass>>

\* The fold fails: both stay live.
FoldFails(i) ==
    /\ FixAt(i, "fold")
    /\ queue' = Enqueued(queue, i, kind[i])
    /\ Fixed(i)
    /\ UNCHANGED <<table, writer, bg, job, owed, pass>>

----------------------------------------------------------------------------
(* The maintenance pass: dedup, then supersession repair. *)

\* Cluster the live memories (handoffs too) and keep one of each cluster.
StartPass ==
    /\ DedupJob
    /\ pass = Null
    /\ \E keep \in [Classes -> Ids] :
          LET cluster(c) == {i \in Ids : Live(i) /\ kind[i].class = c}
              found == {c \in Classes : Cardinality(cluster(c)) >= 2}
          IN  /\ \A c \in Classes : IF c \in found THEN keep[c] \in cluster(c)
                                                    ELSE keep[c] = CHOOSE i \in Ids : TRUE
              /\ \E merged \in {{}, IF LLMMerge THEN {keep[c] : c \in found} ELSE {}} :
                    pass' = [pc |-> "cluster", merge |-> merged, stranded |-> {},
                             links |-> UNION {(cluster(c) \ {keep[c]}) \X {keep[c]} : c \in found}]
    /\ UNCHANGED <<table, writer, bg, queue, job, owed, fix>>

PassAt(pc) == pass # Null /\ pass.pc = pc

\* mergeCluster rewrites the kept memory whole, as it was when it was listed.
MergeCluster(i) ==
    /\ PassAt("cluster")
    /\ i \in pass.merge
    /\ Upsert(i, Fresh)
    /\ pass' = [pass EXCEPT !.merge = @ \ {i}]
    /\ UNCHANGED <<conf, kind, age, births, reopened, writer, bg, queue, job, owed, fix>>

TombstoneDuplicate(e) ==
    /\ PassAt("cluster")
    /\ e \in pass.links
    /\ e[2] \notin pass.merge
    /\ SetSuperseded(e[1], e[2])
    /\ pass' = [pass EXCEPT !.links = @ \ {e}]
    /\ UNCHANGED <<conf, kind, age, births, reopened, writer, bg, queue, job, owed, fix>>

\* Rows whose chain of successors meets a missing row or never ends: the
\* largest set closed under "is gone or is superseded by a member".
Adrift == UNION {S \in SUBSET Ids : \A i \in S : Stored(i) => row[i].by \in S}
Stranded == {i \in Adrift : Superseded(i)}


ListStranded ==
    /\ PassAt("cluster")
    /\ pass.links = {}
    /\ pass' = [pass EXCEPT !.pc = "restore", !.merge = {}, !.stranded = Stranded]
    /\ UNCHANGED <<table, writer, bg, queue, job, owed, fix>>

Restore(i) ==
    /\ PassAt("restore")
    /\ i \in pass.stranded
    /\ row' = IF Stored(i) THEN [row EXCEPT ![i] = Fresh] ELSE row
    /\ pass' = [pass EXCEPT !.stranded = @ \ {i}]
    /\ UNCHANGED <<conf, kind, age, births, reopened, writer, bg, queue, job, owed, fix>>

EndPass ==
    /\ PassAt("restore")
    /\ pass.stranded = {}
    /\ pass' = Null
    /\ UNCHANGED <<table, writer, bg, queue, job, owed, fix>>

----------------------------------------------------------------------------
\* The process dies: requests, goroutines, the queue and passes are lost; what
\* a degraded write owes is in its row, under a lease that runs out.  It may
\* be restarted with other settings.
Crash ==
    /\ conf' \in Conf
    /\ writer' = [w \in Writers |-> Null]
    /\ bg' = {}
    /\ queue' = <<>>
    /\ job' = Null
    /\ owed' = owed \cup {i \in Ids : fix[i] # Null}
    /\ fix' = [i \in Ids |-> Null]
    /\ pass' = Null
    /\ UNCHANGED <<row, kind, age, births, reopened>>

NewRequest(w) ==
    \/ WriteHandoff(w) \/ WriteFact(w) \/ MergeSplit(w) \/ ConsolidateSync(w)
    \/ \E i \in Ids : ReadForEdit(w, i)

Serve(w) ==
    \/ ReadTarget(w) \/ FallThrough(w) \/ RewriteTarget(w) \/ TombstoneTarget(w)
    \/ Rollback(w) \/ WriteEdit(w) \/ Fail(w)
    \/ \E i \in Ids : Store(w, i) \/ StoreOver(w, i)

Consolidate ==
    \/ TakeJob \/ ReadMergeTarget \/ MergeIntoTarget \/ TombstoneMerged
    \/ SupersedeTarget \/ WriteLinks \/ FailJob

Enrich(i) ==
    \/ ReadForFix(i) \/ FixMerges(i) \/ FixReadsTarget(i) \/ FixRewritesTarget(i)
    \/ FixFallsBack(i) \/ FixFolds(i) \/ FixReplaces(i) \/ FixKeeps(i)
    \/ TombstoneFolded(i) \/ FoldFails(i)

Maintain ==
    \/ StartPass \/ ListStranded \/ EndPass
    \/ \E i \in Ids : MergeCluster(i) \/ Restore(i)
    \/ \E e \in Ids \X Ids : TombstoneDuplicate(e)

Caller ==
    \/ \E i \in Ids : Delete(i)
    \/ \E i, n \in Ids : Supersede(i, n)

Disturb ==
    /\ ops < MaxOps
    /\ ops' = ops + 1
    /\ Caller \/ Crash \/ \E w \in Writers : NewRequest(w)

Proceed ==
    /\ \/ \E w \in Writers : Serve(w)
       \/ \E e \in Ids \X Ids : AutoSupersede(e) \/ DropSupersede(e)
       \/ Consolidate
       \/ \E i \in Ids : Enrich(i)
       \/ Maintain
    /\ UNCHANGED ops

Next == Disturb \/ Proceed

Spec == Init /\ [][Next]_vars

\* Goroutines, workers and tickers run on as long as the process does.
Fairness ==
    /\ WF_vars((\E e \in bg : AutoSupersede(e) \/ DropSupersede(e)) /\ UNCHANGED ops)
    /\ WF_vars(Consolidate /\ UNCHANGED ops)
    /\ \A i \in Ids : WF_vars(Enrich(i) /\ UNCHANGED ops)
    /\ WF_vars(Maintain /\ UNCHANGED ops)
    /\ \A w \in Writers : WF_vars(Serve(w) /\ UNCHANGED ops)

FairSpec == Spec /\ Fairness

----------------------------------------------------------------------------
(* Properties. *)

\* No group of memories replaces itself: every chain of successors leaves any
\* set of stored rows, so it ends at a row that nothing has replaced or that
\* has been deleted.  It is what lets History and reachesLive end, and what
\* autoSupersede means by deferring the tombstone until the replacement exists.
NoCycle ==
    \A S \in SUBSET Ids :
        S # {} => \E i \in S : ~Stored(i) \/ row[i].by \notin S

\* A handoff is replaced only by a later handoff of its own slot, already
\* stored: whatever the races between sessions, the latest prompt of a slot is
\* the current one, and no fact takes its place (handoff.go, priorHandoffIDs).
SlotSuccession ==
    \A i \in Ids :
        (Superseded(i) /\ kind[i].slot # Fact) =>
            /\ age[row[i].by] > age[i]
            /\ kind[row[i].by].slot = kind[i].slot

\* A fact is never replaced by a handoff.
FactsByFacts ==
    \A i \in Ids :
        (Superseded(i) /\ kind[i].slot = Fact) => kind[row[i].by].slot = Fact

\* Once requests, deletions and crashes stop, the maintenance pass leaves no
\* memory stranded: each chain of successors ends at a row nothing has replaced,
\* and recall returns that row ("every cluster keeps a recallable head",
\* maintenance/repair.go) unless an edit of it while it was a tombstone took its
\* successor and left its end of validity, which the pass does not look at.
\* (Nobody edits the validity of a memory here.)
Heads == {i \in Ids : Stored(i) /\ row[i].by = Null}

----------------------------------------------------------------------------
(* The inductive invariant behind the three properties above, when no write  *)
(* degrades, no dedup pass runs and no caller links memories.               *)

Known(i) == kind[i] # Null
DurableFact(i) == Known(i) /\ kind[i].slot = Fact /\ kind[i].durable

\* What an actor holds was stored at some time.
Placed ==
    /\ \A i \in Ids : /\ age[i] <= births
                      /\ Known(i) <=> age[i] > 0
                      /\ Stored(i) => Known(i)
    /\ \A w \in Writers : writer[w] # Null =>
          /\ writer[w].pc \in {"target", "rewrite", "edit", "stored"} =>
                writer[w].id \in Ids /\ Known(writer[w].id)
          /\ writer[w].pc \in {"rewrite", "edit"} => writer[w].copy \in Row
    /\ job # Null => Known(job.id) /\ Known(job.target)
    /\ pass # Null => \A i \in pass.merge : Known(i)

\* Nothing to enrich and no pass.
Settled ==
    /\ owed = {}
    /\ \A i \in Ids : fix[i] = Null
    /\ pass = Null
    /\ \A w \in Writers : writer[w] # Null => writer[w].late = FALSE

\* n may take the place of o.
Proper(o, n) ==
    /\ Known(o) /\ Known(n)
    /\ kind[n].slot = kind[o].slot
    /\ kind[o].slot # Fact => age[n] > age[o]

\* Every link, stored or on its way, is proper.
Succession ==
    /\ \A i \in Ids : Superseded(i) => Proper(i, row[i].by)
    /\ \A e \in bg : Proper(e[1], e[2])
    /\ \A w \in Writers : writer[w] # Null =>
          /\ \A o \in writer[w].old : Known(o) /\ kind[o].slot = writer[w].kind.slot
          /\ writer[w].pc = "stored" => \A o \in writer[w].old : Proper(o, writer[w].id)
          /\ writer[w].pc = "rewrite" /\ writer[w].copy.by # Null =>
                Proper(writer[w].id, writer[w].copy.by)

\* The two memories of a consolidation are long-term facts nothing has replaced,
\* and nothing but the worker links such facts in async mode.
Root(i) == Stored(i) => row[i].by = Null
WorkerAlone ==
    /\ \A w \in Writers : writer[w] # Null /\ conf.mode # "sync" =>
          writer[w].pc \notin {"over", "stored"}
    /\ conf.mode = "async" => \A e \in bg : ~DurableFact(e[1])
    /\ conf.mode = "async" =>
          \A w \in Writers : writer[w] # Null =>
              /\ \A o \in writer[w].old : ~DurableFact(o)
              /\ writer[w].pc \in {"target", "rewrite"} => ~DurableFact(writer[w].id)
    /\ \A n \in 1 .. Len(queue) : conf.mode = "async" /\ DurableFact(queue[n])
    /\ job # Null =>
          /\ conf.mode = "async"
          /\ job.id # job.target
          /\ DurableFact(job.id) /\ DurableFact(job.target)
          /\ Root(job.id) /\ Root(job.target)
          /\ job.copy.by = Null

\* i is replaced by j, or somebody is about to write that it is.
Leads(i, j) ==
    \/ Stored(i) /\ row[i].by = j
    \/ <<i, j>> \in bg
    \/ \E w \in Writers :
          /\ writer[w] # Null
          /\ \/ writer[w].pc = "stored" /\ i \in writer[w].old /\ writer[w].id = j
             \/ writer[w].pc = "rewrite" /\ writer[w].id = i /\ writer[w].copy.by = j

NoPendingCycle ==
    \A S \in SUBSET Ids : S # {} => \E i \in S : \A j \in S : ~Leads(i, j)

LinksInv == Placed /\ Settled /\ Succession /\ WorkerAlone /\ NoPendingCycle

=============================================================================
