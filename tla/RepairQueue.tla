----------------------------- MODULE RepairQueue -----------------------------
(***************************************************************************)
(* The deferred-repair queue of memini.                                    *)
(*                                                                         *)
(* A write that cannot reach the embedder is stored without a vector and   *)
(* carries a repair state on its own row.  Repair workers claim such rows  *)
(* under a lease, embed them, replay the write-time enrichment and clear   *)
(* the state; a sweeper re-arms parked rows and adopts rows that carry     *)
(* only the legacy metadata marker.  Several workers exist because several *)
(* processes may share one store (replicas, `memini mcp`).                 *)
(*                                                                         *)
(* Code: internal/service/repair.go, repair_enrich.go, the write path of   *)
(* service.go (embedForRemember, Remember), the whole-row rewriters        *)
(* (maintenance/reembed.go, service/promote.go), and the store statements  *)
(* of internal/store/sqlitevec/repair.go and store.go (Upsert).            *)
(*                                                                         *)
(* Data abstraction: a text stands for its fingerprint; a vector is the    *)
(* text it was computed from; the instant embed_next_run_at is the flag    *)
(* `due', raised by the passage of time.  Every database statement is one  *)
(* step, and every read that the code uses later is a step of its own.     *)
(***************************************************************************)
EXTENDS Naturals, FiniteSets

CONSTANTS
    Ids,          \* memory ids
    Texts,        \* memory texts, one per fingerprint
    None,         \* "no vector" / "no job"
    Workers,      \* repair workers, one per process sharing the store
    Writers,      \* concurrent request handlers and maintenance passes
    Batch,        \* repairBatch: rows taken by one claim
    MaxAttempts,  \* repairMaxAttempts: the parking ceiling
    Revisit,      \* TRUE: a write may store a text its row has already held
    MaxEdits,     \* bound: writes started
    MaxFaults     \* bound: outages, store errors, crashes and shutdowns

ASSUME QueueAssumption ==
    /\ None \notin Texts
    /\ Batch \in Nat \ {0}
    /\ MaxAttempts \in Nat \ {0}
    /\ Revisit \in BOOLEAN
    /\ MaxEdits \in Nat
    /\ MaxFaults \in Nat

VARIABLES
    row,     \* the memories table: the repair columns, text and vector of each id
    pc,      \* per worker: where in runOneRepair it is
    cur,     \* per worker: the claimed row it is repairing
    batch,   \* per worker: claimed rows not yet started
    turn,    \* per worker: the state its drain loop is claiming
    writer,  \* per writer: the write in flight
    listed,  \* the sweeper: ids found by the legacy-marker scan
    up,      \* the embedder answers
    used,    \* history: the <<id, text>> pairs ever written
    edits,   \* writes started
    faults   \* faults taken

workerVars == <<pc, cur, batch, turn>>
vars == <<row, pc, cur, batch, turn, writer, listed, up, used, edits, faults>>

RepairStates == {"none", "pending", "enrich", "failed"}
Attempts == 0 .. MaxAttempts
RowStatus == {"absent", "live", "superseded"}

NoRow == [st |-> "absent", fp |-> None, vec |-> None, state |-> "none",
          attempts |-> 0, due |-> FALSE, marker |-> FALSE]
Row == [st : RowStatus, fp : Texts \cup {None}, vec : Texts \cup {None},
        state : RepairStates, attempts : Attempts, due : BOOLEAN, marker : BOOLEAN]

\* store.RepairRow: what a claim hands to the worker.
Job == [id : Ids, fp : Texts, state : {"pending", "enrich"}, attempts : Attempts]

ASSUME JobAssumption == None \notin Job

WorkerPc == {"idle", "readvec", "embed", "store", "advance", "readrow", "loadvec",
             "demote", "enrich", "clear", "moot", "failed", "release"}

\* A write in flight: the row it will store, and whether it began as a read of
\* the whole row.
NoWrite == [pc |-> "idle", id |-> None, fp |-> None, vec |-> None, state |-> "none",
            marker |-> FALSE, st |-> "absent", rewrite |-> FALSE]
Write == [pc : {"idle", "vec", "put"}, id : Ids \cup {None}, fp : Texts \cup {None},
          vec : Texts \cup {None}, state : RepairStates, marker : BOOLEAN,
          st : RowStatus, rewrite : BOOLEAN]

TypeOK ==
    /\ row \in [Ids -> Row]
    /\ pc \in [Workers -> WorkerPc]
    /\ cur \in [Workers -> Job \cup {None}]
    /\ batch \in [Workers -> SUBSET Job]
    /\ turn \in [Workers -> {"pending", "enrich"}]
    /\ writer \in [Writers -> Write]
    /\ listed \in SUBSET Ids
    /\ up \in BOOLEAN
    /\ used \in SUBSET (Ids \X Texts)
    /\ edits \in 0 .. MaxEdits
    /\ faults \in 0 .. MaxFaults

Exists(i) == row[i].st # "absent"

(***************************************************************************)
(* A store starts with rows an earlier release left vectorless: they carry *)
(* the metadata marker and no repair state.                                *)
(***************************************************************************)
LegacyRow(t) == [st |-> "live", fp |-> t, vec |-> None, state |-> "none",
                 attempts |-> 0, due |-> TRUE, marker |-> TRUE]

Init ==
    /\ row \in [Ids -> {NoRow} \cup {LegacyRow(t) : t \in Texts}]
    /\ pc = [w \in Workers |-> "idle"]
    /\ cur = [w \in Workers |-> None]
    /\ batch = [w \in Workers |-> {}]
    /\ turn = [w \in Workers |-> "pending"]
    /\ writer = [x \in Writers |-> NoWrite]
    /\ listed = {}
    /\ up = TRUE
    /\ used = {p \in Ids \X Texts : row[p[1]].fp = p[2]}
    /\ edits = 0
    /\ faults = 0

Fault == faults < MaxFaults /\ faults' = faults + 1

(***************************************************************************)
(* Store statements on the repair columns.  Each maps the stored row to    *)
(* the row it becomes.                                                     *)
(***************************************************************************)

\* The optimistic-concurrency guard shared by SetEmbeddingIfUnchanged and
\* SetRepairState: the row is still there and still holds the claimed text.
Unchanged(j) == Exists(j.id) /\ row[j.id].fp = j.fp

\* SetRepairState, and setRepairColumnsTx inside SetEmbeddingIfUnchanged.
InState(r, s) ==
    [r EXCEPT !.state = s, !.attempts = 0, !.due = TRUE,
              !.marker = (s # "none") /\ r.marker]

\* Mutation of WithVector: the vector table write is lost, the state advances.
StateOnly(r, v, s) == InState(r, s)

WithVector(r, v, s) == [InState(r, s) EXCEPT !.vec = v]

\* Mutation of Charge: no ceiling.
ChargeForever(a) == a + 1

\* The attempt charged by a claim.  Only "has the ceiling been reached" is ever
\* read, so the count saturates there.
Charge(a) == IF a < MaxAttempts THEN a + 1 ELSE a

\* Mutation of Parked: a row at its ceiling is dropped from the queue.
GivenUp(r) == InState(r, "none")

\* ParkRepair and FailRepair address the row by id alone.
Parked(r)  == [r EXCEPT !.state = "failed", !.due = FALSE]
Delayed(r) == [r EXCEPT !.due = FALSE]
Released(r) == [r EXCEPT !.due = TRUE]

\* Mutation of Upserted: a vectorless write keeps the vector the row had.
UpsertedOverVector(r, d) ==
    [st |-> d.st, fp |-> d.fp, vec |-> IF d.vec = None THEN r.vec ELSE d.vec,
     state |-> d.state, attempts |-> IF d.state = "none" THEN 0 ELSE r.attempts,
     due |-> TRUE, marker |-> d.marker]

\* Upsert: the whole row is replaced, except the attempt count of a row that
\* still owes a repair; repairDueAt makes an owed repair due at once.
Upserted(r, d) ==
    [st |-> d.st, fp |-> d.fp, vec |-> d.vec, state |-> d.state,
     attempts |-> IF d.state = "none" THEN 0 ELSE r.attempts,
     due |-> TRUE, marker |-> d.marker]

Update(i, r) == row' = [row EXCEPT ![i] = r]

(***************************************************************************)
(* Writers: Remember with an ID (a create, an edit, a metadata-only        *)
(* touch), and the maintenance passes that read a row, embed its text and  *)
(* write the whole row back.                                               *)
(***************************************************************************)

\* Mutation of BeginWrite: the stored vector is reused whatever the new text is.
ReuseForAnyText(x, i, t) ==
    /\ writer[x].pc = "idle"
    /\ edits < MaxEdits
    /\ Revisit \/ <<i, t>> \notin used
    /\ writer' = [writer EXCEPT ![x] =
                    [pc |-> IF Exists(i) THEN "vec" ELSE "put", id |-> i, fp |-> t, vec |-> None,
                     state |-> "none", marker |-> FALSE, st |-> "live", rewrite |-> FALSE]]
    /\ used' = used \cup {<<i, t>>}
    /\ edits' = edits + 1
    /\ UNCHANGED <<row, workerVars, listed, up, faults>>

\* store.Get of the existing row.  A text equal to the stored one goes on to
\* read the stored vector; any other text, one that differs only in case or
\* spacing and so shares the fingerprint included, will be embedded.
BeginWrite(x, i, t) ==
    /\ writer[x].pc = "idle"
    /\ edits < MaxEdits
    /\ Revisit \/ <<i, t>> \notin used
    /\ \E p \in IF row[i].fp = t THEN {"vec", "put"} ELSE {"put"} :
         writer' = [writer EXCEPT ![x] =
                    [pc |-> p, id |-> i, fp |-> t, vec |-> None, state |-> "none",
                     marker |-> FALSE, st |-> "live", rewrite |-> FALSE]]
    /\ used' = used \cup {<<i, t>>}
    /\ edits' = edits + 1
    /\ UNCHANGED <<row, workerVars, listed, up, faults>>

\* reusableVector: a second query, which returns whatever vector the row has now.
ReuseVector(x) ==
    /\ writer[x].pc = "vec"
    /\ writer' = [writer EXCEPT ![x].pc = "put", ![x].vec = row[writer[x].id].vec]
    /\ UNCHANGED <<row, workerVars, listed, up, used, edits, faults>>

\* Reembed, stampPromoted, retierWorkingToEpisodic: the row is read whole.
BeginRewrite(x, i) ==
    /\ writer[x].pc = "idle"
    /\ edits < MaxEdits
    /\ Exists(i)
    /\ writer' = [writer EXCEPT ![x] =
                    [pc |-> "put", id |-> i, fp |-> row[i].fp, vec |-> None,
                     state |-> row[i].state, marker |-> row[i].marker,
                     st |-> row[i].st, rewrite |-> TRUE]]
    /\ edits' = edits + 1
    /\ UNCHANGED <<row, workerVars, listed, up, used, faults>>

\* A vector in hand (reused, or computed by the embedder), and the Upsert.
PutHealthy(x) ==
    LET d == writer[x] IN
    /\ d.pc = "put"
    /\ d.vec # None \/ up
    /\ Update(d.id, Upserted(row[d.id],
                 [d EXCEPT !.vec = IF d.vec = None THEN d.fp ELSE d.vec]))
    /\ writer' = [writer EXCEPT ![x] = NoWrite]
    /\ UNCHANGED <<workerVars, listed, up, used, edits, faults>>

\* embedForRemember ran out of its write budget or met an error: the row is
\* stored vectorless and its debt commits with it.
PutDegraded(x) ==
    LET d == writer[x] IN
    /\ d.pc = "put"
    /\ d.vec = None
    /\ ~ d.rewrite
    /\ Update(d.id, Upserted(row[d.id], [d EXCEPT !.state = "pending", !.marker = TRUE]))
    /\ writer' = [writer EXCEPT ![x] = NoWrite]
    /\ UNCHANGED <<workerVars, listed, up, used, edits, faults>>

\* The embed fails and the write may not degrade, or the Upsert fails.
AbandonWrite(x) ==
    /\ writer[x].pc = "put"
    /\ writer' = [writer EXCEPT ![x] = NoWrite]
    /\ UNCHANGED <<row, workerVars, listed, up, used, edits, faults>>

\* Forget or an expiry purge; a supersession by any other component; Restore.
Delete(i) ==
    /\ Exists(i)
    /\ Update(i, NoRow)
    /\ UNCHANGED <<workerVars, writer, listed, up, used, edits, faults>>

Supersede(i) ==
    /\ row[i].st = "live"
    /\ Update(i, [row[i] EXCEPT !.st = "superseded"])
    /\ UNCHANGED <<workerVars, writer, listed, up, used, edits, faults>>

Restore(i) ==
    /\ row[i].st = "superseded"
    /\ edits < MaxEdits
    /\ Update(i, [row[i] EXCEPT !.st = "live"])
    /\ edits' = edits + 1
    /\ UNCHANGED <<workerVars, writer, listed, up, used, faults>>

(***************************************************************************)
(* The worker loop: drainRepairs and runRepairBatch.                       *)
(***************************************************************************)
Due(s) == {i \in Ids : row[i].state = s /\ row[i].due}

\* Mutation of NextTurn: the drain loop never leaves the state it began with.
SameTurn(s, n) == s

\* After claiming n rows in state s, the drain loop goes on with s while batches
\* come back full, and with the other state after a short one.
NextTurn(s, n) ==
    IF n = Batch THEN s ELSE IF s = "pending" THEN "enrich" ELSE "pending"

\* ClaimRepairs: one statement takes up to Batch due rows, charging an attempt
\* and pushing their next run to the end of the lease. 
Claim(w) ==
    /\ pc[w] = "idle" /\ batch[w] = {}
    /\ \E B \in SUBSET Due(turn[w]) :
        /\ Cardinality(B) <= Batch
        /\ B = Due(turn[w]) \/ Cardinality(B) = Batch
        /\ row' = [i \in Ids |->
                     IF i \in B
                     THEN [row[i] EXCEPT !.attempts = Charge(@), !.due = FALSE]
                     ELSE row[i]]
        /\ batch' = [batch EXCEPT ![w] =
                       {[id |-> i, fp |-> row[i].fp, state |-> turn[w],
                         attempts |-> Charge(row[i].attempts)] : i \in B}]
        /\ turn' = [turn EXCEPT ![w] = NextTurn(@, Cardinality(B))]
    /\ UNCHANGED <<pc, cur, writer, listed, up, used, edits, faults>>

\* dispatchRepair of the next row of the batch.
Dispatch(w) ==
    /\ pc[w] = "idle"
    /\ \E j \in batch[w] :
        /\ cur' = [cur EXCEPT ![w] = j]
        /\ batch' = [batch EXCEPT ![w] = @ \ {j}]
        /\ pc' = [pc EXCEPT ![w] = IF j.state = "pending" THEN "readvec" ELSE "readrow"]
    /\ UNCHANGED <<row, turn, writer, listed, up, used, edits, faults>>

\* A stage leaves the worker at program point p; Finish ends this row's repair.
Goto(w, p) == pc' = [pc EXCEPT ![w] = p] /\ UNCHANGED <<cur, batch, turn>>
Finish(w) ==
    /\ pc' = [pc EXCEPT ![w] = "idle"]
    /\ cur' = [cur EXCEPT ![w] = None]
    /\ UNCHANGED <<batch, turn>>
Others == UNCHANGED <<writer, listed, up, used, edits, faults>>

\* A guarded store write of r for job j: applied and finished, or the row moved
\* and the repair is moot.
Guarded(w, r) ==
    LET j == cur[w] IN
    \/ /\ Unchanged(j)
       /\ Update(j.id, r)
       /\ Finish(w)
    \/ /\ ~ Unchanged(j)
       /\ Goto(w, "moot")
       /\ UNCHANGED row

(***************************************************************************)
(* repairEmbed.                                                            *)
(***************************************************************************)
ReadVec(w) ==
    /\ pc[w] = "readvec"
    /\ Goto(w, CASE ~ Exists(cur[w].id) -> "moot"
                 [] Exists(cur[w].id) /\ row[cur[w].id].vec # None -> "advance"
                 [] OTHER -> "embed")
    /\ UNCHANGED row /\ Others

Embed(w) ==
    /\ pc[w] = "embed"
    /\ Goto(w, IF up THEN "store" ELSE "failed")
    /\ UNCHANGED row /\ Others

SetEmbeddingIfUnchanged(w) ==
    /\ pc[w] = "store"
    /\ Guarded(w, WithVector(row[cur[w].id], cur[w].fp, "enrich"))
    /\ Others

AdvanceToEnrich(w) ==
    /\ pc[w] = "advance"
    /\ Guarded(w, InState(row[cur[w].id], "enrich"))
    /\ Others

(***************************************************************************)
(* repairEnrich.                                                           *)
(***************************************************************************)
ReadRow(w) ==
    /\ pc[w] = "readrow"
    /\ Goto(w, IF row[cur[w].id].st = "live" THEN "loadvec" ELSE "moot")
    /\ UNCHANGED row /\ Others

LoadVec(w) ==
    /\ pc[w] = "loadvec"
    /\ Goto(w, CASE ~ Exists(cur[w].id) -> "moot"
                 [] Exists(cur[w].id) /\ row[cur[w].id].vec = None -> "demote"
                 [] OTHER -> "enrich")
    /\ UNCHANGED row /\ Others

Demote(w) ==
    /\ pc[w] = "demote"
    /\ Guarded(w, InState(row[cur[w].id], "pending"))
    /\ Others

\* repairDedup either folds the memory into the one it restates (SetSuperseded
\* addresses the row by id alone) or leaves it live; corroboration,
\* contradiction and consolidation act on other rows.
Enrich(w) ==
    /\ pc[w] = "enrich"
    /\ Goto(w, "clear")
    /\ \/ UNCHANGED row
       \/ /\ Exists(cur[w].id)
          /\ Update(cur[w].id, [row[cur[w].id] EXCEPT !.st = "superseded"])
    /\ Others

ClearRepair(w) ==
    /\ pc[w] = "clear"
    /\ Guarded(w, InState(row[cur[w].id], "none"))
    /\ Others

(***************************************************************************)
(* Outcomes, recorded by runOneRepair.                                     *)
(***************************************************************************)
\* Mutation of RecordMoot: the state is cleared by id alone.
RecordMootById(w) ==
    LET j == cur[w] IN
    /\ pc[w] = "moot"
    /\ IF Exists(j.id) THEN Update(j.id, InState(row[j.id], "none")) ELSE UNCHANGED row
    /\ Finish(w) /\ Others

RecordMoot(w) ==
    LET j == cur[w] IN
    /\ pc[w] = "moot"
    /\ IF Unchanged(j) THEN Update(j.id, InState(row[j.id], "none")) ELSE UNCHANGED row
    /\ Finish(w) /\ Others

RecordFailure(w) ==
    LET j == cur[w] IN
    /\ pc[w] = "failed"
    /\ IF ~ Exists(j.id) THEN UNCHANGED row
       ELSE Update(j.id, IF j.attempts >= MaxAttempts
                         THEN Parked(row[j.id]) ELSE Delayed(row[j.id]))
    /\ Finish(w) /\ Others

\* The outcome write itself fails and is only logged: the row waits out its lease.
LoseOutcome(w) ==
    /\ pc[w] \in {"moot", "failed"}
    /\ Fault
    /\ Finish(w)
    /\ UNCHANGED <<row, writer, listed, up, used, edits>>

\* Any store call of a stage returns an error, or the repair times out.
StageError(w) ==
    /\ cur[w] # None
    /\ pc[w] \notin {"moot", "failed"}
    /\ Fault
    /\ Goto(w, "failed")
    /\ UNCHANGED <<row, writer, listed, up, used, edits>>

\* A hard kill: claims stay in the table, everything in memory is gone.
Crash(w) ==
    /\ cur[w] # None \/ batch[w] # {}
    /\ Fault
    /\ pc' = [pc EXCEPT ![w] = "idle"]
    /\ cur' = [cur EXCEPT ![w] = None]
    /\ batch' = [batch EXCEPT ![w] = {}]
    /\ turn' = [turn EXCEPT ![w] = "pending"]
    /\ UNCHANGED <<row, writer, listed, up, used, edits>>

\* An orderly shutdown lands between two rows: releaseUnrun returns the rest.
Shutdown(w) ==
    /\ pc[w] = "idle" /\ batch[w] # {}
    /\ Fault
    /\ Goto(w, "release")
    /\ UNCHANGED <<row, writer, listed, up, used, edits>>

ReleaseUnrun(w) ==
    /\ pc[w] = "release"
    /\ \E j \in batch[w] :
        /\ IF Exists(j.id) THEN Update(j.id, Released(row[j.id])) ELSE UNCHANGED row
        /\ batch' = [batch EXCEPT ![w] = @ \ {j}]
        /\ pc' = [pc EXCEPT ![w] = IF batch[w] = {j} THEN "idle" ELSE "release"]
    /\ turn' = [turn EXCEPT ![w] = "pending"]
    /\ UNCHANGED cur /\ Others

(***************************************************************************)
(* The sweeper (SweepRepairs), the clock and the embedder.                 *)
(***************************************************************************)
RearmRepairs ==
    /\ Due("failed") # {}
    /\ row' = [i \in Ids |->
                 IF i \in Due("failed")
                 THEN [row[i] EXCEPT !.state = "pending", !.attempts = 0]
                 ELSE row[i]]
    /\ UNCHANGED <<workerVars, writer, listed, up, used, edits, faults>>

\* adoptUnmarked: the List ...
ListMarked ==
    /\ listed = {}
    /\ listed' = {i \in Ids : row[i].st = "live" /\ row[i].marker}
    /\ listed' # {}
    /\ UNCHANGED <<row, workerVars, writer, up, used, edits, faults>>

\* ... and MarkRepairNeeded, which re-checks only the state.
MarkRepairNeeded ==
    /\ listed # {}
    /\ row' = [i \in Ids |->
                 IF i \in listed /\ Exists(i) /\ row[i].state = "none"
                 THEN [row[i] EXCEPT !.state = "pending", !.attempts = 0, !.due = TRUE]
                 ELSE row[i]]
    /\ listed' = {}
    /\ UNCHANGED <<workerVars, writer, up, used, edits, faults>>

\* The lease, the backoff or the rest period of a row runs out.  A lease may run
\* out under a worker that is still busy; RepairLease says when it cannot.
TimePasses(i) ==
    /\ Exists(i) /\ ~ row[i].due
    /\ Update(i, [row[i] EXCEPT !.due = TRUE])
    /\ UNCHANGED <<workerVars, writer, listed, up, used, edits, faults>>

EmbedderDown ==
    /\ up /\ Fault
    /\ up' = FALSE
    /\ UNCHANGED <<row, workerVars, writer, listed, used, edits>>

EmbedderUp ==
    /\ ~ up
    /\ up' = TRUE
    /\ UNCHANGED <<row, workerVars, writer, listed, used, edits, faults>>

RepairStep(w) ==
    \/ Claim(w) \/ Dispatch(w)
    \/ ReadVec(w) \/ Embed(w) \/ SetEmbeddingIfUnchanged(w) \/ AdvanceToEnrich(w)
    \/ ReadRow(w) \/ LoadVec(w) \/ Demote(w) \/ Enrich(w) \/ ClearRepair(w)
    \/ RecordMoot(w) \/ RecordFailure(w) \/ ReleaseUnrun(w)

WriteStep(x) == ReuseVector(x) \/ PutHealthy(x) \/ PutDegraded(x) \/ AbandonWrite(x)

Next ==
    \/ \E w \in Workers : RepairStep(w)
    \/ \E w \in Workers : LoseOutcome(w) \/ StageError(w) \/ Crash(w) \/ Shutdown(w)
    \/ \E x \in Writers, i \in Ids : BeginRewrite(x, i) \/ \E t \in Texts : BeginWrite(x, i, t)
    \/ \E x \in Writers : WriteStep(x)
    \/ \E i \in Ids : Delete(i) \/ Supersede(i) \/ Restore(i) \/ TimePasses(i)
    \/ RearmRepairs \/ ListMarked \/ MarkRepairNeeded
    \/ EmbedderDown \/ EmbedderUp

Spec == Init /\ [][Next]_vars

(***************************************************************************)
(* What the code schedules: each worker loop keeps running (ticker and     *)
(* drain loop), the sweeper ticks, time passes, an outage ends, and a      *)
(* request handler finishes.  Faults and new writes owe nothing.           *)
(***************************************************************************)
Fairness ==
    /\ \A w \in Workers : WF_vars(RepairStep(w))
    /\ \A x \in Writers : WF_vars(WriteStep(x))
    /\ \A i \in Ids : WF_vars(TimePasses(i))
    /\ WF_vars(RearmRepairs) /\ WF_vars(ListMarked) /\ WF_vars(MarkRepairNeeded)
    /\ WF_vars(EmbedderUp)

FairSpec == Spec /\ Fairness

-----------------------------------------------------------------------------
(***************************************************************************)
(* The promise kept to a reader of the store, see IndexDebt.               *)
(***************************************************************************)
Debt == INSTANCE IndexDebt WITH
    text    <- [i \in Ids |-> row[i].fp],
    indexed <- [i \in Ids |-> row[i].vec # None],
    owed    <- [i \in Ids |-> row[i].state # "none" \/ row[i].marker]

(***************************************************************************)
(* Properties.                                                             *)
(***************************************************************************)

\* A stored vector is always the vector of the text the memory holds, however
\* repairs, edits and rewrites interleave (the purpose of RepairRow.Fingerprint).
VectorMatchesText ==
    \A i \in Ids : row[i].vec \in {None, row[i].fp}

\* No memory is ever vectorless and forgotten: a row without a vector carries a
\* repair state or at least the marker the sweeper looks for.
DebtRecorded ==
    \A i \in Ids : Exists(i) /\ row[i].vec = None =>
                     row[i].state # "none" \/ row[i].marker

\* Seen from outside, a debt is settled only for an indexed memory and an index
\* entry disappears only with its text.
ImplementsIndexDebt == Debt!Spec

\* A row waiting for enrichment has the vector enrichment searches with.
EnrichHasVector ==
    \A i \in Ids : row[i].state = "enrich" => row[i].vec # None

(***************************************************************************)
(* Why the two invariants above are preserved when no write reuses a text  *)
(* (Revisit = FALSE): a text in flight to be stored vectorless is unknown  *)
(* to every row, claim and other write, so once a claim knows that its     *)
(* text has a vector, that stays true for as long as the row holds it.     *)
(***************************************************************************)
Holds(w, j) == j \in batch[w] \/ (cur[w] # None /\ cur[w] = j)

ShapedRow(r) == /\ r.st = "absent" <=> r.fp = None
                /\ r.st = "absent" => r = NoRow

RowShape == \A i \in Ids : ShapedRow(row[i])

EnrichPcs == {"readrow", "loadvec", "demote", "enrich", "clear"}

WorkerShape ==
    \A w \in Workers : /\ cur[w] = None <=> pc[w] \in {"idle", "release"}
                       /\ pc[w] \in EnrichPcs => cur[w].state = "enrich"

WriterShape ==
    \A x \in Writers : writer[x].pc # "idle" =>
        writer[x].id \in Ids /\ writer[x].fp \in Texts /\ writer[x].st # "absent"

Shape == TypeOK /\ RowShape /\ WorkerShape /\ WriterShape

\* A write embeds its text anew, and unless it began as a read of the whole row
\* it arrives with no repair state.
WritesEmbed ==
    \A x \in Writers : writer[x].pc # "idle" =>
        /\ writer[x].pc = "put" /\ writer[x].vec = None
        /\ ~ writer[x].rewrite => writer[x].state = "none" /\ ~ writer[x].marker

TextsUsed ==
    /\ \A i \in Ids : Exists(i) => <<i, row[i].fp>> \in used
    /\ \A x \in Writers : writer[x].pc # "idle" => <<writer[x].id, writer[x].fp>> \in used
    /\ \A w \in Workers, j \in Job : Holds(w, j) => <<j.id, j.fp>> \in used

\* Nobody else knows a text that is about to be stored vectorless.
FreshText(x) ==
    LET i == writer[x].id  t == writer[x].fp IN
    /\ row[i].fp # t
    /\ \A w \in Workers, j \in Job : Holds(w, j) => ~ (j.id = i /\ j.fp = t)
    /\ \A y \in Writers \ {x} :
         writer[y].pc # "idle" => ~ (writer[y].id = i /\ writer[y].fp = t)

WritesFresh ==
    \A x \in Writers : writer[x].pc = "put" /\ ~ writer[x].rewrite => FreshText(x)

HasVector(j) == row[j.id].fp = j.fp => row[j.id].vec # None

JobsHaveVector ==
    \A w \in Workers, j \in Job : Holds(w, j) =>
        /\ j.state = "enrich" => HasVector(j)
        /\ cur[w] = j /\ pc[w] \in {"advance", "moot"} => HasVector(j)

IndInv ==
    /\ Shape
    /\ VectorMatchesText /\ DebtRecorded /\ EnrichHasVector
    /\ WritesEmbed /\ TextsUsed /\ WritesFresh /\ JobsHaveVector

\* Once faults and writes have stopped, every memory gets its vector and every
\* repair state is cleared for good: no row is lost, none cycles forever.
Converges ==
    <>[](\A i \in Ids : /\ row[i].state = "none"
                        /\ row[i].st = "live" => row[i].vec = row[i].fp)
=============================================================================
