-------------------------- MODULE RepairQueueProofs --------------------------
(***************************************************************************)
(* Proofs about RepairQueue for every number of memories, texts, workers   *)
(* and writers, every batch size and every attempt ceiling.                *)
(***************************************************************************)
EXTENDS RepairQueue, TLAPS

(***************************************************************************)
(* The store statements keep a stored row well formed.                     *)
(***************************************************************************)
LEMMA ZeroAttempts == 0 \in Attempts
  BY QueueAssumption DEF Attempts

LEMMA ChargeType == \A a \in Attempts : Charge(a) \in Attempts
  BY QueueAssumption DEF Charge, Attempts

LEMMA NoRowType == NoRow \in Row /\ ShapedRow(NoRow)
  BY ZeroAttempts DEF NoRow, Row, RowStatus, RepairStates, ShapedRow

LEMMA StatementFields ==
    ASSUME NEW r \in Row, NEW s \in RepairStates, NEW v \in Texts \cup {None}
    PROVE  /\ InState(r, s) \in Row
           /\ InState(r, s).st = r.st /\ InState(r, s).fp = r.fp /\ InState(r, s).vec = r.vec
           /\ InState(r, s).state = s
           /\ InState(r, s).marker = (s # "none" /\ r.marker)
           /\ WithVector(r, v, s) \in Row
           /\ WithVector(r, v, s).st = r.st /\ WithVector(r, v, s).fp = r.fp
           /\ WithVector(r, v, s).vec = v /\ WithVector(r, v, s).state = s
<1> DEFINE m == (s # "none") /\ r.marker
<1>1. m \in BOOLEAN
  OBVIOUS
<1>2. InState(r, s) = [r EXCEPT !.state = s, !.attempts = 0, !.due = TRUE, !.marker = m]
  BY DEF InState
<1>3. m = (s # "none" /\ r.marker)
  OBVIOUS
<1> HIDE DEF m
<1>4. InState(r, s) \in Row
  BY <1>1, <1>2, ZeroAttempts DEF Row
<1>5. /\ InState(r, s).st = r.st /\ InState(r, s).fp = r.fp /\ InState(r, s).vec = r.vec
      /\ InState(r, s).state = s /\ InState(r, s).marker = m
  BY <1>1, <1>2, ZeroAttempts DEF Row
<1>6. /\ WithVector(r, v, s) \in Row
      /\ WithVector(r, v, s).st = r.st /\ WithVector(r, v, s).fp = r.fp
      /\ WithVector(r, v, s).vec = v /\ WithVector(r, v, s).state = s
  BY <1>4, <1>5 DEF WithVector, Row
<1> QED
  BY <1>3, <1>4, <1>5, <1>6

LEMMA OutcomeFields ==
    ASSUME NEW r \in Row, NEW q \in {Parked(r), Delayed(r), Released(r)}
    PROVE  /\ q \in Row
           /\ q.st = r.st /\ q.fp = r.fp /\ q.vec = r.vec /\ q.marker = r.marker
           /\ q.state = r.state \/ q.state = "failed"
<1>1. "failed" \in RepairStates
  BY DEF RepairStates
<1>2. CASE q = Parked(r)
  BY <1>1, <1>2 DEF Parked, Row
<1>3. CASE q = Delayed(r)
  BY <1>3 DEF Delayed, Row
<1>4. CASE q = Released(r)
  BY <1>4 DEF Released, Row
<1> QED
  BY <1>2, <1>3, <1>4

LEMMA UpsertFields ==
    ASSUME NEW r \in Row, NEW d \in Write
    PROVE  /\ Upserted(r, d) \in Row
           /\ Upserted(r, d).st = d.st /\ Upserted(r, d).fp = d.fp
           /\ Upserted(r, d).vec = d.vec /\ Upserted(r, d).state = d.state
           /\ Upserted(r, d).marker = d.marker
  BY ZeroAttempts DEF Upserted, Row, Write

\* A row whose status and text are kept stays well formed.
\* The statement that stores a vector, on a row and a vector given once and for all.
LEMMA VectorFields ==
    ASSUME NEW r \in Row, NEW v \in Texts \cup {None}
    PROVE  LET q == WithVector(r, v, "enrich") IN q \in Row /\ q.st = r.st /\ q.fp = r.fp
<1>1. "enrich" \in RepairStates
  BY DEF RepairStates
<1> QED
  BY <1>1, StatementFields

LEMMA KeepsShape ==
    ASSUME NEW r \in Row, NEW q \in Row, ShapedRow(r), r.st # "absent",
           q.st # "absent", q.fp = r.fp
    PROVE  ShapedRow(q)
  BY DEF ShapedRow

LEMMA UpdateShape ==
    ASSUME TypeOK, RowShape, NEW i \in Ids, NEW r \in Row, ShapedRow(r), Update(i, r)
    PROVE  row' \in [Ids -> Row] /\ RowShape'
  BY DEF TypeOK, RowShape, Update

(***************************************************************************)
(* Type correctness.                                                       *)
(***************************************************************************)
LEMMA InitShape == Init => Shape
<1> SUFFICES ASSUME Init PROVE Shape
  OBVIOUS
<1>1. \A t \in Texts : LegacyRow(t) \in Row /\ ShapedRow(LegacyRow(t))
  BY ZeroAttempts, QueueAssumption DEF LegacyRow, Row, RowStatus, RepairStates, ShapedRow
<1>2. row \in [Ids -> Row] /\ RowShape
  BY <1>1, NoRowType DEF Init, RowShape
<1>3. NoWrite \in Write /\ NoWrite.pc = "idle"
  BY DEF NoWrite, Write, RepairStates, RowStatus
<1>4. TypeOK
  BY <1>2, <1>3, QueueAssumption DEF Init, TypeOK, WorkerPc
<1>5. WorkerShape /\ WriterShape
  BY <1>3 DEF Init, WorkerShape, WriterShape, EnrichPcs
<1> QED
  BY <1>2, <1>4, <1>5 DEF Shape

\* What the worker's variables look like after each way of leaving a stage.
WorkerTypes ==
    /\ pc \in [Workers -> WorkerPc]
    /\ cur \in [Workers -> Job \cup {None}]
    /\ batch \in [Workers -> SUBSET Job]
    /\ turn \in [Workers -> {"pending", "enrich"}]

OtherTypes ==
    /\ writer \in [Writers -> Write]
    /\ listed \in SUBSET Ids
    /\ up \in BOOLEAN
    /\ used \in SUBSET (Ids \X Texts)
    /\ edits \in 0 .. MaxEdits
    /\ faults \in 0 .. MaxFaults

LEMMA TypeParts == TypeOK <=> row \in [Ids -> Row] /\ WorkerTypes /\ OtherTypes
  BY DEF TypeOK, WorkerTypes, OtherTypes

LEMMA GotoShape ==
    ASSUME WorkerTypes, WorkerShape, NEW w \in Workers, cur[w] # None,
           NEW p \in WorkerPc \ {"idle", "release"},
           p \in EnrichPcs => cur[w].state = "enrich", Goto(w, p)
    PROVE  WorkerTypes' /\ WorkerShape'
  BY DEF WorkerTypes, WorkerShape, Goto

LEMMA FinishShape ==
    ASSUME WorkerTypes, WorkerShape, NEW w \in Workers, Finish(w)
    PROVE  WorkerTypes' /\ WorkerShape'
  BY DEF WorkerTypes, WorkerShape, Finish, WorkerPc, EnrichPcs

LEMMA OthersShape ==
    ASSUME OtherTypes, WriterShape, Others
    PROVE  OtherTypes' /\ WriterShape'
  BY DEF OtherTypes, WriterShape, Others

LEMMA KeepRow == TypeOK /\ RowShape /\ UNCHANGED row => row' \in [Ids -> Row] /\ RowShape'
  BY DEF TypeOK, RowShape

LEMMA KeepWorkers == WorkerTypes /\ WorkerShape /\ UNCHANGED workerVars => WorkerTypes' /\ WorkerShape'
  BY DEF WorkerTypes, WorkerShape, workerVars

\* A stage's worker has a job in hand.
LEMMA JobInHand ==
    ASSUME TypeOK, WorkerShape, NEW w \in Workers, pc[w] \notin {"idle", "release"}
    PROVE  cur[w] # None /\ cur[w] \in Job /\ cur[w].id \in Ids /\ row[cur[w].id] \in Row
  BY DEF TypeOK, WorkerShape, Job

LEMMA GuardedShape ==
    ASSUME Shape, NEW w \in Workers, pc[w] \notin {"idle", "release"},
           NEW r \in Row, r.st = row[cur[w].id].st, r.fp = row[cur[w].id].fp,
           Guarded(w, r)
    PROVE  row' \in [Ids -> Row] /\ RowShape' /\ WorkerTypes' /\ WorkerShape'
<1> USE TypeParts DEF Shape
<1>1. CASE Unchanged(cur[w]) /\ Update(cur[w].id, r) /\ Finish(w)
  <2>1. ShapedRow(r)
    BY <1>1, JobInHand, KeepsShape DEF Unchanged, Exists, RowShape
  <2> QED
    BY <1>1, <2>1, JobInHand, UpdateShape, FinishShape
<1>2. CASE Goto(w, "moot") /\ UNCHANGED row
  BY <1>2, JobInHand, GotoShape, KeepRow DEF WorkerPc, EnrichPcs
<1> QED
  BY <1>1, <1>2 DEF Guarded

\* The claim: every row it takes keeps its status and text.
LEMMA ClaimShape ==
    ASSUME Shape, NEW w \in Workers, Claim(w)
    PROVE  Shape'
<1> USE DEF Shape
<1>1. PICK B \in SUBSET Due(turn[w]) :
          /\ row' = [i \in Ids |-> IF i \in B
                        THEN [row[i] EXCEPT !.attempts = Charge(@), !.due = FALSE]
                        ELSE row[i]]
          /\ batch' = [batch EXCEPT ![w] =
                       {[id |-> i, fp |-> row[i].fp, state |-> turn[w],
                         attempts |-> Charge(row[i].attempts)] : i \in B}]
          /\ turn' = [turn EXCEPT ![w] = NextTurn(@, Cardinality(B))]
  BY DEF Claim
<1>2. ASSUME NEW i \in Ids
      PROVE  /\ [row[i] EXCEPT !.attempts = Charge(@), !.due = FALSE] \in Row
             /\ i \in B => ShapedRow([row[i] EXCEPT !.attempts = Charge(@), !.due = FALSE])
  <2>1. row[i] \in Row /\ ShapedRow(row[i])
    BY DEF TypeOK, RowShape
  <2>2. DEFINE q == [row[i] EXCEPT !.attempts = Charge(@), !.due = FALSE]
  <2>3. q \in Row /\ q.st = row[i].st /\ q.fp = row[i].fp
    BY <2>1, ChargeType DEF Row
  <2>4. i \in B => row[i].st # "absent"
    BY <2>1 DEF Due, ShapedRow, NoRow, TypeOK
  <2> QED
    BY <2>1, <2>3, <2>4, KeepsShape
<1>3. row' \in [Ids -> Row] /\ RowShape'
  BY <1>1, <1>2 DEF TypeOK, RowShape
<1>4. ASSUME NEW i \in B
      PROVE  [id |-> i, fp |-> row[i].fp, state |-> turn[w],
              attempts |-> Charge(row[i].attempts)] \in Job
  <2>1. i \in Ids /\ row[i] \in Row /\ ShapedRow(row[i]) /\ row[i].state = turn[w]
    BY DEF Due, TypeOK, RowShape
  <2>2. row[i].fp \in Texts
    BY <2>1 DEF ShapedRow, NoRow, Row, TypeOK
  <2>3. Charge(row[i].attempts) \in Attempts
    BY <2>1, ChargeType DEF Row
  <2> QED
    BY <2>1, <2>2, <2>3 DEF Job, TypeOK, Attempts
<1> DEFINE taken == {[id |-> i, fp |-> row[i].fp, state |-> turn[w],
                      attempts |-> Charge(row[i].attempts)] : i \in B}
<1>t. taken \in SUBSET Job
  BY <1>4
<1>b. batch' = [batch EXCEPT ![w] = taken]
  BY <1>1
<1>u. turn' \in [Workers -> {"pending", "enrich"}]
  BY <1>1 DEF TypeOK, NextTurn
<1> HIDE DEF taken
<1>p. UNCHANGED <<pc, cur>>
  BY DEF Claim
<1>5. WorkerTypes' /\ WorkerShape'
  BY <1>t, <1>b, <1>u, <1>p DEF TypeOK, WorkerTypes, WorkerShape
<1>6. OtherTypes' /\ WriterShape'
  BY DEF Claim, TypeOK, OtherTypes, WriterShape
<1> QED
  BY <1>3, <1>5, <1>6, TypeParts DEF TypeOK, WorkerTypes, OtherTypes

LEMMA RepairStepShape ==
    ASSUME Shape, NEW w \in Workers, RepairStep(w)
    PROVE  Shape'
<1> USE TypeParts
<1>0. TypeOK /\ RowShape /\ WorkerShape /\ WriterShape /\ WorkerTypes /\ OtherTypes
  BY DEF Shape
<1> DEFINE MyRowOK == row' \in [Ids -> Row] /\ RowShape'
           MyWorkersOK == WorkerTypes' /\ WorkerShape'
<1>q. ASSUME Others, MyRowOK, MyWorkersOK PROVE Shape'
  BY <1>0, <1>q, OthersShape DEF Shape, TypeOK, WorkerTypes, OtherTypes
<1>1. CASE Claim(w)
  BY <1>1, ClaimShape
<1>2. CASE Dispatch(w)
  <2>1. PICK j \in batch[w] :
          /\ cur' = [cur EXCEPT ![w] = j]
          /\ batch' = [batch EXCEPT ![w] = @ \ {j}]
          /\ pc' = [pc EXCEPT ![w] = IF j.state = "pending" THEN "readvec" ELSE "readrow"]
    BY <1>2 DEF Dispatch
  <2>2. j \in Job /\ j # None
    BY <1>0, JobAssumption DEF TypeOK
  <2>3. MyWorkersOK
    BY <1>0, <1>2, <2>1, <2>2 DEF Dispatch, WorkerTypes, WorkerShape, WorkerPc, EnrichPcs, Job
  <2>4. MyRowOK /\ Others
    BY <1>0, <1>2, KeepRow DEF Dispatch, Others
  <2> QED
    BY <1>q, <2>3, <2>4
<1>3. CASE ReadVec(w)
  BY <1>0, <1>3, <1>q, JobInHand, KeepRow, GotoShape DEF ReadVec, WorkerPc, EnrichPcs
<1>4. CASE Embed(w)
  BY <1>0, <1>4, <1>q, JobInHand, KeepRow, GotoShape DEF Embed, WorkerPc, EnrichPcs
<1>5. CASE SetEmbeddingIfUnchanged(w)
  <2> USE <1>5 DEF SetEmbeddingIfUnchanged
  <2> DEFINE q == WithVector(row[cur[w].id], cur[w].fp, "enrich")
  <2>1. cur[w].fp \in Texts \cup {None} /\ row[cur[w].id] \in Row
    BY <1>0, JobInHand DEF Job
  <2>2. q \in Row /\ q.st = row[cur[w].id].st /\ q.fp = row[cur[w].id].fp
    <3>1. PICK r \in Row : r = row[cur[w].id]
      BY <2>1
    <3>2. PICK v \in Texts \cup {None} : v = cur[w].fp
      BY <2>1
    <3>3. WithVector(r, v, "enrich") \in Row /\ WithVector(r, v, "enrich").st = r.st
          /\ WithVector(r, v, "enrich").fp = r.fp
      BY VectorFields
    <3> QED
      BY ONLY <3>1, <3>2, <3>3
  <2> HIDE DEF q
  <2>3. MyRowOK /\ MyWorkersOK
    BY <2>2, GuardedShape DEF q
  <2> QED
    BY <1>q, <2>3
<1>6. CASE AdvanceToEnrich(w)
  BY <1>0, <1>6, <1>q, JobInHand, StatementFields, GuardedShape DEF AdvanceToEnrich, RepairStates
<1>7. CASE ReadRow(w)
  BY <1>0, <1>7, <1>q, JobInHand, KeepRow, GotoShape DEF ReadRow, WorkerPc, EnrichPcs, WorkerShape
<1>8. CASE LoadVec(w)
  BY <1>0, <1>8, <1>q, JobInHand, KeepRow, GotoShape DEF LoadVec, WorkerPc, EnrichPcs, WorkerShape
<1>9. CASE Demote(w)
  BY <1>0, <1>9, <1>q, JobInHand, StatementFields, GuardedShape DEF Demote, RepairStates
<1>10. CASE Enrich(w)
  <2> USE <1>10 DEF Enrich
  <2>1. row[cur[w].id] \in Row /\ cur[w].id \in Ids /\ cur[w] # None /\ cur[w].state = "enrich"
    BY <1>0, JobInHand DEF WorkerShape, EnrichPcs
  <2>2. MyWorkersOK
    BY <1>0, <2>1, GotoShape DEF WorkerPc
  <2> DEFINE q == [row[cur[w].id] EXCEPT !.st = "superseded"]
  <2>3. q \in Row /\ q.st = "superseded" /\ q.fp = row[cur[w].id].fp
    BY <2>1 DEF Row, RowStatus
  <2>4. Exists(cur[w].id) => ShapedRow(q)
    <3> HIDE DEF q
    <3>1. SUFFICES ASSUME Exists(cur[w].id) PROVE ShapedRow(q)
      OBVIOUS
    <3>2. PICK r \in Row : r = row[cur[w].id]
      BY <2>1
    <3>3. ShapedRow(r) /\ r.st # "absent"
      BY <1>0, <2>1, <3>1, <3>2 DEF Exists, RowShape
    <3>4. q \in Row /\ q.st # "absent" /\ q.fp = r.fp
      BY <2>3, <3>2
    <3> QED
      BY <3>3, <3>4, KeepsShape
  <2>5. MyRowOK
    BY <1>0, <2>1, <2>3, <2>4, KeepRow, UpdateShape
  <2> QED
    BY <1>q, <2>2, <2>5
<1>11. CASE ClearRepair(w)
  BY <1>0, <1>11, <1>q, JobInHand, StatementFields, GuardedShape DEF ClearRepair, RepairStates
<1>12. CASE RecordMoot(w)
  <2> USE <1>12 DEF RecordMoot
  <2>1. row[cur[w].id] \in Row /\ cur[w].id \in Ids
    BY <1>0, JobInHand
  <2>2. MyWorkersOK
    BY <1>0, FinishShape
  <2> DEFINE q == InState(row[cur[w].id], "none")
  <2>3. q \in Row /\ q.st = row[cur[w].id].st /\ q.fp = row[cur[w].id].fp
    BY <2>1, StatementFields DEF RepairStates
  <2>4. Unchanged(cur[w]) => ShapedRow(q)
    BY <1>0, <2>1, <2>3, KeepsShape DEF Unchanged, Exists, RowShape
  <2>5. MyRowOK
    BY <1>0, <2>1, <2>3, <2>4, KeepRow, UpdateShape
  <2> QED
    BY <1>q, <2>2, <2>5
<1>13. CASE RecordFailure(w)
  <2> USE <1>13 DEF RecordFailure
  <2>1. row[cur[w].id] \in Row /\ cur[w].id \in Ids
    BY <1>0, JobInHand
  <2>2. MyWorkersOK
    BY <1>0, FinishShape
  <2>3. ASSUME NEW q \in {Parked(row[cur[w].id]), Delayed(row[cur[w].id])}, Exists(cur[w].id)
        PROVE  q \in Row /\ ShapedRow(q)
    BY <1>0, <2>1, <2>3, OutcomeFields, KeepsShape DEF Exists, RowShape
  <2>4. MyRowOK
    BY <1>0, <2>1, <2>3, KeepRow, UpdateShape
  <2> QED
    BY <1>q, <2>2, <2>4
<1>14. CASE ReleaseUnrun(w)
  <2>1. PICK j \in batch[w] :
          /\ IF Exists(j.id) THEN Update(j.id, Released(row[j.id])) ELSE UNCHANGED row
          /\ batch' = [batch EXCEPT ![w] = @ \ {j}]
          /\ pc' = [pc EXCEPT ![w] = IF batch[w] = {j} THEN "idle" ELSE "release"]
    BY <1>14 DEF ReleaseUnrun
  <2>2. j.id \in Ids /\ row[j.id] \in Row
    BY <1>0 DEF TypeOK, Job
  <2>3. Released(row[j.id]) \in Row /\ (Exists(j.id) => ShapedRow(Released(row[j.id])))
    BY <1>0, <2>2, OutcomeFields, KeepsShape DEF Exists, RowShape
  <2>4. MyRowOK
    BY <1>0, <2>1, <2>2, <2>3, KeepRow, UpdateShape
  <2>5. MyWorkersOK
    BY <1>0, <1>14, <2>1 DEF ReleaseUnrun, WorkerTypes, WorkerShape, WorkerPc, EnrichPcs
  <2> QED
    BY <1>14, <1>q, <2>4, <2>5 DEF ReleaseUnrun
<1> QED
  BY <1>1, <1>2, <1>3, <1>4, <1>5, <1>6, <1>7, <1>8, <1>9, <1>10, <1>11, <1>12, <1>13, <1>14
  DEF RepairStep

LEMMA WriterStepShape ==
    ASSUME Shape, NEW x \in Writers, WriteStep(x)
    PROVE  Shape'
<1> USE TypeParts
<1>0. TypeOK /\ RowShape /\ WorkerShape /\ WriterShape /\ WorkerTypes /\ OtherTypes
  BY DEF Shape
<1>1. NoWrite \in Write /\ NoWrite.pc = "idle"
  BY DEF NoWrite, Write, RepairStates, RowStatus
<1>2. writer[x] \in Write
  BY <1>0 DEF OtherTypes
<1>3. ASSUME writer' = [writer EXCEPT ![x] = NoWrite],
             UNCHANGED <<workerVars, listed, up, used, edits, faults>>,
             row' \in [Ids -> Row], RowShape'
      PROVE  Shape'
  <2>1. WorkerTypes' /\ WorkerShape'
    BY <1>0, <1>3, KeepWorkers
  <2>2. OtherTypes' /\ WriterShape'
    BY <1>0, <1>1, <1>3 DEF OtherTypes, WriterShape
  <2> QED
    BY <1>3, <2>1, <2>2 DEF Shape, TypeOK, WorkerTypes, OtherTypes
<1>4. ASSUME writer[x].pc = "put", NEW d \in Write, d.st = writer[x].st, d.fp = writer[x].fp,
             Update(writer[x].id, Upserted(row[writer[x].id], d))
      PROVE  row' \in [Ids -> Row] /\ RowShape'
  <2>1. writer[x].id \in Ids /\ writer[x].fp \in Texts /\ writer[x].st # "absent"
    BY <1>0, <1>4 DEF WriterShape
  <2>2. row[writer[x].id] \in Row
    BY <1>0, <2>1 DEF TypeOK
  <2> DEFINE q == Upserted(row[writer[x].id], d)
  <2>3. q \in Row /\ q.st = d.st /\ q.fp = d.fp
    BY <2>2, UpsertFields
  <2>4. ShapedRow(q)
    BY <1>4, <2>1, <2>3, QueueAssumption DEF ShapedRow
  <2> QED
    BY <1>0, <1>4, <2>1, <2>3, <2>4, UpdateShape
<1>5. CASE ReuseVector(x)
  <2> DEFINE d == [writer[x] EXCEPT !.pc = "put", !.vec = row[writer[x].id].vec]
  <2>1. writer[x].id \in Ids /\ writer[x].fp \in Texts /\ writer[x].st # "absent"
    BY <1>0, <1>5 DEF WriterShape, ReuseVector
  <2>2. row[writer[x].id].vec \in Texts \cup {None}
    BY <1>0, <2>1 DEF TypeOK, Row
  <2>3. d \in Write /\ d.id = writer[x].id /\ d.fp = writer[x].fp /\ d.st = writer[x].st
    BY <1>2, <2>2 DEF Write
  <2>4. writer' = [writer EXCEPT ![x] = d]
    BY <1>5 DEF ReuseVector
  <2> HIDE DEF d
  <2>5. OtherTypes' /\ WriterShape'
    BY <1>0, <1>5, <2>1, <2>3, <2>4 DEF ReuseVector, OtherTypes, WriterShape
  <2>6. WorkerTypes' /\ WorkerShape' /\ row' \in [Ids -> Row] /\ RowShape'
    BY <1>0, <1>5, KeepWorkers, KeepRow DEF ReuseVector
  <2> QED
    BY <2>5, <2>6 DEF Shape, TypeOK, WorkerTypes, OtherTypes
<1>6. CASE PutHealthy(x)
  <2> USE <1>6 DEF PutHealthy
  <2> DEFINE d == [writer[x] EXCEPT !.vec = IF writer[x].vec = None THEN writer[x].fp ELSE writer[x].vec]
  <2>1. d \in Write /\ d.st = writer[x].st /\ d.fp = writer[x].fp
    BY <1>2 DEF Write
  <2>2. Update(writer[x].id, Upserted(row[writer[x].id], d))
    OBVIOUS
  <2> HIDE DEF d
  <2> QED
    BY <2>1, <2>2, <1>3, <1>4
<1>7. CASE PutDegraded(x)
  <2> USE <1>7 DEF PutDegraded
  <2> DEFINE d == [writer[x] EXCEPT !.state = "pending", !.marker = TRUE]
  <2>1. d \in Write /\ d.st = writer[x].st /\ d.fp = writer[x].fp
    BY <1>2 DEF Write, RepairStates
  <2>2. Update(writer[x].id, Upserted(row[writer[x].id], d))
    OBVIOUS
  <2> HIDE DEF d
  <2> QED
    BY <2>1, <2>2, <1>3, <1>4
<1>8. CASE AbandonWrite(x)
  BY <1>0, <1>8, <1>3, KeepRow DEF AbandonWrite
<1> QED
  BY <1>5, <1>6, <1>7, <1>8 DEF WriteStep

LEMMA FaultStepShape ==
    ASSUME Shape, NEW w \in Workers, LoseOutcome(w) \/ StageError(w) \/ Crash(w) \/ Shutdown(w)
    PROVE  Shape'
<1> USE TypeParts
<1>0. TypeOK /\ RowShape /\ WorkerShape /\ WriterShape /\ WorkerTypes /\ OtherTypes
  BY DEF Shape
<1>1. Fault /\ UNCHANGED <<row, writer, listed, up, used, edits>>
  BY DEF LoseOutcome, StageError, Crash, Shutdown
<1>2. OtherTypes' /\ WriterShape' /\ row' \in [Ids -> Row] /\ RowShape'
  BY <1>0, <1>1, KeepRow, QueueAssumption DEF OtherTypes, WriterShape, Fault
<1>3. WorkerTypes' /\ WorkerShape'
  <2>1. CASE LoseOutcome(w)
    BY <1>0, <2>1, FinishShape DEF LoseOutcome
  <2>2. CASE StageError(w)
    BY <1>0, <2>2, GotoShape DEF StageError, WorkerPc, EnrichPcs
  <2>3. CASE Crash(w)
    BY <1>0, <2>3 DEF Crash, WorkerTypes, WorkerShape, WorkerPc, EnrichPcs
  <2>4. CASE Shutdown(w)
    BY <1>0, <2>4 DEF Shutdown, Goto, WorkerTypes, WorkerShape, WorkerPc, EnrichPcs
  <2> QED
    BY <2>1, <2>2, <2>3, <2>4
<1> QED
  BY <1>2, <1>3 DEF Shape, TypeOK, WorkerTypes, OtherTypes

LEMMA BeginShape ==
    ASSUME Shape, NEW x \in Writers, NEW i \in Ids,
           BeginRewrite(x, i) \/ \E t \in Texts : BeginWrite(x, i, t)
    PROVE  Shape'
<1> USE TypeParts
<1>0. TypeOK /\ RowShape /\ WorkerShape /\ WriterShape /\ WorkerTypes /\ OtherTypes
  BY DEF Shape
<1>1. UNCHANGED <<row, workerVars, listed, up, faults>>
  BY DEF BeginRewrite, BeginWrite
<1>2. WorkerTypes' /\ WorkerShape' /\ row' \in [Ids -> Row] /\ RowShape'
  BY <1>0, <1>1, KeepWorkers, KeepRow
<1>3. OtherTypes' /\ WriterShape'
  <2>1. CASE BeginRewrite(x, i)
    <3> USE <2>1 DEF BeginRewrite
    <3>1. row[i] \in Row /\ ShapedRow(row[i]) /\ row[i].st # "absent"
      BY <1>0 DEF TypeOK, RowShape, Exists
    <3> DEFINE d == [pc |-> "put", id |-> i, fp |-> row[i].fp, vec |-> None,
                     state |-> row[i].state, marker |-> row[i].marker,
                     st |-> row[i].st, rewrite |-> TRUE]
    <3>2. d \in Write /\ d.id \in Ids /\ d.fp \in Texts /\ d.st # "absent"
      BY <3>1 DEF Write, Row, ShapedRow
    <3>3. writer' = [writer EXCEPT ![x] = d]
      OBVIOUS
    <3>4. edits' \in 0 .. MaxEdits /\ used' = used
      BY <1>0, QueueAssumption DEF OtherTypes
    <3> HIDE DEF d
    <3> QED
      BY <1>0, <1>1, <3>2, <3>3, <3>4 DEF OtherTypes, WriterShape
  <2>2. ASSUME NEW t \in Texts, BeginWrite(x, i, t)
        PROVE  OtherTypes' /\ WriterShape'
    <3> USE <2>2 DEF BeginWrite
    <3>1. PICK p \in {"vec", "put"} :
            writer' = [writer EXCEPT ![x] =
                    [pc |-> p, id |-> i, fp |-> t, vec |-> None, state |-> "none",
                     marker |-> FALSE, st |-> "live", rewrite |-> FALSE]]
      OBVIOUS
    <3> DEFINE d == [pc |-> p, id |-> i, fp |-> t, vec |-> None, state |-> "none",
                     marker |-> FALSE, st |-> "live", rewrite |-> FALSE]
    <3>2. d \in Write /\ d.id \in Ids /\ d.fp \in Texts /\ d.st # "absent"
      BY DEF Write, RepairStates, RowStatus
    <3>3. writer' = [writer EXCEPT ![x] = d]
      BY <3>1
    <3>4. edits' \in 0 .. MaxEdits /\ used' \in SUBSET (Ids \X Texts)
      BY <1>0, QueueAssumption DEF OtherTypes
    <3> HIDE DEF d
    <3> QED
      BY <1>0, <1>1, <3>2, <3>3, <3>4 DEF OtherTypes, WriterShape
  <2> QED
    BY <2>1, <2>2
<1> QED
  BY <1>2, <1>3 DEF Shape, TypeOK, WorkerTypes, OtherTypes

\* The remaining steps touch at most the rows (and the sweeper, the embedder).
LEMMA StoreStepShape ==
    ASSUME Shape,
           \/ \E i \in Ids : Delete(i) \/ Supersede(i) \/ Restore(i) \/ TimePasses(i)
           \/ RearmRepairs \/ ListMarked \/ MarkRepairNeeded
           \/ EmbedderDown \/ EmbedderUp
    PROVE  Shape'
<1> USE TypeParts
<1>0. TypeOK /\ RowShape /\ WorkerShape /\ WriterShape /\ WorkerTypes /\ OtherTypes
  BY DEF Shape
<1>1. UNCHANGED <<workerVars, writer, used>>
  BY DEF Delete, Supersede, Restore, TimePasses, RearmRepairs, ListMarked,
         MarkRepairNeeded, EmbedderDown, EmbedderUp
<1>2. WorkerTypes' /\ WorkerShape'
  BY <1>0, <1>1, KeepWorkers
<1>3. OtherTypes' /\ WriterShape'
  <2>1. listed' \in SUBSET Ids /\ up' \in BOOLEAN
    BY <1>0 DEF OtherTypes, Delete, Supersede, Restore, TimePasses, RearmRepairs,
         ListMarked, MarkRepairNeeded, EmbedderDown, EmbedderUp
  <2>2. /\ edits' = edits \/ (edits < MaxEdits /\ edits' = edits + 1)
        /\ faults' = faults \/ (faults < MaxFaults /\ faults' = faults + 1)
    <3>1. ASSUME NEW i \in Ids, Delete(i) \/ Supersede(i) \/ TimePasses(i)
          PROVE  edits' = edits /\ faults' = faults
      BY <3>1 DEF Delete, Supersede, TimePasses
    <3>2. ASSUME NEW i \in Ids, Restore(i)
          PROVE  edits < MaxEdits /\ edits' = edits + 1 /\ faults' = faults
      BY <3>2 DEF Restore
    <3>3. RearmRepairs \/ ListMarked \/ MarkRepairNeeded \/ EmbedderUp => edits' = edits /\ faults' = faults
      BY DEF RearmRepairs, ListMarked, MarkRepairNeeded, EmbedderUp
    <3>4. EmbedderDown => Fault /\ edits' = edits
      BY DEF EmbedderDown
    <3> QED
      BY <3>1, <3>2, <3>3, <3>4 DEF Fault
  <2>3. edits' \in 0 .. MaxEdits /\ faults' \in 0 .. MaxFaults
    BY <1>0, <2>2, QueueAssumption DEF OtherTypes
  <2> QED
    BY <1>0, <1>1, <2>1, <2>3 DEF OtherTypes, WriterShape
<1>4. row' \in [Ids -> Row] /\ RowShape'
  <2>0. \A i \in Ids : row[i] \in Row /\ ShapedRow(row[i])
    BY <1>0 DEF TypeOK, RowShape
  <2>1. ASSUME NEW i \in Ids, Delete(i) PROVE row' \in [Ids -> Row] /\ RowShape'
    BY <1>0, <2>1, NoRowType, UpdateShape DEF Delete
  <2>2. ASSUME NEW i \in Ids, Supersede(i) \/ Restore(i) \/ TimePasses(i)
        PROVE  row' \in [Ids -> Row] /\ RowShape'
    <3>1. row[i] \in Row /\ ShapedRow(row[i]) /\ row[i].st # "absent"
      BY <2>0, <2>2 DEF Supersede, Restore, TimePasses, Exists
    <3>2. PICK s \in {"live", "superseded"} :
            \/ Update(i, [row[i] EXCEPT !.st = s])
            \/ Update(i, [row[i] EXCEPT !.due = TRUE])
      BY <2>2 DEF Supersede, Restore, TimePasses
    <3>3. CASE Update(i, [row[i] EXCEPT !.st = s])
      <4> DEFINE q == [row[i] EXCEPT !.st = s]
      <4>1. q \in Row /\ q.st = s /\ q.fp = row[i].fp
        BY <3>1 DEF Row, RowStatus
      <4>2. ShapedRow(q)
        BY <3>1, <4>1, KeepsShape
      <4> QED
        BY <1>0, <3>3, <4>1, <4>2, UpdateShape
    <3>4. CASE Update(i, [row[i] EXCEPT !.due = TRUE])
      <4> DEFINE q == [row[i] EXCEPT !.due = TRUE]
      <4>1. q \in Row /\ q.st = row[i].st /\ q.fp = row[i].fp
        BY <3>1 DEF Row
      <4>2. ShapedRow(q)
        BY <3>1, <4>1, KeepsShape
      <4> QED
        BY <1>0, <3>4, <4>1, <4>2, UpdateShape
    <3> QED
      BY <3>2, <3>3, <3>4
  <2>3. ASSUME RearmRepairs PROVE row' \in [Ids -> Row] /\ RowShape'
    <3>1. ASSUME NEW i \in Due("failed")
          PROVE  LET q == [row[i] EXCEPT !.state = "pending", !.attempts = 0]
                 IN q \in Row /\ ShapedRow(q)
      <4> DEFINE q == [row[i] EXCEPT !.state = "pending", !.attempts = 0]
      <4>1. i \in Ids /\ row[i] \in Row /\ ShapedRow(row[i]) /\ row[i].state = "failed"
        BY <2>0 DEF Due
      <4>2. row[i].st # "absent"
        BY <4>1 DEF ShapedRow, NoRow
      <4>3. q \in Row /\ q.st = row[i].st /\ q.fp = row[i].fp
        BY <4>1, ZeroAttempts DEF Row, RepairStates
      <4> QED
        BY <4>1, <4>2, <4>3, KeepsShape
    <3>2. ASSUME NEW i \in Ids PROVE row'[i] \in Row /\ ShapedRow(row'[i])
      BY <2>0, <2>3, <3>1 DEF RearmRepairs
    <3>3. row' = [i \in Ids |-> row'[i]]
      BY <2>3 DEF RearmRepairs
    <3> QED
      BY <3>2, <3>3 DEF RowShape
  <2>4. ASSUME MarkRepairNeeded PROVE row' \in [Ids -> Row] /\ RowShape'
    <3>1. ASSUME NEW i \in Ids, Exists(i)
          PROVE  LET q == [row[i] EXCEPT !.state = "pending", !.attempts = 0, !.due = TRUE]
                 IN q \in Row /\ ShapedRow(q)
      <4> DEFINE q == [row[i] EXCEPT !.state = "pending", !.attempts = 0, !.due = TRUE]
      <4>1. q \in Row /\ q.st = row[i].st /\ q.fp = row[i].fp
        BY <2>0, ZeroAttempts DEF Row, RepairStates
      <4> QED
        BY <2>0, <3>1, <4>1, KeepsShape DEF Exists
    <3> QED
      BY <2>0, <2>4, <3>1 DEF MarkRepairNeeded, RowShape
  <2>5. ASSUME ListMarked \/ EmbedderDown \/ EmbedderUp PROVE row' \in [Ids -> Row] /\ RowShape'
    BY <1>0, <2>5, KeepRow DEF ListMarked, EmbedderDown, EmbedderUp
  <2> QED
    BY <2>1, <2>2, <2>3, <2>4, <2>5
<1> QED
  BY <1>2, <1>3, <1>4 DEF Shape, TypeOK, WorkerTypes, OtherTypes

\* Whatever runs, the queue's columns, the claims in memory and the writes in
\* flight stay well formed: a stage always has a row in hand, an absent row owes
\* nothing.
LEMMA ShapeInvariant == Spec => []Shape
<1>1. Init => Shape
  BY InitShape
<1>2. Shape /\ [Next]_vars => Shape'
  <2> SUFFICES ASSUME Shape, [Next]_vars PROVE Shape'
    OBVIOUS
  <2>1. CASE UNCHANGED vars
    BY <2>1 DEF vars, workerVars, Shape, TypeOK, RowShape, WorkerShape, WriterShape
  <2>2. CASE Next
    BY <2>2, RepairStepShape, FaultStepShape, BeginShape, WriterStepShape, StoreStepShape DEF Next
  <2> QED
    BY <2>1, <2>2
<1> QED
  BY <1>1, <1>2, PTL DEF Spec
(***************************************************************************)
(* The debt invariant, when no write stores a text its row already held.   *)
(***************************************************************************)
GoodRow(r) ==
    /\ r.vec \in {None, r.fp}
    /\ r.st # "absent" /\ r.vec = None => r.state # "none" \/ r.marker
    /\ r.state = "enrich" => r.vec # None

LEMMA RowParts == VectorMatchesText /\ DebtRecorded /\ EnrichHasVector
                    <=> \A i \in Ids : GoodRow(row[i])
  BY DEF VectorMatchesText, DebtRecorded, EnrichHasVector, GoodRow, Exists

\* A job in memory names a text, so an absent row never holds it.
LEMMA JobFacts ==
    ASSUME Shape, NEW j \in Job
    PROVE  /\ j.id \in Ids /\ j.fp \in Texts /\ j.fp # None
           /\ row[j.id] \in Row /\ ShapedRow(row[j.id])
           /\ row[j.id].fp = j.fp => Exists(j.id)
  BY QueueAssumption DEF Shape, TypeOK, RowShape, ShapedRow, NoRow, Job, Exists

\* A step that stores no new text, takes no vector away and only claims what the
\* rows say keeps the whole invariant.
LEMMA QuietStep ==
    ASSUME IndInv, Shape', UNCHANGED <<writer, used>>,
           \A i \in Ids : /\ GoodRow(row'[i])
                          /\ row'[i].fp \in {row[i].fp, None}
                          /\ row[i].vec # None => row'[i].vec # None \/ row'[i].fp = None,
           \A v \in Workers, j \in Job : Holds(v, j)' =>
               \/ Holds(v, j)
               \/ row[j.id].fp = j.fp /\ (j.state = "enrich" => row[j.id].vec # None),
           \A v \in Workers, j \in Job : cur'[v] = j /\ pc'[v] \in {"advance", "moot"} =>
               \/ cur[v] = j /\ pc[v] = pc'[v] /\ Holds(v, j)
               \/ HasVector(j)
    PROVE  IndInv'
<1>1. Shape /\ VectorMatchesText /\ DebtRecorded /\ EnrichHasVector
  BY DEF IndInv
<1>2. VectorMatchesText' /\ DebtRecorded' /\ EnrichHasVector'
  BY DEF VectorMatchesText, DebtRecorded, EnrichHasVector, GoodRow, Exists
<1>3. WritesEmbed'
  BY DEF IndInv, WritesEmbed
<1>4. ASSUME NEW j \in Job, HasVector(j) PROVE HasVector(j)'
  BY <1>1, <1>4, JobFacts DEF HasVector
<1>5. JobsHaveVector'
  <2> SUFFICES ASSUME NEW v \in Workers, NEW j \in Job, Holds(v, j)'
               PROVE  /\ j.state = "enrich" => HasVector(j)'
                      /\ cur'[v] = j /\ pc'[v] \in {"advance", "moot"} => HasVector(j)'
    BY DEF JobsHaveVector
  <2>1. j.state = "enrich" => HasVector(j)
    BY DEF IndInv, JobsHaveVector, HasVector
  <2>2. cur'[v] = j /\ pc'[v] \in {"advance", "moot"} => HasVector(j)
    BY DEF IndInv, JobsHaveVector
  <2> QED
    BY <1>4, <2>1, <2>2
<1>6. TextsUsed'
  <2>1. ASSUME NEW i \in Ids, Exists(i)' PROVE <<i, row'[i].fp>> \in used'
    <3>1. ShapedRow(row'[i])
      BY DEF Shape, RowShape
    <3>2. row'[i].fp = row[i].fp /\ row[i].fp # None
      BY <2>1, <3>1 DEF ShapedRow, Exists
    <3>3. Exists(i)
      BY <1>1, <3>2 DEF Shape, RowShape, ShapedRow, Exists
    <3> QED
      BY <3>2, <3>3 DEF IndInv, TextsUsed
  <2>2. ASSUME NEW x \in Writers, writer'[x].pc # "idle"
        PROVE  <<writer'[x].id, writer'[x].fp>> \in used'
    BY <2>2 DEF IndInv, TextsUsed
  <2>3. ASSUME NEW v \in Workers, NEW j \in Job, Holds(v, j)'
        PROVE  <<j.id, j.fp>> \in used'
    <3>1. Holds(v, j) \/ row[j.id].fp = j.fp
      BY <2>3
    <3> QED
      BY <1>1, <3>1, JobFacts DEF IndInv, TextsUsed
  <2> QED
    BY <2>1, <2>2, <2>3 DEF TextsUsed
<1>7. WritesFresh'
  <2> SUFFICES ASSUME NEW x \in Writers, writer[x].pc = "put", ~ writer[x].rewrite
               PROVE  FreshText(x)'
    BY DEF WritesFresh
  <2>1. FreshText(x) /\ writer[x].id \in Ids /\ writer[x].fp \in Texts
    BY <1>1 DEF IndInv, WritesFresh, Shape, WriterShape
  <2>2. row'[writer[x].id].fp # writer[x].fp
    BY <2>1, QueueAssumption DEF FreshText
  <2>3. ASSUME NEW v \in Workers, NEW j \in Job, Holds(v, j)'
        PROVE  ~ (j.id = writer[x].id /\ j.fp = writer[x].fp)
    BY <2>1, <2>3 DEF FreshText
  <2> QED
    BY <2>1, <2>2, <2>3 DEF FreshText
<1> QED
  BY <1>2, <1>3, <1>5, <1>6, <1>7 DEF IndInv
LEMMA GotoInd ==
    ASSUME IndInv, Shape', NEW w \in Workers, cur[w] # None, NEW p, Goto(w, p),
           UNCHANGED <<row, writer, used>>,
           p \in {"advance", "moot"} => HasVector(cur[w])
    PROVE  IndInv'
<1>1. Shape /\ \A i \in Ids : GoodRow(row[i])
  BY RowParts DEF IndInv
<1>2. \A v \in Workers, j \in Job : Holds(v, j)' => Holds(v, j)
  BY DEF Goto, Holds
<1>3. ASSUME NEW v \in Workers, NEW j \in Job, cur'[v] = j, pc'[v] \in {"advance", "moot"}
      PROVE  (cur[v] = j /\ pc[v] = pc'[v] /\ Holds(v, j)) \/ HasVector(j)
  BY <1>1, <1>3, JobAssumption DEF Goto, Holds, Shape, TypeOK
<1> QED
  BY <1>1, <1>2, <1>3, QuietStep

\* The end of a row's repair, with whatever it does to the rows.
LEMMA FinishInd ==
    ASSUME IndInv, Shape', NEW w \in Workers, Finish(w), UNCHANGED <<writer, used>>,
           \A i \in Ids : /\ GoodRow(row'[i]) /\ row'[i].fp = row[i].fp
                          /\ row[i].vec # None => row'[i].vec # None
    PROVE  IndInv'
<1>1. Shape
  BY DEF IndInv
<1>2. \A v \in Workers, j \in Job : Holds(v, j)' => Holds(v, j)
  BY <1>1 DEF Finish, Holds, Shape, TypeOK
<1>3. ASSUME NEW v \in Workers, NEW j \in Job, cur'[v] = j, pc'[v] \in {"advance", "moot"}
      PROVE  cur[v] = j /\ pc[v] = pc'[v] /\ Holds(v, j)
  BY <1>1, <1>3, JobAssumption DEF Finish, Holds, Shape, TypeOK
<1> QED
  BY <1>2, <1>3, QuietStep

\* One row rewritten, all others kept.
LEMMA OneRow ==
    ASSUME Shape, \A i \in Ids : GoodRow(row[i]),
           NEW k \in Ids, NEW r \in Row, Update(k, r), GoodRow(r),
           r.fp = row[k].fp, row[k].vec # None => r.vec # None
    PROVE  \A i \in Ids : /\ GoodRow(row'[i]) /\ row'[i].fp = row[i].fp
                          /\ row[i].vec # None => row'[i].vec # None
  BY DEF Shape, TypeOK, Update

LEMMA GuardedInd ==
    ASSUME IndInv, Shape', NEW w \in Workers, pc[w] \notin {"idle", "release"},
           NEW r \in Row, Guarded(w, r), Others, r.fp = row[cur[w].id].fp,
           Unchanged(cur[w]) => GoodRow(r) /\ (row[cur[w].id].vec # None => r.vec # None)
    PROVE  IndInv'
<1>1. Shape /\ (\A i \in Ids : GoodRow(row[i]))
  BY RowParts DEF IndInv
<1>2. cur[w] # None /\ cur[w] \in Job /\ cur[w].id \in Ids /\ row[cur[w].id] \in Row
  BY <1>1, JobInHand DEF Shape
<1>3. UNCHANGED <<writer, used>>
  BY DEF Others
<1>4. CASE Unchanged(cur[w]) /\ Update(cur[w].id, r) /\ Finish(w)
  BY <1>1, <1>2, <1>3, <1>4, OneRow, FinishInd
<1>5. CASE ~ Unchanged(cur[w]) /\ Goto(w, "moot") /\ UNCHANGED row
  <2>1. HasVector(cur[w])
    BY <1>1, <1>2, <1>5, JobFacts DEF HasVector, Unchanged
  <2> QED
    BY <1>2, <1>3, <1>5, <2>1, GotoInd
<1> QED
  BY <1>4, <1>5 DEF Guarded

\* Clearing the state of a row is sound once its text is known to have a vector.
LEMMA GoodStates ==
    ASSUME NEW r \in Row, GoodRow(r), NEW s \in RepairStates,
           s \in {"none", "enrich"} => r.vec # None
    PROVE  GoodRow(InState(r, s))
  BY StatementFields DEF GoodRow, RepairStates

LEMMA ClaimInd ==
    ASSUME IndInv, Shape', NEW w \in Workers, Claim(w)
    PROVE  IndInv'
<1>1. Shape /\ \A i \in Ids : GoodRow(row[i])
  BY RowParts DEF IndInv
<1>2. PICK B \in SUBSET Due(turn[w]) :
          /\ row' = [i \in Ids |-> IF i \in B
                        THEN [row[i] EXCEPT !.attempts = Charge(@), !.due = FALSE]
                        ELSE row[i]]
          /\ batch' = [batch EXCEPT ![w] =
                       {[id |-> i, fp |-> row[i].fp, state |-> turn[w],
                         attempts |-> Charge(row[i].attempts)] : i \in B}]
  BY DEF Claim
<1>3. UNCHANGED <<pc, cur, writer, used>>
  BY DEF Claim
<1>4. ASSUME NEW i \in Ids
      PROVE  /\ GoodRow(row'[i]) /\ row'[i].fp = row[i].fp
             /\ row[i].vec # None => row'[i].vec # None
  <2> DEFINE q == [row[i] EXCEPT !.attempts = Charge(@), !.due = FALSE]
  <2>1. row[i] \in Row /\ GoodRow(row[i])
    BY <1>1 DEF Shape, TypeOK
  <2>2. q.st = row[i].st /\ q.fp = row[i].fp /\ q.vec = row[i].vec
        /\ q.state = row[i].state /\ q.marker = row[i].marker
    BY <2>1 DEF Row
  <2>3. row'[i] = q \/ row'[i] = row[i]
    BY <1>2
  <2> HIDE DEF q
  <2> QED
    BY <2>1, <2>2, <2>3 DEF GoodRow
<1>5. ASSUME NEW v \in Workers, NEW j \in Job, Holds(v, j)'
      PROVE  \/ Holds(v, j)
             \/ row[j.id].fp = j.fp /\ (j.state = "enrich" => row[j.id].vec # None)
  <2>1. CASE Holds(v, j)
    BY <2>1
  <2>2. CASE ~ Holds(v, j)
    <3>1. v = w /\ j \in batch'[w]
      BY <1>1, <1>2, <1>3, <1>5, <2>2 DEF Holds, Shape, TypeOK
    <3>2. PICK i \in B : j = [id |-> i, fp |-> row[i].fp, state |-> turn[w],
                              attempts |-> Charge(row[i].attempts)]
      BY <1>1, <1>2, <3>1 DEF Shape, TypeOK
    <3>3. i \in Ids /\ row[i].state = turn[w] /\ GoodRow(row[i])
      BY <1>1 DEF Due
    <3> QED
      BY <3>2, <3>3 DEF GoodRow
  <2> QED
    BY <2>1, <2>2
<1>6. \A v \in Workers, j \in Job : cur'[v] = j => cur[v] = j /\ pc[v] = pc'[v] /\ Holds(v, j)
  BY <1>3, JobAssumption DEF Holds
<1> QED
  BY <1>3, <1>4, <1>5, <1>6, QuietStep
LEMMA RepairStepInd ==
    ASSUME IndInv, NEW w \in Workers, RepairStep(w)
    PROVE  IndInv'
<1>1. Shape /\ TypeOK /\ WorkerShape /\ \A i \in Ids : GoodRow(row[i])
  BY RowParts DEF IndInv, Shape
<1>2. Shape'
  BY <1>1, RepairStepShape
<1>3. Others => UNCHANGED <<writer, used>>
  BY DEF Others
<1> DEFINE j == cur[w]
           r == row[cur[w].id]
<1>4. ASSUME pc[w] \notin {"idle", "release"}
      PROVE  /\ j # None /\ j \in Job /\ j.id \in Ids /\ r \in Row /\ GoodRow(r)
             /\ Holds(w, j)
             /\ r.fp = j.fp => Exists(j.id)
             /\ Unchanged(j) <=> r.fp = j.fp
             /\ ~ Exists(j.id) => HasVector(j)
             /\ pc[w] \in EnrichPcs \cup {"advance", "moot"} => HasVector(j)
  BY <1>1, <1>4, JobInHand, JobFacts
     DEF Holds, Unchanged, HasVector, IndInv, JobsHaveVector, WorkerShape, EnrichPcs
<1>5. CASE Claim(w)
  BY <1>2, <1>5, ClaimInd
<1>6. CASE Dispatch(w)
  <2>1. PICK k \in batch[w] :
          /\ cur' = [cur EXCEPT ![w] = k]
          /\ batch' = [batch EXCEPT ![w] = @ \ {k}]
          /\ pc' = [pc EXCEPT ![w] = IF k.state = "pending" THEN "readvec" ELSE "readrow"]
    BY <1>6 DEF Dispatch
  <2>2. UNCHANGED <<row, writer, used>>
    BY <1>6 DEF Dispatch
  <2>3. \A v \in Workers, m \in Job : Holds(v, m)' => Holds(v, m)
    BY <1>1, <2>1 DEF Holds, TypeOK
  <2>4. \A v \in Workers, m \in Job : cur'[v] = m /\ pc'[v] \in {"advance", "moot"} =>
           cur[v] = m /\ pc[v] = pc'[v] /\ Holds(v, m)
    BY <1>1, <2>1, JobAssumption DEF Holds, TypeOK
  <2> QED
    BY <1>1, <1>2, <2>2, <2>3, <2>4, QuietStep
<1>7. CASE ReadVec(w)
  <2> USE <1>7 DEF ReadVec
  <2>1. r.vec # None => HasVector(j)
    BY DEF HasVector
  <2> QED
    BY <1>2, <1>3, <1>4, <2>1, GotoInd
<1>8. CASE Embed(w)
  BY <1>2, <1>3, <1>4, <1>8, GotoInd DEF Embed
<1>9. CASE SetEmbeddingIfUnchanged(w)
  <2> USE <1>9 DEF SetEmbeddingIfUnchanged
  <2> DEFINE q == WithVector(r, j.fp, "enrich")
  <2>1. j.fp \in Texts /\ j.fp # None /\ "enrich" \in RepairStates
    BY <1>1, <1>4, JobFacts DEF RepairStates
  <2>2. q \in Row /\ q.fp = r.fp /\ q.vec = j.fp /\ q.state = "enrich"
    BY <1>4, <2>1, StatementFields
  <2> HIDE DEF q
  <2>3. Unchanged(j) => GoodRow(q) /\ q.vec # None
    BY <1>4, <2>1, <2>2 DEF GoodRow
  <2> QED
    BY <1>2, <1>4, <2>2, <2>3, GuardedInd DEF q
<1>10. ASSUME pc[w] \notin {"idle", "release"}, Others, NEW s \in RepairStates,
              Guarded(w, InState(r, s)), s \in {"none", "enrich"} => HasVector(j)
       PROVE  IndInv'
  <2> DEFINE q == InState(r, s)
  <2>1. q \in Row /\ q.fp = r.fp /\ q.vec = r.vec
    BY <1>4, <1>10, StatementFields
  <2>2. Unchanged(j) => GoodRow(q)
    BY <1>4, <1>10, GoodStates DEF HasVector
  <2> QED
    BY <1>2, <1>4, <1>10, <2>1, <2>2, GuardedInd
<1>11. CASE AdvanceToEnrich(w)
  BY <1>4, <1>10, <1>11 DEF AdvanceToEnrich, RepairStates
<1>12. CASE ReadRow(w)
  BY <1>2, <1>3, <1>4, <1>12, GotoInd DEF ReadRow, EnrichPcs
<1>13. CASE LoadVec(w)
  BY <1>2, <1>3, <1>4, <1>13, GotoInd DEF LoadVec, EnrichPcs
<1>14. CASE Demote(w)
  BY <1>4, <1>10, <1>14 DEF Demote, RepairStates
<1>15. CASE Enrich(w)
  <2> USE <1>15 DEF Enrich
  <2>1. CASE UNCHANGED row
    BY <1>2, <1>3, <1>4, <2>1, GotoInd
  <2>2. CASE Exists(j.id) /\ Update(j.id, [r EXCEPT !.st = "superseded"])
    <3> DEFINE q == [r EXCEPT !.st = "superseded"]
    <3>1. q \in Row /\ q.fp = r.fp /\ q.vec = r.vec /\ q.state = r.state /\ q.marker = r.marker
      BY <1>4 DEF Row, RowStatus
    <3>2. GoodRow(q)
      BY <1>4, <2>2, <3>1 DEF GoodRow, Exists
    <3>3. \A i \in Ids : /\ GoodRow(row'[i]) /\ row'[i].fp = row[i].fp
                         /\ row[i].vec # None => row'[i].vec # None
      BY <1>1, <1>4, <2>2, <3>1, <3>2, OneRow
    <3>4. pc' = [pc EXCEPT ![w] = "clear"] /\ UNCHANGED <<cur, batch>>
      BY DEF Goto
    <3>5. \A v \in Workers, m \in Job : Holds(v, m)' => Holds(v, m)
      BY <3>4 DEF Holds
    <3>6. \A v \in Workers, m \in Job : cur'[v] = m /\ pc'[v] \in {"advance", "moot"} =>
             cur[v] = m /\ pc[v] = pc'[v] /\ Holds(v, m)
      BY <1>1, <3>4, JobAssumption DEF Holds, TypeOK
    <3> QED
      BY <1>2, <1>3, <3>3, <3>5, <3>6, QuietStep
  <2> QED
    BY <2>1, <2>2
<1>16. CASE ClearRepair(w)
  BY <1>4, <1>10, <1>16 DEF ClearRepair, RepairStates, EnrichPcs
<1>17. CASE RecordMoot(w)
  <2> USE <1>17 DEF RecordMoot
  <2>1. CASE Unchanged(j)
    <3> DEFINE q == InState(r, "none")
    <3>1. q \in Row /\ q.fp = r.fp /\ q.vec = r.vec
      BY <1>4, StatementFields DEF RepairStates
    <3>2. GoodRow(q)
      BY <1>4, <2>1, GoodStates DEF HasVector, RepairStates
    <3>3. Update(j.id, q)
      BY <2>1
    <3> HIDE DEF q
    <3> QED
      BY <1>1, <1>2, <1>3, <1>4, <3>1, <3>2, <3>3, OneRow, FinishInd
  <2>2. CASE ~ Unchanged(j)
    BY <1>1, <1>2, <1>3, <2>2, FinishInd
  <2> QED
    BY <2>1, <2>2
<1>18. CASE RecordFailure(w)
  <2> USE <1>18 DEF RecordFailure
  <2>1. CASE ~ Exists(j.id)
    BY <1>1, <1>2, <1>3, <2>1, FinishInd
  <2>2. CASE Exists(j.id)
    <3>1. PICK q \in {Parked(r), Delayed(r)} : Update(j.id, q)
      BY <2>2
    <3>2. q \in Row /\ q.st = r.st /\ q.fp = r.fp /\ q.vec = r.vec /\ q.marker = r.marker
          /\ (q.state = r.state \/ q.state = "failed")
      BY <1>4, <3>1, OutcomeFields
    <3>3. GoodRow(q)
      BY <1>4, <3>2 DEF GoodRow
    <3> QED
      BY <1>1, <1>2, <1>3, <1>4, <3>1, <3>2, <3>3, OneRow, FinishInd
  <2> QED
    BY <2>1, <2>2
<1>19. CASE ReleaseUnrun(w)
  <2>1. PICK k \in batch[w] :
          /\ IF Exists(k.id) THEN Update(k.id, Released(row[k.id])) ELSE UNCHANGED row
          /\ batch' = [batch EXCEPT ![w] = @ \ {k}]
          /\ pc' = [pc EXCEPT ![w] = IF batch[w] = {k} THEN "idle" ELSE "release"]
    BY <1>19 DEF ReleaseUnrun
  <2>2. UNCHANGED <<cur, writer, used>>
    BY <1>19 DEF ReleaseUnrun, Others
  <2>3. k.id \in Ids /\ row[k.id] \in Row
    BY <1>1 DEF TypeOK, Job
  <2>4. \A i \in Ids : /\ GoodRow(row'[i]) /\ row'[i].fp = row[i].fp
                       /\ row[i].vec # None => row'[i].vec # None
    <3> DEFINE q == Released(row[k.id])
    <3>1. /\ q \in Row /\ q.st = row[k.id].st /\ q.fp = row[k.id].fp
          /\ q.vec = row[k.id].vec /\ q.marker = row[k.id].marker
          /\ q.state = row[k.id].state \/ q.state = "failed"
      BY <2>3, OutcomeFields
    <3>2. GoodRow(q)
      BY <1>1, <2>3, <3>1 DEF GoodRow
    <3> HIDE DEF q
    <3>3. CASE Update(k.id, q)
      BY <1>1, <2>3, <3>1, <3>2, <3>3, OneRow
    <3>4. CASE UNCHANGED row
      BY <1>1, <3>4
    <3> QED
      BY <2>1, <3>3, <3>4 DEF q
  <2>5. \A v \in Workers, m \in Job : Holds(v, m)' => Holds(v, m)
    BY <1>1, <2>1, <2>2 DEF Holds, TypeOK
  <2>6. \A v \in Workers, m \in Job : cur'[v] = m /\ pc'[v] \in {"advance", "moot"} =>
           cur[v] = m /\ pc[v] = pc'[v] /\ Holds(v, m)
    BY <1>1, <2>1, <2>2, JobAssumption DEF Holds, TypeOK
  <2> QED
    BY <1>2, <2>2, <2>4, <2>5, <2>6, QuietStep
<1> QED
  BY <1>5, <1>6, <1>7, <1>8, <1>9, <1>11, <1>12, <1>13, <1>14, <1>15, <1>16, <1>17, <1>18, <1>19
  DEF RepairStep
LEMMA FaultStepInd ==
    ASSUME IndInv, NEW w \in Workers,
           LoseOutcome(w) \/ StageError(w) \/ Crash(w) \/ Shutdown(w)
    PROVE  IndInv'
<1>1. Shape /\ TypeOK /\ \A i \in Ids : GoodRow(row[i])
  BY RowParts DEF IndInv, Shape
<1>2. Shape'
  BY <1>1, FaultStepShape
<1>3. UNCHANGED <<row, writer>>
  BY DEF LoseOutcome, StageError, Crash, Shutdown
<1>4. UNCHANGED used
  BY DEF LoseOutcome, StageError, Crash, Shutdown
<1>5. \A v \in Workers, m \in Job : Holds(v, m)' => Holds(v, m)
  <2>1. CASE LoseOutcome(w) \/ Crash(w)
    BY <1>1, <2>1 DEF LoseOutcome, Crash, Finish, Holds, TypeOK
  <2>2. CASE StageError(w) \/ Shutdown(w)
    BY <2>2 DEF StageError, Shutdown, Goto, Holds
  <2> QED
    BY <2>1, <2>2
<1>6. \A v \in Workers, m \in Job : cur'[v] = m /\ pc'[v] \in {"advance", "moot"} =>
         cur[v] = m /\ pc[v] = pc'[v] /\ Holds(v, m)
  <2>1. CASE LoseOutcome(w) \/ Crash(w)
    BY <1>1, <2>1, JobAssumption DEF LoseOutcome, Crash, Finish, Holds, TypeOK
  <2>2. CASE StageError(w) \/ Shutdown(w)
    BY <1>1, <2>2, JobAssumption DEF StageError, Shutdown, Goto, Holds, TypeOK
  <2> QED
    BY <2>1, <2>2
<1> QED
  BY <1>1, <1>2, <1>3, <1>4, <1>5, <1>6, QuietStep

LEMMA StoreStepInd ==
    ASSUME IndInv,
           \/ \E i \in Ids : Delete(i) \/ Supersede(i) \/ Restore(i) \/ TimePasses(i)
           \/ RearmRepairs \/ ListMarked \/ MarkRepairNeeded
           \/ EmbedderDown \/ EmbedderUp
    PROVE  IndInv'
<1>1. Shape /\ TypeOK /\ \A i \in Ids : GoodRow(row[i]) /\ row[i] \in Row
  BY RowParts DEF IndInv, Shape, TypeOK
<1>2. Shape'
  BY <1>1, StoreStepShape
<1>3. UNCHANGED <<workerVars, writer, used>>
  BY DEF Delete, Supersede, Restore, TimePasses, RearmRepairs, ListMarked,
         MarkRepairNeeded, EmbedderDown, EmbedderUp
\* Every row is deleted, or keeps its text and vector and owes at least as much.
<1>4. ASSUME NEW i \in Ids
      PROVE  \/ row'[i] = NoRow
             \/ /\ row'[i].fp = row[i].fp /\ row'[i].vec = row[i].vec
                /\ row'[i].marker = row[i].marker
                /\ row'[i].state = row[i].state \/ row'[i].state = "pending"
                /\ row[i].st = "absent" => row'[i].st = "absent"
  <2>0. row \in [Ids -> Row]
    BY <1>1 DEF TypeOK
  <2>1. ASSUME NEW k \in Ids, Delete(k) PROVE row'[i] \in {row[i], NoRow}
    BY <2>0, <2>1 DEF Update, Delete
  <2>2. ASSUME NEW k \in Ids, Supersede(k)
        PROVE  row'[i] \in {row[i], [row[k] EXCEPT !.st = "superseded"]} /\ row[k].st # "absent"
               /\ (row'[i] = row[i] \/ i = k)
    BY <2>0, <2>2 DEF Update, Supersede
  <2>3. ASSUME NEW k \in Ids, Restore(k)
        PROVE  row'[i] \in {row[i], [row[k] EXCEPT !.st = "live"]} /\ row[k].st # "absent"
               /\ (row'[i] = row[i] \/ i = k)
    BY <2>0, <2>3 DEF Update, Restore
  <2>4. ASSUME NEW k \in Ids, TimePasses(k)
        PROVE  row'[i] \in {row[i], [row[k] EXCEPT !.due = TRUE]} /\ row[k].st # "absent"
               /\ (row'[i] = row[i] \/ i = k)
    BY <2>0, <2>4 DEF Update, TimePasses, Exists
  <2>5. ASSUME RearmRepairs
        PROVE  row'[i] \in {row[i], [row[i] EXCEPT !.state = "pending", !.attempts = 0]}
    BY <2>0, <2>5 DEF Update, RearmRepairs
  <2>6. ASSUME MarkRepairNeeded
        PROVE  row'[i] \in {row[i], [row[i] EXCEPT !.state = "pending", !.attempts = 0, !.due = TRUE]}
    BY <2>0, <2>6 DEF Update, MarkRepairNeeded
  <2>7. ListMarked \/ EmbedderDown \/ EmbedderUp => row'[i] = row[i]
    BY DEF ListMarked, EmbedderDown, EmbedderUp
  <2> DEFINE kept(r, q) == q.fp = r.fp /\ q.vec = r.vec /\ q.marker = r.marker
                           /\ (q.state = r.state \/ q.state = "pending")
                           /\ (r.st = "absent" => q.st = "absent")
  <2>8. ASSUME NEW r \in Row, r.st # "absent"
        PROVE  /\ kept(r, [r EXCEPT !.st = "superseded"]) /\ kept(r, [r EXCEPT !.st = "live"])
               /\ kept(r, [r EXCEPT !.due = TRUE])
    BY <2>8 DEF Row
  <2>9. ASSUME NEW r \in Row
        PROVE  /\ kept(r, r) /\ kept(r, [r EXCEPT !.state = "pending", !.attempts = 0])
               /\ kept(r, [r EXCEPT !.state = "pending", !.attempts = 0, !.due = TRUE])
    BY DEF Row
  <2> HIDE DEF kept
  <2>10. \A k \in Ids : row[k] \in Row
    BY <2>0
  <2>11. row'[i] = NoRow \/ kept(row[i], row'[i])
    <3>1. ASSUME NEW k \in Ids, Delete(k) \/ Supersede(k) \/ Restore(k) \/ TimePasses(k)
          PROVE  row'[i] = NoRow \/ kept(row[i], row'[i])
      <4>1. CASE Delete(k)
        BY <2>1, <2>9, <2>10, <4>1
      <4>2. CASE Supersede(k)
        <5>1. row'[i] = row[i] \/ (row[i].st # "absent" /\ row'[i] = [row[i] EXCEPT !.st = "superseded"])
          BY <2>2, <4>2
        <5> QED
          BY <2>8, <2>9, <2>10, <5>1
      <4>3. CASE Restore(k)
        <5>1. row'[i] = row[i] \/ (row[i].st # "absent" /\ row'[i] = [row[i] EXCEPT !.st = "live"])
          BY <2>3, <4>3
        <5> QED
          BY <2>8, <2>9, <2>10, <5>1
      <4>4. CASE TimePasses(k)
        <5>1. row'[i] = row[i] \/ (row[i].st # "absent" /\ row'[i] = [row[i] EXCEPT !.due = TRUE])
          BY <2>4, <4>4
        <5> QED
          BY <2>8, <2>9, <2>10, <5>1
      <4> QED
        BY <3>1, <4>1, <4>2, <4>3, <4>4
    <3>2. CASE RearmRepairs
      BY <2>5, <2>9, <2>10, <3>2
    <3>3. CASE MarkRepairNeeded
      BY <2>6, <2>9, <2>10, <3>3
    <3>4. CASE ListMarked \/ EmbedderDown \/ EmbedderUp
      BY <2>7, <2>9, <2>10, <3>4
    <3> QED
      BY <3>1, <3>2, <3>3, <3>4
  <2> QED
    BY <2>11 DEF kept
<1>5. \A i \in Ids : /\ GoodRow(row'[i])
                     /\ row'[i].fp \in {row[i].fp, None}
                     /\ row[i].vec # None => row'[i].vec # None \/ row'[i].fp = None
  <2> TAKE i \in Ids
  <2>1. CASE row'[i] = NoRow
    BY <2>1 DEF GoodRow, NoRow
  <2>2. CASE row'[i] # NoRow
    BY <1>1, <1>4, <2>2 DEF GoodRow
  <2> QED
    BY <2>1, <2>2
<1>6. UNCHANGED <<pc, cur, batch>>
  BY <1>3 DEF workerVars
<1>7. \A v \in Workers, m \in Job : Holds(v, m)' => Holds(v, m)
  BY <1>6 DEF Holds
<1>8. \A v \in Workers, m \in Job : cur'[v] = m /\ pc'[v] \in {"advance", "moot"} =>
         cur[v] = m /\ pc[v] = pc'[v] /\ Holds(v, m)
  BY <1>6, JobAssumption DEF Holds
<1> QED
  BY <1>2, <1>3, <1>5, <1>7, <1>8, QuietStep
\* A write in flight lands: its text was its own if it lands vectorless.
LEMMA PutInd ==
    ASSUME IndInv, Shape', NEW x \in Writers, writer[x].pc = "put",
           writer' = [writer EXCEPT ![x] = NoWrite], UNCHANGED <<workerVars, used>>,
           NEW q \in Row, Update(writer[x].id, q), q.fp = writer[x].fp, GoodRow(q),
           q.vec # None \/ ~ writer[x].rewrite
    PROVE  IndInv'
<1> DEFINE k == writer[x].id
           t == writer[x].fp
<1>1. Shape /\ TypeOK /\ (\A i \in Ids : GoodRow(row[i])) /\ k \in Ids /\ t \in Texts
  BY RowParts DEF IndInv, Shape, WriterShape
<1>2. /\ UNCHANGED <<pc, cur, batch>>
      /\ \A i \in Ids : row'[i] = IF i = k THEN q ELSE row[i]
      /\ \A y \in Writers : writer'[y] = IF y = x THEN NoWrite ELSE writer[y]
  BY <1>1 DEF workerVars, Update, TypeOK
<1>3. NoWrite.pc = "idle"
  BY DEF NoWrite
<1>4. ~ writer[x].rewrite => FreshText(x)
  BY DEF IndInv, WritesFresh
<1>5. VectorMatchesText' /\ DebtRecorded' /\ EnrichHasVector'
  BY <1>1, <1>2 DEF VectorMatchesText, DebtRecorded, EnrichHasVector, GoodRow, Exists
<1>6. WritesEmbed'
  BY <1>2, <1>3 DEF IndInv, WritesEmbed
<1>7. TextsUsed'
  <2>1. \A v \in Workers, j \in Job : Holds(v, j)' <=> Holds(v, j)
    BY <1>2 DEF Holds
  <2> QED
    BY <1>2, <1>3, <2>1 DEF IndInv, TextsUsed, Exists
<1>8. WritesFresh'
  <2> SUFFICES ASSUME NEW y \in Writers, y # x, writer[y].pc = "put", ~ writer[y].rewrite
               PROVE  FreshText(y)'
    BY <1>2, <1>3 DEF WritesFresh
  <2>1. FreshText(y) /\ writer'[y] = writer[y] /\ writer[y].id \in Ids
    BY <1>1, <1>2 DEF IndInv, WritesFresh, Shape, WriterShape
  <2>2. row'[writer[y].id].fp # writer[y].fp
    BY <1>2, <2>1 DEF FreshText
  <2>3. \A v \in Workers, j \in Job : Holds(v, j)' <=> Holds(v, j)
    BY <1>2 DEF Holds
  <2> QED
    BY <1>2, <1>3, <2>1, <2>2, <2>3 DEF FreshText
<1>9. JobsHaveVector'
  <2>1. \A v \in Workers, j \in Job : Holds(v, j)' <=> Holds(v, j)
    BY <1>2 DEF Holds
  <2>2. ASSUME NEW v \in Workers, NEW j \in Job, Holds(v, j), HasVector(j)
        PROVE  HasVector(j)'
    <3>1. j.id \in Ids
      BY DEF Job
    <3> QED
      BY <1>2, <1>4, <2>2, <3>1 DEF HasVector, FreshText
  <2> QED
    BY <1>2, <2>1, <2>2 DEF IndInv, JobsHaveVector
<1> QED
  BY <1>5, <1>6, <1>7, <1>8, <1>9 DEF IndInv

LEMMA WriterStepInd ==
    ASSUME IndInv, NEW x \in Writers, WriteStep(x)
    PROVE  IndInv'
<1>1. Shape /\ TypeOK /\ \A i \in Ids : GoodRow(row[i])
  BY RowParts DEF IndInv, Shape
<1>2. Shape'
  BY <1>1, WriterStepShape
<1>3. ASSUME writer[x].pc = "put"
      PROVE  /\ writer[x].vec = None /\ writer[x].id \in Ids /\ writer[x].fp \in Texts
             /\ writer[x].fp # None /\ writer[x] \in Write /\ row[writer[x].id] \in Row
  BY <1>1, <1>3, QueueAssumption DEF IndInv, WritesEmbed, Shape, WriterShape, TypeOK
<1>4. ~ ReuseVector(x)
  BY DEF ReuseVector, IndInv, WritesEmbed
<1>5. CASE PutHealthy(x)
  <2> USE <1>5 DEF PutHealthy
  <2> DEFINE d == [writer[x] EXCEPT !.vec = IF writer[x].vec = None THEN writer[x].fp ELSE writer[x].vec]
             q == Upserted(row[writer[x].id], d)
  <2>1. d \in Write /\ d.fp = writer[x].fp /\ d.vec = d.fp
    BY <1>3 DEF Write
  <2>2. q \in Row /\ q.fp = writer[x].fp /\ q.vec = writer[x].fp
    BY <1>3, <2>1, UpsertFields
  <2>3. GoodRow(q)
    BY <1>3, <2>2 DEF GoodRow
  <2>4. Update(writer[x].id, q)
    OBVIOUS
  <2> HIDE DEF q
  <2> QED
    BY <1>2, <1>3, <2>2, <2>3, <2>4, PutInd
<1>6. CASE PutDegraded(x)
  <2> USE <1>6 DEF PutDegraded
  <2> DEFINE d == [writer[x] EXCEPT !.state = "pending", !.marker = TRUE]
             q == Upserted(row[writer[x].id], d)
  <2>1. d \in Write /\ d.fp = writer[x].fp /\ d.vec = None /\ d.state = "pending"
    BY <1>3 DEF Write, RepairStates
  <2>2. q \in Row /\ q.fp = writer[x].fp /\ q.vec = None /\ q.state = "pending"
    BY <1>3, <2>1, UpsertFields
  <2>3. GoodRow(q)
    BY <2>2 DEF GoodRow
  <2>4. Update(writer[x].id, q)
    OBVIOUS
  <2> HIDE DEF q
  <2> QED
    BY <1>2, <2>2, <2>3, <2>4, PutInd
\* An abandoned write leaves its text marked as used.
<1>7. CASE AbandonWrite(x)
  <2>1. /\ UNCHANGED <<row, pc, cur, batch, used>>
        /\ \A y \in Writers : writer'[y] = IF y = x THEN NoWrite ELSE writer[y]
    BY <1>1, <1>7 DEF AbandonWrite, workerVars, TypeOK
  <2>2. NoWrite.pc = "idle"
    BY DEF NoWrite
  <2>3. \A v \in Workers, j \in Job : /\ Holds(v, j)' <=> Holds(v, j)
                                      /\ HasVector(j)' <=> HasVector(j)
    BY <2>1 DEF Holds, HasVector
  <2>4. VectorMatchesText' /\ DebtRecorded' /\ EnrichHasVector'
    BY <2>1 DEF IndInv, VectorMatchesText, DebtRecorded, EnrichHasVector, Exists
  <2>5. WritesEmbed' /\ TextsUsed'
    BY <2>1, <2>2, <2>3 DEF IndInv, WritesEmbed, TextsUsed, Exists
  <2>6. WritesFresh'
    BY <2>1, <2>2, <2>3 DEF IndInv, WritesFresh, FreshText
  <2>7. JobsHaveVector'
    BY <2>1, <2>3 DEF IndInv, JobsHaveVector
  <2> QED
    BY <1>2, <2>4, <2>5, <2>6, <2>7 DEF IndInv
<1> QED
  BY <1>4, <1>5, <1>6, <1>7 DEF WriteStep

\* A write starts: with a text nobody has used for this id, or as a rewrite of
\* the text the row holds.
LEMMA BeginInd ==
    ASSUME IndInv, ~ Revisit, NEW x \in Writers, NEW i \in Ids,
           BeginRewrite(x, i) \/ \E t \in Texts : BeginWrite(x, i, t)
    PROVE  IndInv'
<1>1. Shape /\ TypeOK
  BY DEF IndInv, Shape
<1>2. Shape'
  BY <1>1, BeginShape
<1>3. writer[x].pc = "idle" /\ UNCHANGED <<row, pc, cur, batch>>
  BY DEF BeginRewrite, BeginWrite, workerVars
<1> DEFINE d == writer'[x]
<1>d. d \in Write /\ \A y \in Writers : y # x => writer'[y] = writer[y]
  BY <1>1, <1>2 DEF Shape, TypeOK, BeginRewrite, BeginWrite
<1>4. ASSUME BeginRewrite(x, i)
      PROVE  /\ d.pc = "put" /\ d.id = i /\ d.vec = None /\ d.fp = row[i].fp
             /\ Exists(i) /\ d.rewrite /\ used' = used
  BY <1>1, <1>4 DEF BeginRewrite, TypeOK
<1>5. ASSUME NEW t \in Texts, BeginWrite(x, i, t)
      PROVE  /\ d.pc = "put" /\ d.id = i /\ d.vec = None /\ d.fp = t
             /\ d.state = "none" /\ ~ d.marker
             /\ <<i, t>> \notin used /\ used' = used \cup {<<i, t>>}
  <2> USE <1>5 DEF BeginWrite
  <2>1. <<i, t>> \notin used
    OBVIOUS
  <2>2. row[i].fp # t
    <3>1. row[i].fp = t => Exists(i)
      BY <1>1, QueueAssumption DEF Shape, RowShape, ShapedRow, Exists
    <3> QED
      BY <2>1, <3>1 DEF IndInv, TextsUsed
  <2>3. writer' = [writer EXCEPT ![x] =
                    [pc |-> "put", id |-> i, fp |-> t, vec |-> None, state |-> "none",
                     marker |-> FALSE, st |-> "live", rewrite |-> FALSE]]
    BY <2>2
  <2> QED
    BY <1>1, <2>1, <2>3 DEF TypeOK
<1> HIDE DEF d
<1>6. /\ d.pc = "put" /\ d.id = i /\ d.vec = None /\ d.fp \in Texts
      /\ <<i, d.fp>> \in used' /\ used \subseteq used'
      /\ \/ d.rewrite = FALSE /\ d.state = "none" /\ d.marker = FALSE /\ <<i, d.fp>> \notin used
         \/ d.rewrite = TRUE /\ d.fp = row[i].fp
  <2>1. Exists(i) => row[i].fp \in Texts /\ <<i, row[i].fp>> \in used
    BY <1>1 DEF Shape, TypeOK, RowShape, ShapedRow, Row, Exists, IndInv, TextsUsed
  <2>2. CASE BeginRewrite(x, i)
    BY <1>d, <1>4, <2>1, <2>2 DEF Write
  <2>3. ASSUME NEW t \in Texts, BeginWrite(x, i, t)
        PROVE  /\ d.pc = "put" /\ d.id = i /\ d.vec = None /\ d.fp \in Texts
               /\ <<i, d.fp>> \in used' /\ used \subseteq used'
               /\ d.rewrite = FALSE /\ d.state = "none" /\ d.marker = FALSE
               /\ <<i, d.fp>> \notin used
    <3>1. d.rewrite = FALSE
      BY <1>1, <2>3 DEF BeginWrite, TypeOK, d
    <3>2. d.marker = FALSE
      BY <1>1, <2>3 DEF BeginWrite, TypeOK, d
    <3> QED
      BY <1>5, <2>3, <3>1, <3>2
  <2> QED
    BY <2>2, <2>3
<1>7. \A v \in Workers, j \in Job : /\ Holds(v, j)' <=> Holds(v, j)
                                    /\ HasVector(j)' <=> HasVector(j)
  BY <1>3 DEF Holds, HasVector
<1>8. VectorMatchesText' /\ DebtRecorded' /\ EnrichHasVector'
  BY <1>3 DEF IndInv, VectorMatchesText, DebtRecorded, EnrichHasVector, Exists
<1>9. WritesEmbed' /\ TextsUsed'
  BY <1>3, <1>d, <1>6, <1>7 DEF d, IndInv, WritesEmbed, TextsUsed, Exists
<1>10. JobsHaveVector'
  BY <1>3, <1>7 DEF IndInv, JobsHaveVector
<1>11. WritesFresh'
  <2> SUFFICES ASSUME NEW y \in Writers, writer'[y].pc = "put", ~ writer'[y].rewrite
               PROVE  FreshText(y)'
    BY DEF WritesFresh
  <2>1. CASE y = x
    <3>1. writer'[y] = d /\ <<i, d.fp>> \notin used
      BY <1>6, <2>1 DEF d
    <3>2. row[i].fp # d.fp
      <4>1. row[i].fp = d.fp => Exists(i)
        BY <1>1, <1>6, QueueAssumption DEF Shape, RowShape, ShapedRow, Exists
      <4> QED
        BY <3>1, <4>1 DEF IndInv, TextsUsed
    <3>3. \A v \in Workers, j \in Job : Holds(v, j) => ~ (j.id = i /\ j.fp = d.fp)
      BY <3>1 DEF IndInv, TextsUsed
    <3>4. \A z \in Writers \ {x} :
             writer[z].pc # "idle" => ~ (writer[z].id = i /\ writer[z].fp = d.fp)
      BY <3>1 DEF IndInv, TextsUsed
    <3> QED
      BY <1>3, <1>d, <1>6, <1>7, <2>1, <3>1, <3>2, <3>3, <3>4 DEF FreshText
  <2>2. CASE y # x
    <3>1. writer'[y] = writer[y] /\ FreshText(y) /\ <<writer[y].id, writer[y].fp>> \in used
      BY <1>d, <1>6, <2>2 DEF IndInv, WritesFresh, TextsUsed
    <3>2. ~ (d.id = writer[y].id /\ d.fp = writer[y].fp)
      BY <1>6, <3>1 DEF FreshText
    <3> QED
      BY <1>3, <1>d, <1>6, <1>7, <2>2, <3>1, <3>2 DEF d, FreshText
  <2> QED
    BY <2>1, <2>2
<1> QED
  BY <1>2, <1>8, <1>9, <1>10, <1>11 DEF IndInv

LEMMA InitInd == Init => IndInv
<1> SUFFICES ASSUME Init PROVE IndInv
  OBVIOUS
<1>1. Shape
  BY InitShape
<1>2. \A v \in Workers, j \in Job : ~ Holds(v, j)
  BY DEF Init, Holds
<1>3. \A x \in Writers : writer[x].pc = "idle"
  BY DEF Init, NoWrite
<1>4. ASSUME NEW i \in Ids
      PROVE  /\ GoodRow(row[i])
             /\ Exists(i) => <<i, row[i].fp>> \in used
  <2>1. CASE row[i] = NoRow
    BY <2>1 DEF NoRow, GoodRow, Exists
  <2>2. ASSUME NEW t \in Texts, row[i] = LegacyRow(t)
        PROVE  GoodRow(row[i]) /\ <<i, row[i].fp>> \in used
    <3>1. row[i].fp = t /\ GoodRow(row[i])
      BY <2>2 DEF LegacyRow, GoodRow
    <3> QED
      BY <3>1 DEF Init
  <2> QED
    BY <2>1, <2>2 DEF Init
<1>5. VectorMatchesText /\ DebtRecorded /\ EnrichHasVector
  BY <1>4, RowParts
<1> QED
  BY <1>1, <1>2, <1>3, <1>4, <1>5 DEF IndInv, WritesEmbed, TextsUsed, WritesFresh, JobsHaveVector
(***************************************************************************)
(* Every step pays, borrows, removes or sweeps, or is invisible.           *)
(***************************************************************************)
Owes(r) == r.state # "none" \/ r.marker

\* A row rewritten in place, seen from outside.
LEMMA RowDebt ==
    ASSUME Shape, NEW k \in Ids, NEW q \in Row, Update(k, q),
           \/ q.vec # None /\ q.fp \in Texts
           \/ q.vec = None /\ q.fp \in Texts /\ q.fp # row[k].fp /\ Owes(q)
           \/ q = NoRow
           \/ /\ q.fp = row[k].fp /\ (q.vec # None <=> row[k].vec # None)
              /\ Owes(q) <=> Owes(row[k])
    PROVE  [Debt!Next]_(Debt!debtVars)
<1>1. \A i \in Ids : row[i] \in Row /\ row'[i] = IF i = k THEN q ELSE row[i]
  BY DEF Shape, TypeOK, Update
<1>2. CASE q.vec # None /\ q.fp \in Texts
  <2>1. Debt!Set(k, q.fp, TRUE, Owes(q))
    BY <1>1, <1>2 DEF Debt!Set, Owes
  <2>2. Owes(q) \in BOOLEAN
    BY DEF Owes
  <2>3. Debt!Pay(k, q.fp)
    BY <2>1, <2>2 DEF Debt!Pay
  <2> QED
    BY <1>2, <2>3 DEF Debt!Next
<1>3. CASE q.vec = None /\ q.fp \in Texts /\ q.fp # row[k].fp /\ Owes(q)
  <2>1. Debt!Borrow(k, q.fp)
    BY <1>1, <1>3 DEF Debt!Borrow, Debt!Set, Owes
  <2> QED
    BY <1>3, <2>1 DEF Debt!Next
<1>4. CASE q = NoRow
  <2>0. q.fp = None /\ q.vec = None /\ q.state = "none" /\ q.marker = FALSE
    BY <1>4 DEF NoRow
  <2>1. Debt!Remove(k)
    BY <1>1, <2>0 DEF Debt!Remove, Debt!Set
  <2> QED
    BY <2>1 DEF Debt!Next
<1>5. CASE q.fp = row[k].fp /\ (q.vec # None <=> row[k].vec # None) /\ (Owes(q) <=> Owes(row[k]))
  <2>1. UNCHANGED Debt!debtVars
    BY <1>1, <1>5 DEF Debt!debtVars, Owes
  <2> QED
    BY <2>1
<1> QED
  BY <1>2, <1>3, <1>4, <1>5

LEMMA KeepDebt == UNCHANGED row => [Debt!Next]_(Debt!debtVars)
  BY DEF Debt!debtVars
\* A row whose text stays and whose vector is not taken away.
LEMMA InPlaceDebt ==
    ASSUME IndInv, IndInv', NEW k \in Ids, NEW q \in Row, Update(k, q),
           q.fp = row[k].fp, row[k].vec # None => q.vec # None
    PROVE  [Debt!Next]_(Debt!debtVars)
<1>1. Shape /\ TypeOK /\ row[k] \in Row /\ row'[k] = q
  BY DEF IndInv, Shape, TypeOK, Update
<1>2. GoodRow(row[k]) /\ GoodRow(q) /\ ShapedRow(row[k]) /\ ShapedRow(q)
  <2>1. GoodRow(row[k]) /\ ShapedRow(row[k])
    BY RowParts DEF IndInv, Shape, RowShape
  <2>2. GoodRow(row'[k])
    BY DEF IndInv, VectorMatchesText, DebtRecorded, EnrichHasVector, GoodRow, Exists
  <2>3. ShapedRow(row'[k])
    BY DEF IndInv, Shape, RowShape
  <2> QED
    BY <1>1, <2>1, <2>2, <2>3
<1>3. CASE q.fp = None
  <2>1. q = NoRow
    BY <1>2, <1>3 DEF ShapedRow
  <2> QED
    BY <1>1, <2>1, RowDebt
<1>4. CASE q.fp # None /\ q.vec # None
  <2>1. q.fp \in Texts
    BY <1>4 DEF Row
  <2> QED
    BY <1>1, <1>4, <2>1, RowDebt
<1>5. CASE q.fp # None /\ q.vec = None
  <2>1. row[k].vec = None /\ Owes(q) /\ Owes(row[k])
    BY <1>2, <1>5 DEF GoodRow, ShapedRow, Owes
  <2> QED
    BY <1>1, <1>5, <2>1, RowDebt
<1> QED
  BY <1>3, <1>4, <1>5

LEMMA RepairStepDebt ==
    ASSUME IndInv, IndInv', NEW w \in Workers, RepairStep(w)
    PROVE  [Debt!Next]_(Debt!debtVars)
<1>1. TypeOK /\ WorkerShape
  BY DEF IndInv, Shape
<1> DEFINE j == cur[w]
           r == row[cur[w].id]
<1>2. ASSUME pc[w] \notin {"idle", "release"}
      PROVE  j \in Job /\ j.id \in Ids /\ r \in Row
  BY <1>1, <1>2, JobInHand
<1>3. ASSUME pc[w] \notin {"idle", "release"}, NEW s \in RepairStates,
             Update(j.id, InState(r, s)) \/ UNCHANGED row
      PROVE  [Debt!Next]_(Debt!debtVars)
  <2>1. InState(r, s) \in Row /\ InState(r, s).fp = r.fp /\ InState(r, s).vec = r.vec
    BY <1>2, <1>3, StatementFields
  <2>2. CASE Update(j.id, InState(r, s))
    BY <1>2, <1>3, <2>1, <2>2, InPlaceDebt
  <2> QED
    BY <1>3, <2>2, KeepDebt
<1>4. CASE Claim(w)
  <2>1. ASSUME NEW i \in Ids
        PROVE  /\ row'[i].fp = row[i].fp /\ row'[i].vec = row[i].vec
               /\ row'[i].state = row[i].state /\ row'[i].marker = row[i].marker
    <3>1. row[i] \in Row
      BY <1>1 DEF TypeOK
    <3>2. row'[i] \in {row[i], [row[i] EXCEPT !.attempts = Charge(@), !.due = FALSE]}
      BY <1>4 DEF Claim
    <3> QED
      BY <3>1, <3>2 DEF Row
  <2> QED
    BY <2>1 DEF Debt!debtVars
<1>5. CASE \/ Dispatch(w) \/ ReadVec(w) \/ Embed(w) \/ ReadRow(w) \/ LoadVec(w)
  BY <1>5, KeepDebt DEF Dispatch, ReadVec, Embed, ReadRow, LoadVec
<1>6. CASE SetEmbeddingIfUnchanged(w)
  <2> USE <1>6 DEF SetEmbeddingIfUnchanged
  <2> DEFINE q == WithVector(r, j.fp, "enrich")
  <2>1. j.fp \in Texts /\ j.fp # None /\ "enrich" \in RepairStates
    BY <1>2, QueueAssumption DEF Job, RepairStates
  <2>2. q \in Row /\ q.fp = r.fp /\ q.vec = j.fp
    BY <1>2, <2>1, StatementFields
  <2>3. Update(j.id, q) \/ UNCHANGED row
    BY DEF Guarded
  <2> HIDE DEF q
  <2>4. CASE Update(j.id, q)
    BY <1>2, <2>1, <2>2, <2>4, InPlaceDebt
  <2> QED
    BY <2>3, <2>4, KeepDebt
<1>7. CASE AdvanceToEnrich(w)
  BY <1>3, <1>7 DEF AdvanceToEnrich, Guarded, RepairStates
<1>8. CASE Demote(w)
  BY <1>3, <1>8 DEF Demote, Guarded, RepairStates
<1>9. CASE ClearRepair(w)
  BY <1>3, <1>9 DEF ClearRepair, Guarded, RepairStates
<1>10. CASE RecordMoot(w)
  BY <1>3, <1>10 DEF RecordMoot, RepairStates
<1>11. CASE Enrich(w)
  <2> DEFINE q == [r EXCEPT !.st = "superseded"]
  <2>1. Update(j.id, q) \/ UNCHANGED row
    BY <1>11 DEF Enrich
  <2>2. pc[w] \notin {"idle", "release"}
    BY <1>11 DEF Enrich
  <2>3. q \in Row /\ q.fp = r.fp /\ q.vec = r.vec
    BY <1>2, <2>2 DEF Row, RowStatus
  <2> HIDE DEF q
  <2>4. CASE Update(j.id, q)
    BY <1>2, <2>2, <2>3, <2>4, InPlaceDebt
  <2> QED
    BY <2>1, <2>4, KeepDebt
<1>12. ASSUME NEW k \in Ids, NEW q \in {Parked(row[k]), Delayed(row[k]), Released(row[k])},
              Update(k, q)
       PROVE  [Debt!Next]_(Debt!debtVars)
  <2>1. row[k] \in Row
    BY <1>1 DEF TypeOK
  <2>2. q \in Row /\ q.fp = row[k].fp /\ q.vec = row[k].vec
    BY <2>1, OutcomeFields
  <2> QED
    BY <1>12, <2>2, InPlaceDebt
<1>13. CASE RecordFailure(w)
  <2>1. j.id \in Ids
    BY <1>2, <1>13 DEF RecordFailure
  <2>2. UNCHANGED row \/ \E q \in {Parked(r), Delayed(r)} : Update(j.id, q)
    BY <1>13 DEF RecordFailure
  <2> QED
    BY <1>12, <2>1, <2>2, KeepDebt
<1>14. CASE ReleaseUnrun(w)
  <2>1. PICK k \in batch[w] : UNCHANGED row \/ Update(k.id, Released(row[k.id]))
    BY <1>14 DEF ReleaseUnrun
  <2>2. k.id \in Ids
    BY <1>1 DEF TypeOK, Job
  <2> QED
    BY <1>12, <2>1, <2>2, KeepDebt
<1> QED
  BY <1>4, <1>5, <1>6, <1>7, <1>8, <1>9, <1>10, <1>11, <1>13, <1>14 DEF RepairStep

LEMMA WriterStepDebt ==
    ASSUME IndInv, NEW x \in Writers, WriteStep(x)
    PROVE  [Debt!Next]_(Debt!debtVars)
<1>1. Shape /\ TypeOK
  BY DEF IndInv, Shape
<1>2. ASSUME writer[x].pc = "put"
      PROVE  /\ writer[x].vec = None /\ writer[x].id \in Ids /\ writer[x].fp \in Texts
             /\ writer[x].fp # None /\ writer[x] \in Write /\ row[writer[x].id] \in Row
             /\ ~ writer[x].rewrite => row[writer[x].id].fp # writer[x].fp
  BY <1>1, <1>2, QueueAssumption
     DEF IndInv, WritesEmbed, WritesFresh, FreshText, Shape, WriterShape, TypeOK
<1>3. CASE ReuseVector(x) \/ AbandonWrite(x)
  BY <1>3, KeepDebt DEF ReuseVector, AbandonWrite
<1>4. CASE PutHealthy(x)
  <2> USE <1>4 DEF PutHealthy
  <2> DEFINE d == [writer[x] EXCEPT !.vec = IF writer[x].vec = None THEN writer[x].fp ELSE writer[x].vec]
             q == Upserted(row[writer[x].id], d)
  <2>1. d \in Write /\ d.fp = writer[x].fp /\ d.vec = d.fp
    BY <1>2 DEF Write
  <2>2. q \in Row /\ q.fp = writer[x].fp /\ q.vec = writer[x].fp
    BY <1>2, <2>1, UpsertFields
  <2>3. Update(writer[x].id, q)
    OBVIOUS
  <2> HIDE DEF q
  <2> QED
    BY <1>1, <1>2, <2>2, <2>3, RowDebt
<1>5. CASE PutDegraded(x)
  <2> USE <1>5 DEF PutDegraded
  <2> DEFINE d == [writer[x] EXCEPT !.state = "pending", !.marker = TRUE]
             q == Upserted(row[writer[x].id], d)
  <2>1. d \in Write /\ d.fp = writer[x].fp /\ d.vec = None /\ d.state = "pending"
    BY <1>2 DEF Write, RepairStates
  <2>2. q \in Row /\ q.fp = writer[x].fp /\ q.vec = None /\ q.state = "pending"
    BY <1>2, <2>1, UpsertFields
  <2>3. Update(writer[x].id, q)
    OBVIOUS
  <2> HIDE DEF q
  <2>4. Owes(q)
    BY <2>2 DEF Owes
  <2> QED
    BY <1>1, <1>2, <2>2, <2>3, <2>4, RowDebt
<1> QED
  BY <1>3, <1>4, <1>5 DEF WriteStep

LEMMA StoreStepDebt ==
    ASSUME IndInv, IndInv',
           \/ \E i \in Ids : Delete(i) \/ Supersede(i) \/ Restore(i) \/ TimePasses(i)
           \/ RearmRepairs \/ ListMarked \/ MarkRepairNeeded
           \/ EmbedderDown \/ EmbedderUp
    PROVE  [Debt!Next]_(Debt!debtVars)
<1>1. Shape /\ TypeOK /\ \A i \in Ids : row[i] \in Row
  BY DEF IndInv, Shape, TypeOK
<1>2. ASSUME NEW i \in Ids, Delete(i) PROVE [Debt!Next]_(Debt!debtVars)
  BY <1>1, <1>2, NoRowType, RowDebt DEF Delete
<1>3. ASSUME NEW i \in Ids, NEW s \in {"live", "superseded"},
             Update(i, [row[i] EXCEPT !.st = s])
      PROVE  [Debt!Next]_(Debt!debtVars)
  <2> DEFINE q == [row[i] EXCEPT !.st = s]
  <2>1. q \in Row /\ q.fp = row[i].fp /\ q.vec = row[i].vec
    BY <1>1 DEF Row, RowStatus
  <2> QED
    BY <1>3, <2>1, InPlaceDebt
<1>4. ASSUME NEW i \in Ids, TimePasses(i) PROVE [Debt!Next]_(Debt!debtVars)
  <2> DEFINE q == [row[i] EXCEPT !.due = TRUE]
  <2>1. q \in Row /\ q.fp = row[i].fp /\ q.vec = row[i].vec
    BY <1>1 DEF Row
  <2>2. Update(i, q)
    BY <1>4 DEF TimePasses
  <2> QED
    BY <2>1, <2>2, InPlaceDebt
<1>5. CASE RearmRepairs
  <2>1. ASSUME NEW i \in Ids
        PROVE  row'[i].fp = row[i].fp /\ row'[i].vec = row[i].vec /\ row'[i].marker = row[i].marker
               /\ (row'[i].state # "none" <=> row[i].state # "none")
    <3>1. CASE i \in Due("failed")
      <4>1. row'[i] = [row[i] EXCEPT !.state = "pending", !.attempts = 0]
        BY <1>5, <3>1 DEF RearmRepairs
      <4>2. row[i].state = "failed"
        BY <3>1 DEF Due
      <4> QED
        BY <1>1, <4>1, <4>2 DEF Row
    <3>2. CASE i \notin Due("failed")
      BY <1>5, <3>2 DEF RearmRepairs
    <3> QED
      BY <3>1, <3>2
  <2> QED
    BY <2>1 DEF Debt!debtVars
<1>6. CASE MarkRepairNeeded
  <2> DEFINE S == {i \in listed : Exists(i) /\ row[i].state = "none"}
  <2>1. S \in SUBSET Ids /\ \A i \in S : row[i].fp # None
    BY <1>1 DEF TypeOK, Shape, RowShape, ShapedRow, Exists
  <2>2. ASSUME NEW i \in Ids
        PROVE  /\ row'[i].fp = row[i].fp /\ row'[i].vec = row[i].vec
               /\ (row'[i].state # "none" \/ row'[i].marker)
                     = ((row[i].state # "none" \/ row[i].marker) \/ i \in S)
    <3>1. CASE i \in S
      <4>1. row'[i] = [row[i] EXCEPT !.state = "pending", !.attempts = 0, !.due = TRUE]
        BY <1>6, <3>1 DEF MarkRepairNeeded
      <4>2. row'[i].state = "pending" /\ row'[i].fp = row[i].fp /\ row'[i].vec = row[i].vec
        BY <1>1, <4>1 DEF Row
      <4> QED
        BY <3>1, <4>2
    <3>2. CASE i \notin S
      <4>1. row'[i] = row[i]
        BY <1>6, <3>2 DEF MarkRepairNeeded
      <4> QED
        BY <3>2, <4>1
    <3> QED
      BY <3>1, <3>2
  <2>3. PICK T \in SUBSET Ids : T = S
    BY <2>1
  <2> HIDE DEF S
  <2>4. Debt!Sweep(T)
    BY <2>1, <2>2, <2>3 DEF Debt!Sweep
  <2> QED
    BY <2>4 DEF Debt!Next
<1>7. CASE ListMarked \/ EmbedderDown \/ EmbedderUp
  BY <1>7, KeepDebt DEF ListMarked, EmbedderDown, EmbedderUp
<1>8. ASSUME NEW i \in Ids, Supersede(i) \/ Restore(i) PROVE [Debt!Next]_(Debt!debtVars)
  BY <1>3, <1>8 DEF Supersede, Restore
<1> QED
  BY <1>2, <1>4, <1>5, <1>6, <1>7, <1>8

(***************************************************************************)
(* Theorems.                                                               *)
(***************************************************************************)
LEMMA NextInd ==
    ASSUME IndInv, ~ Revisit, [Next]_vars PROVE IndInv'
<1>1. CASE UNCHANGED vars
  BY <1>1 DEF vars, workerVars, IndInv, Shape, TypeOK, RowShape, WorkerShape, WriterShape,
     VectorMatchesText, DebtRecorded, EnrichHasVector, Exists, WritesEmbed, TextsUsed,
     WritesFresh, FreshText, JobsHaveVector, HasVector, Holds
<1>2. CASE Next
  BY <1>2, RepairStepInd, FaultStepInd, BeginInd, WriterStepInd, StoreStepInd DEF Next
<1> QED
  BY <1>1, <1>2

LEMMA NextDebt ==
    ASSUME IndInv, ~ Revisit, [Next]_vars PROVE [Debt!Next]_(Debt!debtVars)
<1>1. IndInv'
  BY NextInd
<1>2. ASSUME NEW w \in Workers, LoseOutcome(w) \/ StageError(w) \/ Crash(w) \/ Shutdown(w)
      PROVE  UNCHANGED row
  BY <1>2 DEF LoseOutcome, StageError, Crash, Shutdown
<1>3. ASSUME NEW x \in Writers, NEW i \in Ids,
             BeginRewrite(x, i) \/ \E t \in Texts : BeginWrite(x, i, t)
      PROVE  UNCHANGED row
  BY <1>3 DEF BeginRewrite, BeginWrite
<1>4. CASE UNCHANGED vars
  BY <1>4, KeepDebt DEF vars
<1>5. CASE Next
  BY <1>1, <1>2, <1>3, <1>5, KeepDebt, RepairStepDebt, WriterStepDebt, StoreStepDebt DEF Next
<1> QED
  BY <1>4, <1>5

\* Whatever runs, the queue's columns, the claims in memory and the writes in
\* flight stay well formed (any number of workers, writers, rows and texts).
THEOREM TypeCorrect == Spec => []TypeOK
BY ShapeInvariant, PTL DEF Shape

\* When no write stores a text its row has held before: no vector of another
\* text, no memory vectorless and forgotten, no enrichment without a vector.
THEOREM DebtInvariant ==
    ASSUME ~ Revisit
    PROVE  Spec => [](VectorMatchesText /\ DebtRecorded /\ EnrichHasVector)
<1>1. Init => IndInv
  BY InitInd
<1>2. IndInv /\ [Next]_vars => IndInv'
  BY NextInd
<1>3. IndInv => VectorMatchesText /\ DebtRecorded /\ EnrichHasVector
  BY DEF IndInv
<1> QED
  BY <1>1, <1>2, <1>3, PTL DEF Spec

\* The strengthened invariant that the run checks holds in every such instance.
THEOREM StrengthenedDebt == ASSUME ~ Revisit PROVE Spec => []IndInv
  BY InitInd, NextInd, PTL DEF Spec

\* Under the same condition no memory is ever found by the vector of another text
\* (SetEmbeddingIfUnchanged compares the fingerprint).
THEOREM VectorsMatch == ASSUME ~ Revisit PROVE Spec => []VectorMatchesText
  BY DebtInvariant, PTL

\* Under the same condition the enrich stage never meets a row without a vector
\* (runRepairEnrich reads it back from the index).
THEOREM EnrichAlwaysHasVector == ASSUME ~ Revisit PROVE Spec => []EnrichHasVector
  BY DebtInvariant, PTL

\* Under the same condition the queue implements its promise, IndexDebt.
THEOREM Refinement ==
    ASSUME ~ Revisit
    PROVE  Spec => ImplementsIndexDebt
<1>1. Init => IndInv
  BY InitInd
<1>2. IndInv /\ [Next]_vars => IndInv'
  BY NextInd
<1>3. IndInv /\ [Next]_vars => [Debt!Next]_(Debt!debtVars)
  BY NextDebt
<1>4. Init => Debt!Init
  <2> SUFFICES ASSUME Init PROVE Debt!Init
    OBVIOUS
  <2>1. ASSUME NEW i \in Ids
        PROVE  /\ row[i].fp \in Texts \cup {None} /\ row[i].vec = None
               /\ (row[i].state # "none" \/ row[i].marker) = (row[i].fp # None)
    <3>1. CASE row[i] = NoRow
      BY <3>1 DEF NoRow
    <3>2. ASSUME NEW t \in Texts, row[i] = LegacyRow(t)
          PROVE  row[i].fp = t /\ row[i].vec = None /\ row[i].marker = TRUE /\ t # None
      BY <3>2, QueueAssumption DEF LegacyRow
    <3>3. row[i] = NoRow \/ \E t \in Texts : row[i] = LegacyRow(t)
      BY DEF Init
    <3> HIDE DEF Init
    <3> QED
      BY <3>1, <3>2, <3>3
  <2> HIDE DEF Init
  <2>2. [i \in Ids |-> row[i].fp] \in [Ids -> Texts \cup {None}]
    BY <2>1
  <2>3. [i \in Ids |-> row[i].vec # None] = [i \in Ids |-> FALSE]
    BY <2>1
  <2>4. [i \in Ids |-> row[i].state # "none" \/ row[i].marker] = [i \in Ids |-> row[i].fp # None]
    BY <2>1
  <2>5. ASSUME NEW i \in Ids PROVE [k \in Ids |-> row[k].fp][i] = row[i].fp
    OBVIOUS
  <2> QED
    BY <2>2, <2>3, <2>4, <2>5, Zenon DEF Debt!Init
<1> QED
  BY <1>1, <1>2, <1>3, <1>4, PTL DEF Spec, ImplementsIndexDebt, Debt!Spec
=============================================================================
