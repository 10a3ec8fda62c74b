---------------------------- MODULE LineageProofs ----------------------------
(***************************************************************************)
(* Proofs about Lineage for every set of ids, classes, slots and writers,  *)
(* every queue capacity and every number of requests.                      *)
(***************************************************************************)
EXTENDS Lineage, TLAPS

(***************************************************************************)
(* Rows, statements, searches.                                             *)
(***************************************************************************)
LEMMA NullApart ==
    /\ Null \notin Ids /\ Null \notin Row /\ Null \notin Kind
    /\ Null \notin Request /\ Null \notin Job /\ Null \notin Fix /\ Null \notin Pass
  BY LineageAssumption

LEMMA FreshRow == Fresh \in Row /\ Fresh # Null /\ Fresh.by = Null
<1>1. Fresh \in Row
  BY DEF Fresh, Row
<1> QED BY <1>1, NullApart DEF Fresh

(***************************************************************************)
(* Type correctness, in four parts of the state.                           *)
(***************************************************************************)
TableType ==
    /\ conf \in Conf
    /\ row \in [Ids -> Row \cup {Null}]
    /\ kind \in [Ids -> Kind \cup {Null}]
    /\ age \in [Ids -> Nat]
    /\ births \in Nat
    /\ reopened \in SUBSET Ids
    /\ \A i \in Ids : /\ age[i] <= births
                      /\ Known(i) <=> age[i] > 0
                      /\ Stored(i) => Known(i)

\* A request is well formed and what it holds is known.
Sound(q) ==
    /\ q \in Request
    /\ q.pc \in {"target", "rewrite", "edit", "stored"} => q.id \in Ids /\ Known(q.id)
    /\ q.pc \in {"rewrite", "edit"} => q.copy \in Row
WriterType ==
    /\ writer \in [Writers -> Request \cup {Null}]
    /\ \A w \in Writers : writer[w] # Null => Sound(writer[w])

JobType ==
    /\ bg \in SUBSET (Ids \X Ids)
    /\ queue \in Seq(Ids)
    /\ job \in Job \cup {Null}
    /\ job # Null => Known(job.id) /\ Known(job.target)

PassType ==
    /\ owed \in SUBSET Ids
    /\ fix \in [Ids -> Fix \cup {Null}]
    /\ \A i \in Ids : fix[i] # Null /\ fix[i].pc = "rewrite" =>
                          fix[i].into \in Ids /\ Known(fix[i].into) /\ fix[i].copy \in Row
    /\ pass \in Pass \cup {Null}
    /\ pass # Null => \A i \in pass.merge : Known(i)

TypeInv ==
    /\ TableType
    /\ WriterType
    /\ JobType
    /\ PassType
    /\ ops \in Nat

LEMMA TypeParts == TypeInv => TypeOK /\ Placed
<1> SUFFICES ASSUME TypeInv PROVE TypeOK /\ Placed
  OBVIOUS
<1>1. TypeOK
  BY DEF TypeInv, TypeOK, TableType, WriterType, JobType, PassType
<1>2. Placed
  BY DEF TypeInv, Placed, TableType, WriterType, JobType, PassType, Sound
<1> QED BY <1>1, <1>2

LEMMA InitType == Init => TypeInv
<1> SUFFICES ASSUME Init PROVE TypeInv
  OBVIOUS
<1>1. TableType
  BY DEF Init, TableType, Known, Stored
<1>2. WriterType /\ JobType /\ PassType
  BY DEF Init, WriterType, JobType, PassType
<1> QED BY <1>1, <1>2 DEF Init, TypeInv

LEMMA SupersededType ==
    ASSUME TypeInv, NEW i \in Ids, NEW n \in Ids, SetSuperseded(i, n)
    PROVE  /\ row' \in [Ids -> Row \cup {Null}]
           /\ \A j \in Ids : row'[j] # Null <=> row[j] # Null
<1> DEFINE r == [by |-> n, closed |-> TRUE]
<1>1. r \in Row
  BY DEF Row
<1> HIDE DEF r
<1>2. row' = IF Stored(i) THEN [row EXCEPT ![i] = r] ELSE row
  BY DEF SetSuperseded, r
<1> QED
  BY <1>1, <1>2, NullApart DEF TypeInv, TableType, Stored

LEMMA UpsertType ==
    ASSUME TypeInv, NEW i \in Ids, NEW r \in Row \cup {Null}, Upsert(i, r)
    PROVE  /\ row' \in [Ids -> Row \cup {Null}]
           /\ row'[i] = r
           /\ \A j \in Ids \ {i} : row'[j] = row[j]
  BY DEF TypeInv, TableType, Upsert

LEMMA NearType ==
    ASSUME TypeInv, NEW k
    PROVE  /\ Near(k) \subseteq Ids
           /\ \A t \in Near(k) : /\ Known(t) /\ Stored(t) /\ row[t].by = Null
                                 /\ kind[t].slot = Fact /\ kind[t].durable = k.durable
  BY DEF Near, Live, TypeInv, TableType

LEMMA EnqueuedType ==
    ASSUME TypeInv, NEW i \in Ids, NEW k
    PROVE  Enqueued(queue, i, k) \in Seq(Ids)
  BY DEF Enqueued, TypeInv, JobType

\* What is known stays known; then what is left alone stays well typed.
KnownGrows == \A i \in Ids : Known(i) => Known(i)'

LEMMA TableStays ==
    ASSUME TableType, UNCHANGED table
    PROVE  TableType' /\ KnownGrows
  BY DEF TableType, table, Known, Stored, KnownGrows

LEMMA RowChanges ==
    ASSUME TableType, UNCHANGED <<conf, kind, age, births, reopened>>,
           row' \in [Ids -> Row \cup {Null}], \A i \in Ids : row'[i] # Null => Known(i)
    PROVE  TableType' /\ KnownGrows
  BY DEF TableType, Known, Stored, KnownGrows

LEMMA WriterStays ==
    ASSUME WriterType, KnownGrows, UNCHANGED writer
    PROVE  WriterType'
  BY DEF WriterType, Sound, KnownGrows

LEMMA WriterChanges ==
    ASSUME WriterType, KnownGrows, NEW w \in Writers, NEW q \in Request \cup {Null},
           writer' = [writer EXCEPT ![w] = q],
           q # Null /\ q.pc \in {"target", "rewrite", "edit", "stored"} =>
               q.id \in Ids /\ Known(q.id)',
           q # Null /\ q.pc \in {"rewrite", "edit"} => q.copy \in Row
    PROVE  WriterType'
<1>1. writer' \in [Writers -> Request \cup {Null}]
  BY DEF WriterType
<1>2. ASSUME NEW v \in Writers, writer'[v] # Null
      PROVE  /\ writer'[v].pc \in {"target", "rewrite", "edit", "stored"} =>
                   writer'[v].id \in Ids /\ Known((writer[v]).id)'
             /\ writer'[v].pc \in {"rewrite", "edit"} => writer'[v].copy \in Row
             /\ writer'[v] \in Request
  <2>1. CASE v = w
    <3>1. writer'[v] = q
      BY <2>1 DEF WriterType
    <3> QED BY <1>1, <1>2, <3>1
  <2>2. CASE v # w
    <3>1. writer'[v] = writer[v]
      BY <2>2 DEF WriterType
    <3> QED BY <1>1, <1>2, <3>1 DEF WriterType, Sound, KnownGrows
  <2> QED BY <2>1, <2>2
<1> QED BY <1>1, <1>2 DEF WriterType, Sound

LEMMA Answered ==
    ASSUME WriterType, KnownGrows, NEW w \in Writers, Answer(w)
    PROVE  WriterType'
  BY WriterChanges DEF Answer

LEMMA JobStays ==
    ASSUME JobType, KnownGrows, UNCHANGED <<bg, queue, job>>
    PROVE  JobType'
  BY DEF JobType, Job, KnownGrows

LEMMA JobEnds ==
    ASSUME JobType, bg' \in SUBSET (Ids \X Ids), queue' \in Seq(Ids), job' = Null
    PROVE  JobType'
  BY DEF JobType

LEMMA PassStays ==
    ASSUME PassType, KnownGrows, owed' \in SUBSET Ids, UNCHANGED <<fix, pass>>
    PROVE  PassType'
  BY DEF PassType, Pass, KnownGrows

(***************************************************************************)
(* One lemma per action: it keeps the types.                               *)
(***************************************************************************)
LEMMA BeginTypes ==
    ASSUME TypeInv, NEW w \in Writers, NEW p \in {"decided", "target", "over", "edit"},
           NEW k \in Kind, NEW id \in Ids \cup {Null}, NEW old \in SUBSET Ids,
           NEW late \in BOOLEAN, NEW copy \in Row \cup {Null},
           p \in {"target", "edit"} => id \in Ids /\ Known(id),
           p = "edit" => copy \in Row,
           Begin(w, p, k, id, old, late, copy), ops' \in Nat
    PROVE  TypeInv'
<1> DEFINE q == [pc |-> p, kind |-> k, id |-> id, old |-> old, late |-> late, copy |-> copy]
<1>1. q \in Request
  BY DEF Request
<1>2. q.pc = p /\ q.id = id /\ q.copy = copy
  OBVIOUS
<1>3. writer' = [writer EXCEPT ![w] = q] /\ UNCHANGED table /\ UNCHANGED memory
  BY DEF Begin
<1> HIDE DEF q
<1>4. TableType' /\ KnownGrows
  BY <1>3, TableStays DEF TypeInv
<1>5. JobType' /\ PassType'
  BY <1>3, <1>4, JobStays, PassStays DEF TypeInv, memory, PassType
<1>6. q.pc \in {"target", "rewrite", "edit", "stored"} => q.id \in Ids /\ Known(q.id)'
  BY <1>2, <1>4 DEF KnownGrows
<1>7. q.pc \in {"rewrite", "edit"} => q.copy \in Row
  BY <1>2
<1>8. WriterType'
  BY <1>1, <1>3, <1>4, <1>6, <1>7, WriterChanges DEF TypeInv
<1> QED BY <1>4, <1>5, <1>8 DEF TypeInv

LEMMA LatenessType == Lateness \subseteq BOOLEAN
  BY LineageAssumption DEF Lateness

LEMMA WriteHandoffTypes ==
    ASSUME TypeInv, NEW w \in Writers, WriteHandoff(w), ops' \in Nat
    PROVE  TypeInv'
<1>1. PICK k \in Kind, late \in Lateness, old \in SUBSET Ids :
          Begin(w, "decided", k, Null, old, late, Null)
  BY DEF WriteHandoff, Current
<1> QED BY <1>1, LatenessType, BeginTypes

LEMMA GateType ==
    ASSUME NEW k
    PROVE  Gate(k) \subseteq SUBSET Ids /\ Singletons(Near(k)) \subseteq SUBSET Ids
<1>1. Near(k) \subseteq Ids
  BY DEF Near
<1> QED BY <1>1 DEF Gate, Singletons

LEMMA WriteFactTypes ==
    ASSUME TypeInv, NEW w \in Writers, WriteFact(w), ops' \in Nat
    PROVE  TypeInv'
<1>1. PICK k \in Kind, late \in Lateness :
          \E old \in Gate(k) \cup Singletons(Near(k)) \cup {{}} :
              Begin(w, "decided", k, Null, old, late, Null)
  BY DEF WriteFact
<1>2. PICK old \in SUBSET Ids : Begin(w, "decided", k, Null, old, late, Null)
  BY <1>1, GateType
<1> QED BY <1>2, LatenessType, BeginTypes

LEMMA MergeSplitTypes ==
    ASSUME TypeInv, NEW w \in Writers, MergeSplit(w), ops' \in Nat
    PROVE  TypeInv'
<1>1. PICK k \in Kind : \E t \in Near(k), old \in Gate(k) :
          Begin(w, "target", k, t, old, FALSE, Null)
  BY DEF MergeSplit
<1>2. PICK t \in Near(k), old \in SUBSET Ids : Begin(w, "target", k, t, old, FALSE, Null)
  BY <1>1, GateType
<1>3. t \in Ids /\ Known(t)
  BY NearType
<1> QED BY <1>2, <1>3, BeginTypes

LEMMA ConsolidateSyncTypes ==
    ASSUME TypeInv, NEW w \in Writers, ConsolidateSync(w), ops' \in Nat
    PROVE  TypeInv'
<1>1. PICK k \in Kind, t \in Ids, verdict \in {"target", "over"} :
          /\ t \in Near(k)
          /\ Begin(w, verdict, k, t, IF verdict = "over" THEN {t} ELSE {}, FALSE, Null)
  BY DEF ConsolidateSync, Near
<1>2. Known(t)
  BY <1>1, NearType
<1>3. PICK old \in SUBSET Ids : Begin(w, verdict, k, t, old, FALSE, Null)
  BY <1>1
<1> QED BY <1>2, <1>3, BeginTypes

LEMMA ReadForEditTypes ==
    ASSUME TypeInv, NEW w \in Writers, NEW i \in Ids, ReadForEdit(w, i), ops' \in Nat
    PROVE  TypeInv'
<1>1. PICK late \in Lateness : Begin(w, "edit", kind[i], i, {}, late, row[i])
  BY DEF ReadForEdit
<1>2. Known(i) /\ row[i] \in Row /\ kind[i] \in Kind
  BY DEF TypeInv, TableType, ReadForEdit, Stored, Known
<1> QED BY <1>1, <1>2, LatenessType, BeginTypes

LEMMA ReadTargetTypes ==
    ASSUME TypeInv, NEW w \in Writers, ReadTarget(w), ops' \in Nat
    PROVE  TypeInv'
<1> DEFINE W == writer[w]
           next == IF Stored(W.id)
                THEN [W EXCEPT !.pc = "rewrite", !.copy = row[W.id]]
                ELSE [W EXCEPT !.pc = "decided"]
<1>1. W \in Request /\ W.pc = "target" /\ W.id \in Ids /\ Known(W.id)
  BY DEF TypeInv, ReadTarget, WriterType, Sound
<1>2. Stored(W.id) => row[W.id] \in Row
  BY <1>1 DEF TypeInv, TableType, Stored
<1>4. PICK q \in Request : q = next
  BY <1>1, <1>2 DEF Request
<1>3. writer' = [writer EXCEPT ![w] = q] /\ UNCHANGED table /\ UNCHANGED memory
  BY <1>4 DEF TypeInv, ReadTarget, WriterType
<1>5. q.id = W.id /\ (q.pc \in {"rewrite", "edit"} => q.copy \in Row)
  BY <1>1, <1>2, <1>4 DEF Request
<1> HIDE DEF next
<1>6. TableType' /\ KnownGrows
  BY <1>3, TableStays DEF TypeInv
<1>7. JobType' /\ PassType'
  BY <1>3, <1>6, JobStays, PassStays DEF TypeInv, memory, PassType
<1>8. q.id \in Ids /\ Known(q.id)'
  BY <1>1, <1>5, <1>6 DEF KnownGrows
<1>9. WriterType'
  BY <1>3, <1>4, <1>5, <1>6, <1>8, WriterChanges DEF TypeInv
<1> QED BY <1>6, <1>7, <1>9 DEF TypeInv

LEMMA FallThroughTypes ==
    ASSUME TypeInv, NEW w \in Writers, FallThrough(w), ops' \in Nat
    PROVE  TypeInv'
<1> DEFINE W == writer[w]
<1>1. W \in Request
  BY DEF TypeInv, FallThrough, WriterType
<1>2. PICK q \in Request : q = [W EXCEPT !.pc = "decided"]
  BY <1>1 DEF Request
<1>3. q.pc = "decided"
  BY <1>1, <1>2 DEF Request
<1>4. writer' = [writer EXCEPT ![w] = q] /\ UNCHANGED table /\ UNCHANGED memory
  BY <1>2 DEF TypeInv, FallThrough, WriterType
<1>5. TableType' /\ KnownGrows
  BY <1>4, TableStays DEF TypeInv
<1>6. JobType' /\ PassType'
  BY <1>4, <1>5, JobStays, PassStays DEF TypeInv, memory, PassType
<1>7. WriterType'
  BY <1>3, <1>4, <1>5, WriterChanges DEF TypeInv
<1> QED BY <1>5, <1>6, <1>7 DEF TypeInv

LEMMA RewriteTargetTypes ==
    ASSUME TypeInv, NEW w \in Writers, RewriteTarget(w), ops' \in Nat
    PROVE  TypeInv'
<1> DEFINE W == writer[w]
<1>1. W.id \in Ids /\ Known(W.id) /\ W.copy \in Row
  BY DEF TypeInv, RewriteTarget, WriterType, Sound
<1>2. TableType' /\ KnownGrows
  BY <1>1, UpsertType, RowChanges DEF TypeInv, TableType, RewriteTarget, Stored
<1>3. WriterType'
  BY <1>2, Answered DEF TypeInv, RewriteTarget
<1>4. JobType' /\ PassType'
  BY <1>2, JobStays, PassStays DEF TypeInv, RewriteTarget, memory, PassType
<1> QED BY <1>2, <1>3, <1>4 DEF TypeInv

\* A first store: the table, and what is known after it.
LEMMA FirstStoreTypes ==
    ASSUME TypeInv, NEW i \in Ids, NEW k \in Kind, FirstStore(i, k)
    PROVE  /\ TableType' /\ KnownGrows /\ Known(i)'
           /\ ~Known(i)
           /\ row' = [row EXCEPT ![i] = Fresh]
           /\ kind' = [kind EXCEPT ![i] = k]
           /\ age' = [age EXCEPT ![i] = births + 1]
<1>1. row' = [row EXCEPT ![i] = Fresh] /\ row' \in [Ids -> Row \cup {Null}]
  BY FreshRow DEF FirstStore, Upsert, TypeInv, TableType
<1>2. kind' = [kind EXCEPT ![i] = k] /\ kind' \in [Ids -> Kind \cup {Null}]
  BY DEF FirstStore, TypeInv, TableType
<1>3. births' = births + 1 /\ births' \in Nat /\ births' > 0
  BY DEF FirstStore, TypeInv, TableType
<1>4. age' = [age EXCEPT ![i] = births + 1] /\ age' \in [Ids -> Nat] /\ age'[i] = births + 1
  BY <1>3 DEF FirstStore, TypeInv, TableType
<1>5. k # Null
  BY NullApart
<1>6. Known(i)' /\ KnownGrows /\ ~Known(i)
  BY <1>2, <1>5 DEF Known, KnownGrows, TypeInv, TableType, FirstStore
<1>7. ASSUME NEW j \in Ids
      PROVE  age'[j] <= births' /\ (Known(j)' <=> age'[j] > 0) /\ (Stored(j)' => Known(j)')
  <2>1. CASE j = i
    BY <1>3, <1>4, <1>6, <2>1
  <2>2. CASE j # i
    BY <1>1, <1>2, <1>3, <1>4, <2>2 DEF Known, Stored, TypeInv, TableType
  <2> QED BY <2>1, <2>2
<1>8. conf' = conf /\ reopened' = reopened
  BY DEF FirstStore
<1> QED BY <1>1, <1>2, <1>3, <1>4, <1>6, <1>7, <1>8 DEF TypeInv, TableType

LEMMA StoreTypes ==
    ASSUME TypeInv, NEW w \in Writers, NEW i \in Ids, Store(w, i), ops' \in Nat
    PROVE  TypeInv'
<1> DEFINE W == writer[w]
<1>1. W \in Request /\ W.kind \in Kind /\ W.old \in SUBSET Ids
  BY DEF TypeInv, Store, WriterType, Request
<1>2. FirstStore(i, W.kind)
  BY DEF Store
<1>3. TableType' /\ KnownGrows
  BY <1>1, <1>2, FirstStoreTypes
<1>4. WriterType'
  BY <1>3, Answered DEF TypeInv, Store
<1>5. bg' \in SUBSET (Ids \X Ids)
  BY <1>1 DEF TypeInv, JobType, Store
<1>6. queue' \in Seq(Ids)
  BY EnqueuedType DEF TypeInv, JobType, Store
<1>7. job' = job /\ (job # Null => Known(job.id)' /\ Known(job.target)')
  BY <1>3 DEF TypeInv, JobType, Job, Store, KnownGrows
<1>8. JobType'
  BY <1>5, <1>6, <1>7 DEF TypeInv, JobType
<1>9. owed' \in SUBSET Ids /\ UNCHANGED <<fix, pass>>
  BY DEF TypeInv, PassType, Store
<1>10. PassType'
  BY <1>3, <1>9, PassStays DEF TypeInv
<1> QED BY <1>3, <1>4, <1>8, <1>10 DEF TypeInv

LEMMA StoreOverTypes ==
    ASSUME TypeInv, NEW w \in Writers, NEW i \in Ids, StoreOver(w, i), ops' \in Nat
    PROVE  TypeInv'
<1> DEFINE W == writer[w]
           next == [W EXCEPT !.pc = "stored", !.id = i]
<1>1. W \in Request /\ W.kind \in Kind
  BY DEF TypeInv, StoreOver, WriterType, Request
<1>2. FirstStore(i, W.kind) /\ UNCHANGED memory
  BY DEF StoreOver
<1>3. TableType' /\ KnownGrows /\ Known(i)'
  BY <1>1, <1>2, FirstStoreTypes
<1>4. PICK q \in Request : q = next
  BY <1>1 DEF Request
<1>5. q.pc = "stored" /\ q.id = i
  BY <1>1, <1>4 DEF Request
<1>6. writer' = [writer EXCEPT ![w] = q]
  BY <1>1, <1>4 DEF StoreOver, TypeInv, WriterType
<1> HIDE DEF next
<1>7. WriterType'
  BY <1>3, <1>5, <1>6, WriterChanges DEF TypeInv
<1>8. JobType' /\ PassType'
  BY <1>2, <1>3, JobStays, PassStays DEF TypeInv, memory, PassType
<1> QED BY <1>3, <1>7, <1>8 DEF TypeInv

LEMMA TombstoneTargetTypes ==
    ASSUME TypeInv, NEW w \in Writers, TombstoneTarget(w), ops' \in Nat
    PROVE  TypeInv'
<1> DEFINE W == writer[w]
<1>1. W.id \in Ids /\ W.old \in SUBSET Ids
  BY DEF TypeInv, TombstoneTarget, WriterType, Sound, Request
<1>2. PICK t \in W.old : SetSuperseded(t, W.id)
  BY DEF TombstoneTarget
<1>3. TableType' /\ KnownGrows
  BY <1>1, <1>2, SupersededType, RowChanges DEF TypeInv, TableType, TombstoneTarget, Stored
<1>4. WriterType'
  BY <1>3, Answered DEF TypeInv, TombstoneTarget
<1>5. JobType' /\ PassType'
  BY <1>3, JobStays, PassStays DEF TypeInv, TombstoneTarget, memory, PassType
<1> QED BY <1>3, <1>4, <1>5 DEF TypeInv

LEMMA RollbackTypes ==
    ASSUME TypeInv, NEW w \in Writers, Rollback(w), ops' \in Nat
    PROVE  TypeInv'
<1>1. writer[w].id \in Ids
  BY DEF TypeInv, Rollback, WriterType, Sound
<1>2. TableType' /\ KnownGrows
  BY <1>1, UpsertType, RowChanges DEF TypeInv, TableType, Rollback, Stored
<1>3. WriterType'
  BY <1>2, Answered DEF TypeInv, Rollback
<1>4. JobType' /\ PassType'
  BY <1>2, JobStays, PassStays DEF TypeInv, Rollback, memory, PassType
<1> QED BY <1>2, <1>3, <1>4 DEF TypeInv

LEMMA FailTypes ==
    ASSUME TypeInv, NEW w \in Writers, Fail(w), ops' \in Nat
    PROVE  TypeInv'
<1>1. TableType' /\ KnownGrows
  BY TableStays DEF TypeInv, Fail
<1>2. WriterType'
  BY <1>1, Answered DEF TypeInv, Fail
<1>3. JobType' /\ PassType'
  BY <1>1, JobStays, PassStays DEF TypeInv, Fail, memory, PassType
<1> QED BY <1>1, <1>2, <1>3 DEF TypeInv

LEMMA WriteEditTypes ==
    ASSUME TypeInv, NEW w \in Writers, WriteEdit(w), ops' \in Nat
    PROVE  TypeInv'
<1> DEFINE W == writer[w]
           r == [by |-> Null, closed |-> W.copy.closed]
<1>1. W.id \in Ids /\ Known(W.id) /\ W.copy \in Row
  BY DEF TypeInv, WriteEdit, WriterType, Sound
<1>2. r \in Row
  BY <1>1 DEF Row
<1>3. Upsert(W.id, r)
  BY DEF WriteEdit
<1> HIDE DEF r
<1>4. row' \in [Ids -> Row \cup {Null}] /\ \A j \in Ids \ {W.id} : row'[j] = row[j]
  BY <1>1, <1>2, <1>3, UpsertType
<1>5. PICK c \in Classes : kind' = [kind EXCEPT ![W.id].class = c]
  BY DEF WriteEdit
<1>6. kind[W.id] \in Kind
  BY <1>1 DEF TypeInv, TableType, Known
<1>7. [kind[W.id] EXCEPT !.class = c] \in Kind
  BY <1>6 DEF Kind
<1>8. kind' = [kind EXCEPT ![W.id] = [kind[W.id] EXCEPT !.class = c]]
  BY <1>1, <1>5 DEF TypeInv, TableType
<1>9. kind' \in [Ids -> Kind \cup {Null}] /\ \A j \in Ids : Known(j)' <=> Known(j)
  BY <1>1, <1>7, <1>8, NullApart DEF TypeInv, TableType, Known
<1>10. UNCHANGED <<conf, age, births>> /\ reopened' \in SUBSET Ids
  BY <1>1 DEF WriteEdit, TypeInv, TableType
<1>11. TableType' /\ KnownGrows
  BY <1>1, <1>4, <1>9, <1>10 DEF TypeInv, TableType, KnownGrows, Stored
<1>12. WriterType'
  BY <1>11, Answered DEF TypeInv, WriteEdit
<1>13. owed' \in SUBSET Ids
  BY <1>1 DEF TypeInv, WriteEdit, PassType
<1>14. JobType' /\ PassType'
  BY <1>11, <1>13, JobStays, PassStays DEF TypeInv, WriteEdit
<1> QED BY <1>11, <1>12, <1>14 DEF TypeInv

LEMMA DeleteTypes ==
    ASSUME TypeInv, NEW i \in Ids, Delete(i), ops' \in Nat
    PROVE  TypeInv'
<1>1. TableType' /\ KnownGrows
  BY UpsertType, RowChanges DEF TypeInv, TableType, Delete, Stored
<1>2. WriterType' /\ JobType'
  BY <1>1, WriterStays, JobStays DEF TypeInv, Delete
<1>3. PassType'
  BY <1>1, PassStays DEF TypeInv, Delete, PassType
<1> QED BY <1>1, <1>2, <1>3 DEF TypeInv

LEMMA SupersedeTypes ==
    ASSUME TypeInv, NEW i \in Ids, NEW n \in Ids, Supersede(i, n), ops' \in Nat
    PROVE  TypeInv'
<1>1. TableType' /\ KnownGrows
  BY SupersededType, RowChanges DEF TypeInv, TableType, Supersede, Stored
<1>2. WriterType' /\ JobType' /\ PassType'
  BY <1>1, WriterStays, JobStays, PassStays DEF TypeInv, Supersede, memory, PassType
<1> QED BY <1>1, <1>2 DEF TypeInv

LEMMA GoroutineTypes ==
    ASSUME TypeInv, NEW e \in Ids \X Ids, AutoSupersede(e) \/ DropSupersede(e), ops' \in Nat
    PROVE  TypeInv'
<1>1. CASE AutoSupersede(e)
  <2>1. TableType' /\ KnownGrows
    BY <1>1, SupersededType, RowChanges DEF TypeInv, TableType, AutoSupersede, Stored
  <2>2. bg' \in SUBSET (Ids \X Ids) /\ UNCHANGED <<queue, job, writer, owed, fix, pass>>
    BY <1>1 DEF AutoSupersede, TypeInv, JobType
  <2>3. JobType'
    BY <2>1, <2>2 DEF TypeInv, JobType, Job, KnownGrows
  <2>4. WriterType' /\ PassType'
    BY <2>1, <2>2, WriterStays, PassStays DEF TypeInv, PassType
  <2> QED BY <2>1, <2>3, <2>4 DEF TypeInv
<1>2. CASE DropSupersede(e)
  <2>1. TableType' /\ KnownGrows
    BY <1>2, TableStays DEF TypeInv, DropSupersede
  <2>2. bg' \in SUBSET (Ids \X Ids) /\ UNCHANGED <<queue, job, writer, owed, fix, pass>>
    BY <1>2 DEF DropSupersede, TypeInv, JobType
  <2>3. JobType'
    BY <2>1, <2>2 DEF TypeInv, JobType, Job, KnownGrows
  <2>4. WriterType' /\ PassType'
    BY <2>1, <2>2, WriterStays, PassStays DEF TypeInv, PassType
  <2> QED BY <2>1, <2>3, <2>4 DEF TypeInv
<1> QED BY <1>1, <1>2

LEMMA TakeJobTypes ==
    ASSUME TypeInv, TakeJob, ops' \in Nat
    PROVE  TypeInv'
<1>1. TableType' /\ KnownGrows
  BY TableStays DEF TypeInv, TakeJob
<1>2. WriterType' /\ PassType'
  BY <1>1, WriterStays, PassStays DEF TypeInv, TakeJob, PassType
<1>3. Head(queue) \in Ids /\ queue' \in Seq(Ids) /\ bg' = bg
  BY DEF TypeInv, JobType, TakeJob
<1>4. job' \in Job \cup {Null} /\ (job' # Null => Known(job'.id) /\ Known(job'.target))
  <2>1. CASE job' = Null
    BY <2>1
  <2>2. ASSUME job' # Null
        PROVE  job' \in Job /\ Known(job'.id) /\ Known(job'.target)
    <3> DEFINE m == Head(queue)
    <3>1. PICK t \in Ids, verdict \in {"update", "supersede", "link"} :
             /\ Stored(m) /\ t \in Near(kind[m])
             /\ job' = [pc |-> verdict, id |-> m, target |-> t, copy |-> row[m]]
      BY <2>2 DEF TakeJob, Near
    <3>2. row[m] \in Row /\ Known(m)
      BY <1>3, <3>1 DEF TypeInv, TableType, Stored
    <3>3. Known(t)
      BY <3>1, NearType
    <3> QED BY <1>3, <3>1, <3>2, <3>3 DEF Job
  <2> QED BY <2>1, <2>2
<1>5. JobType'
  BY <1>1, <1>3, <1>4 DEF TypeInv, JobType, Job, KnownGrows
<1> QED BY <1>1, <1>2, <1>5 DEF TypeInv

LEMMA ReadMergeTargetTypes ==
    ASSUME TypeInv, ReadMergeTarget, ops' \in Nat
    PROVE  TypeInv'
<1>1. TableType' /\ KnownGrows
  BY TableStays DEF TypeInv, ReadMergeTarget
<1>2. WriterType' /\ PassType'
  BY <1>1, WriterStays, PassStays DEF TypeInv, ReadMergeTarget, PassType
<1>3. job \in Job /\ Known(job.id) /\ Known(job.target) /\ job.target \in Ids
  BY DEF TypeInv, JobType, Job, ReadMergeTarget, JobAt
<1>4. CASE Stored(job.target)
  <2>1. row[job.target] \in Row
    BY <1>3, <1>4 DEF TypeInv, TableType, Stored
  <2>2. job' = [job EXCEPT !.pc = "merge", !.copy = row[job.target]]
    BY <1>4 DEF ReadMergeTarget
  <2>3. job' \in Job /\ job'.id = job.id /\ job'.target = job.target
    BY <1>3, <2>1, <2>2 DEF Job
  <2> QED BY <1>1, <1>2, <1>3, <2>3 DEF TypeInv, JobType, Job, ReadMergeTarget, KnownGrows
<1>5. CASE ~Stored(job.target)
  BY <1>1, <1>2, <1>5, JobEnds DEF TypeInv, JobType, ReadMergeTarget
<1> QED BY <1>4, <1>5

LEMMA MergeIntoTargetTypes ==
    ASSUME TypeInv, MergeIntoTarget, ops' \in Nat
    PROVE  TypeInv'
<1>1. job \in Job /\ Known(job.id) /\ Known(job.target) /\ job.target \in Ids /\ job.copy \in Row
  BY DEF TypeInv, JobType, Job, MergeIntoTarget, JobAt
<1>2. TableType' /\ KnownGrows
  BY <1>1, UpsertType, RowChanges DEF TypeInv, TableType, MergeIntoTarget, Stored
<1>3. WriterType' /\ PassType'
  BY <1>2, WriterStays, PassStays DEF TypeInv, MergeIntoTarget, PassType
<1>4. job' \in Job /\ job'.id = job.id /\ job'.target = job.target
  BY <1>1 DEF Job, MergeIntoTarget
<1> QED BY <1>1, <1>2, <1>3, <1>4 DEF TypeInv, JobType, Job, MergeIntoTarget, KnownGrows

LEMMA JobLinkTypes ==
    ASSUME TypeInv, TombstoneMerged \/ SupersedeTarget, ops' \in Nat
    PROVE  TypeInv'
<1>1. job.id \in Ids /\ job.target \in Ids
  BY DEF TypeInv, JobType, Job, TombstoneMerged, SupersedeTarget, JobAt
<1>2. /\ UNCHANGED <<conf, kind, age, births, reopened, writer, bg, queue, owed, fix, pass>>
      /\ job' = Null
      /\ SetSuperseded(job.id, job.target) \/ SetSuperseded(job.target, job.id)
  BY DEF TombstoneMerged, SupersedeTarget
<1>3. TableType' /\ KnownGrows
  BY <1>1, <1>2, SupersededType, RowChanges DEF TypeInv, TableType, Stored
<1>4. WriterType' /\ PassType' /\ JobType'
  BY <1>2, <1>3, WriterStays, PassStays, JobEnds DEF TypeInv, PassType, JobType
<1> QED BY <1>3, <1>4 DEF TypeInv

LEMMA WriteLinksTypes ==
    ASSUME TypeInv, WriteLinks, ops' \in Nat
    PROVE  TypeInv'
<1>1. Known(job.id) /\ job.id \in Ids /\ job.copy \in Row
  BY DEF TypeInv, JobType, Job, WriteLinks, JobAt
<1>2. TableType' /\ KnownGrows
  BY <1>1, UpsertType, RowChanges DEF TypeInv, TableType, WriteLinks, Stored
<1>3. WriterType' /\ PassType' /\ JobType'
  BY <1>2, WriterStays, PassStays, JobEnds DEF TypeInv, WriteLinks, PassType, JobType
<1> QED BY <1>2, <1>3 DEF TypeInv

LEMMA FailJobTypes ==
    ASSUME TypeInv, FailJob, ops' \in Nat
    PROVE  TypeInv'
<1>1. TableType' /\ KnownGrows
  BY TableStays DEF TypeInv, FailJob
<1>2. WriterType' /\ PassType' /\ JobType'
  BY <1>1, WriterStays, PassStays, JobEnds DEF TypeInv, FailJob, PassType, JobType
<1> QED BY <1>1, <1>2 DEF TypeInv

LEMMA ConsolidateTypes ==
    ASSUME TypeInv, Consolidate, ops' \in Nat
    PROVE  TypeInv'
  BY TakeJobTypes, ReadMergeTargetTypes, MergeIntoTargetTypes, JobLinkTypes,
     WriteLinksTypes, FailJobTypes DEF Consolidate

LEMMA NearestType == ASSUME NEW i \in Ids PROVE Nearest(i) \subseteq Ids
  BY DEF Nearest, Near

LEMMA HitsType ==
    ASSUME TypeInv, NEW i \in Ids, Deciding(i) PROVE Hits(i) \subseteq Ids
<1>1. fix[i] \in Fix
  BY DEF TypeInv, PassType, Deciding, FixAt
<1>2. fix[i].hit \in Ids
  BY <1>1 DEF Fix
<1> QED BY <1>2, NearestType DEF Hits

LEMMA PassFixes ==
    ASSUME PassType, KnownGrows, owed' \in SUBSET Ids, pass' = pass,
           NEW i \in Ids, NEW f \in Fix \cup {Null}, fix' = [fix EXCEPT ![i] = f],
           f # Null => f.pc # "rewrite"
    PROVE  PassType'
<1>1. \A j \in Ids : fix'[j] = fix[j] \/ fix'[j] = f
  BY DEF PassType
<1>2. pass \in Pass => pass.merge \subseteq Ids
  BY DEF Pass
<1> QED BY <1>1, <1>2 DEF PassType, KnownGrows

\* A step that changes only how far an enrichment has come.
LEMMA FixStays ==
    ASSUME TypeInv, NEW i \in Ids, NEW f \in Fix, fix' = [fix EXCEPT ![i] = f],
           f.pc = "rewrite" => f.into \in Ids /\ Known(f.into) /\ f.copy \in Row,
           UNCHANGED table, UNCHANGED <<writer, bg, queue, job, owed, pass>>, ops' \in Nat
    PROVE  TypeInv'
<1>1. TableType' /\ KnownGrows
  BY TableStays DEF TypeInv
<1>2. WriterType' /\ JobType'
  BY <1>1, WriterStays, JobStays DEF TypeInv
<1>3. PassType'
  BY <1>1 DEF TypeInv, PassType, Pass, KnownGrows
<1> QED BY <1>1, <1>2, <1>3 DEF TypeInv

LEMMA FixTypes ==
    ASSUME TypeInv, NEW i \in Ids,
           FixMerges(i) \/ FixReadsTarget(i) \/ FixFallsBack(i) \/ FixFolds(i), ops' \in Nat
    PROVE  TypeInv'
<1>1. CASE FixMerges(i)
  <2>1. PICK hit \in Nearest(i), t \in Near(kind[i]) :
           fix' = [fix EXCEPT ![i] = [pc |-> "target", hit |-> hit, into |-> t, copy |-> Null]]
    BY <1>1 DEF FixMerges
  <2>2. hit \in Ids /\ t \in Ids
    BY NearestType DEF Near
  <2>3. PICK f \in Fix : f = [pc |-> "target", hit |-> hit, into |-> t, copy |-> Null]
    BY <2>2 DEF Fix
  <2>4. f.pc = "target"
    BY <2>3
  <2> QED BY <1>1, <2>1, <2>3, <2>4, FixStays DEF FixMerges
<1> DEFINE F == fix[i]
<1>2. CASE FixReadsTarget(i)
  <2>1. F \in Fix /\ F.into \in Ids /\ row[F.into] \in Row
    BY <1>2 DEF FixReadsTarget, FixAt, Stored, TypeInv, PassType, TableType, Fix
  <2>2. PICK f \in Fix : f = [F EXCEPT !.pc = "rewrite", !.copy = row[F.into]]
    BY <2>1 DEF Fix
  <2>3. fix' = [fix EXCEPT ![i] = f]
    BY <1>2, <2>2 DEF FixReadsTarget, TypeInv, PassType
  <2>4. f.into = F.into /\ f.copy = row[F.into] /\ Known(F.into)
    BY <1>2, <2>1, <2>2 DEF Fix, FixReadsTarget, TypeInv, TableType
  <2> QED BY <1>2, <2>1, <2>3, <2>4, FixStays DEF FixReadsTarget
<1>3. CASE FixFallsBack(i)
  <2>1. F \in Fix
    BY <1>3 DEF FixFallsBack, FixAt, TypeInv, PassType
  <2>2. PICK f \in Fix : f = [F EXCEPT !.pc = "searched", !.into = i, !.copy = Null]
    BY <2>1 DEF Fix
  <2>3. fix' = [fix EXCEPT ![i] = f]
    BY <1>3, <2>2 DEF FixFallsBack, TypeInv, PassType
  <2>4. f.pc = "searched"
    BY <2>1, <2>2 DEF Fix
  <2> QED BY <1>3, <2>3, <2>4, FixStays DEF FixFallsBack
<1>4. CASE FixFolds(i)
  <2>1. F \in Fix
    BY <1>4 DEF FixFolds, Deciding, FixAt, TypeInv, PassType
  <2>2. PICK hit \in Ids :
           fix' = [fix EXCEPT ![i] = [@ EXCEPT !.pc = "fold", !.hit = i, !.into = hit]]
    BY <1>4, <2>1, HitsType DEF FixFolds
  <2>3. PICK f \in Fix : f = [F EXCEPT !.pc = "fold", !.hit = i, !.into = hit]
    BY <2>1 DEF Fix
  <2>4. fix' = [fix EXCEPT ![i] = f]
    BY <2>2, <2>3 DEF TypeInv, PassType
  <2>5. f.pc = "fold"
    BY <2>1, <2>3 DEF Fix
  <2> QED BY <1>4, <2>4, <2>5, FixStays DEF FixFolds
<1> QED BY <1>1, <1>2, <1>3, <1>4

LEMMA FixRewritesTargetTypes ==
    ASSUME TypeInv, NEW i \in Ids, FixRewritesTarget(i), ops' \in Nat
    PROVE  TypeInv'
<1> DEFINE F == fix[i]
<1>1. F \in Fix /\ F.into \in Ids /\ Known(F.into) /\ F.copy \in Row
  BY DEF FixRewritesTarget, FixAt, TypeInv, PassType, Fix
<1>2. TableType' /\ KnownGrows
  BY <1>1, UpsertType, RowChanges DEF TypeInv, TableType, FixRewritesTarget, Stored
<1>3. WriterType' /\ JobType'
  BY <1>2, WriterStays, JobStays DEF TypeInv, FixRewritesTarget
<1>4. PICK f \in Fix : f = [F EXCEPT !.pc = "fold", !.hit = i, !.copy = Null]
  BY <1>1 DEF Fix
<1>5. fix' = [fix EXCEPT ![i] = f] /\ f.pc = "fold"
  BY <1>1, <1>4 DEF FixRewritesTarget, TypeInv, PassType, Fix
<1>6. PassType'
  BY <1>2, <1>5 DEF TypeInv, PassType, Pass, KnownGrows, FixRewritesTarget
<1> QED BY <1>2, <1>3, <1>6 DEF TypeInv

LEMMA EnrichTypes ==
    ASSUME TypeInv, NEW i \in Ids, Enrich(i), ops' \in Nat
    PROVE  TypeInv'
<1>1. CASE ReadForFix(i)
  <2>1. fix' \in [Ids -> Fix \cup {Null}] /\ owed' \in SUBSET Ids /\ pass' = pass
    BY <1>1 DEF ReadForFix, TypeInv, PassType, Fix
  <2>2. TableType' /\ KnownGrows
    BY <1>1, TableStays DEF TypeInv, ReadForFix
  <2>3. WriterType' /\ JobType'
    BY <1>1, <2>2, WriterStays, JobStays DEF TypeInv, ReadForFix
  <2>4. CASE Stored(i) /\ row[i].by = Null
    <3>1. PICK f \in Fix : f = [pc |-> "read", hit |-> i, into |-> i, copy |-> Null]
      BY DEF Fix
    <3>2. fix' = [fix EXCEPT ![i] = f] /\ f.pc = "read"
      BY <1>1, <2>4, <3>1 DEF ReadForFix
    <3>3. PassType'
      BY <2>1, <2>2, <3>2, PassFixes DEF TypeInv
    <3> QED BY <2>2, <2>3, <3>3 DEF TypeInv
  <2>5. CASE ~(Stored(i) /\ row[i].by = Null)
    <3>1. fix' = fix
      BY <1>1, <2>5 DEF ReadForFix
    <3>2. PassType'
      BY <2>1, <2>2, <3>1, PassStays DEF TypeInv
    <3> QED BY <2>2, <2>3, <3>2 DEF TypeInv
  <2> QED BY <2>4, <2>5
<1>2. CASE FixMerges(i) \/ FixReadsTarget(i) \/ FixFallsBack(i) \/ FixFolds(i)
  BY <1>2, FixTypes
<1>3. CASE FixReplaces(i) \/ FixKeeps(i) \/ FoldFails(i)
  <2>1. fix' \in [Ids -> Fix \cup {Null}] /\ owed' \in SUBSET Ids /\ pass' = pass
    BY <1>3 DEF FixReplaces, FixKeeps, FoldFails, Fixed, TypeInv, PassType
  <2>2. bg' \in SUBSET (Ids \X Ids)
    <3>1. CASE FixReplaces(i)
      <4>1. Deciding(i) => Hits(i) \subseteq Ids
        BY HitsType
      <4>2. Near(kind[i]) \subseteq Ids
        BY DEF Near
      <4> QED BY <3>1, <4>1, <4>2 DEF FixReplaces, TypeInv, JobType
    <3>2. CASE FixKeeps(i) \/ FoldFails(i)
      BY <3>2 DEF FixKeeps, FoldFails, TypeInv, JobType
    <3> QED BY <1>3, <3>1, <3>2
  <2>3. queue' \in Seq(Ids)
    BY <1>3, EnqueuedType DEF FixReplaces, FixKeeps, FoldFails
  <2>4. UNCHANGED table /\ UNCHANGED <<writer, job>>
    BY <1>3 DEF FixReplaces, FixKeeps, FoldFails
  <2>7. fix' = [fix EXCEPT ![i] = Null]
    BY <1>3 DEF FixReplaces, FixKeeps, FoldFails, Fixed
  <2>5. TableType' /\ KnownGrows /\ WriterType'
    BY <2>4, TableStays, WriterStays DEF TypeInv
  <2>6. JobType'
    BY <2>2, <2>3, <2>4, <2>5 DEF TypeInv, JobType, Job, KnownGrows
  <2>8. PassType'
    BY <2>1, <2>5, <2>7, PassFixes DEF TypeInv
  <2> QED BY <2>5, <2>6, <2>8 DEF TypeInv
<1>4. CASE TombstoneFolded(i)
  <2>1. fix[i].into \in Ids
    BY <1>4 DEF TombstoneFolded, FixAt, TypeInv, PassType, Fix
  <2>2. fix' \in [Ids -> Fix \cup {Null}] /\ owed' \in SUBSET Ids /\ pass' = pass
    BY <1>4 DEF TombstoneFolded, Fixed, TypeInv, PassType
  <2>3. TableType' /\ KnownGrows
    BY <1>4, <2>1, SupersededType, RowChanges DEF TypeInv, TableType, TombstoneFolded, Stored
  <2>4. WriterType' /\ JobType'
    BY <1>4, <2>3, WriterStays, JobStays DEF TypeInv, TombstoneFolded
  <2>5. fix' = [fix EXCEPT ![i] = Null]
    BY <1>4 DEF TombstoneFolded, Fixed
  <2>6. PassType'
    BY <2>2, <2>3, <2>5, PassFixes DEF TypeInv
  <2> QED BY <2>3, <2>4, <2>6 DEF TypeInv
<1> QED BY <1>1, <1>2, <1>3, <1>4, FixRewritesTargetTypes DEF Enrich

LEMMA StartPassTypes ==
    ASSUME TypeInv, StartPass, ops' \in Nat
    PROVE  TypeInv'
<1> DEFINE cluster(c) == {i \in Ids : Live(i) /\ kind[i].class = c}
           found == {c \in Classes : Cardinality(cluster(c)) >= 2}
           opens(merged, links) ==
             pass' = [pc |-> "cluster", merge |-> merged, stranded |-> {}, links |-> links]
<1>0. PICK keep \in [Classes -> Ids] :
          /\ \A c \in Classes : IF c \in found THEN keep[c] \in cluster(c)
                                                ELSE keep[c] = CHOOSE i \in Ids : TRUE
          /\ \E merged \in {{}, IF LLMMerge THEN {keep[c] : c \in found} ELSE {}} :
                opens(merged, UNION {(cluster(c) \ {keep[c]}) \X {keep[c]} : c \in found})
  BY Zenon DEF StartPass
<1>1. PICK merged \in SUBSET Ids :
          /\ \A c \in found : keep[c] \in cluster(c)
          /\ merged \subseteq {keep[c] : c \in found}
          /\ opens(merged, UNION {(cluster(c) \ {keep[c]}) \X {keep[c]} : c \in found})
  <2>1. PICK merged \in {{}, IF LLMMerge THEN {keep[c] : c \in found} ELSE {}} :
          opens(merged, UNION {(cluster(c) \ {keep[c]}) \X {keep[c]} : c \in found})
    BY <1>0
  <2>2. \A c \in found : c \in Classes
    OBVIOUS
  <2> HIDE DEF cluster, found, opens
  <2>3. merged \subseteq {keep[c] : c \in found} /\ {keep[c] : c \in found} \subseteq Ids
    BY <2>1, <2>2
  <2>4. \A c \in found : keep[c] \in cluster(c)
    BY <1>0, <2>2
  <2> QED BY <2>1, <2>3, <2>4
<1>2. \A i \in merged : Known(i)
  <2>1. \A c \in found : Live(keep[c])
    BY <1>1
  <2> HIDE DEF cluster, found
  <2>2. TAKE i \in merged
  <2>3. PICK c \in found : i = keep[c]
    BY <1>1
  <2>4. Live(i) /\ i \in Ids
    BY <1>1, <2>1, <2>3
  <2> QED BY <2>4 DEF TypeInv, TableType, Live
<1>3. ASSUME NEW c \in found PROVE (cluster(c) \ {keep[c]}) \X {keep[c]} \subseteq Ids \X Ids
  <2>1. cluster(c) \ {keep[c]} \subseteq Ids /\ {keep[c]} \subseteq Ids
    BY <1>1
  <2> QED BY ONLY <2>1
<1>4. UNION {(cluster(c) \ {keep[c]}) \X {keep[c]} : c \in found} \in SUBSET (Ids \X Ids)
  BY <1>3
<1> HIDE DEF cluster, found
<1>5. pass' \in Pass /\ pass'.merge = merged
  BY <1>1, <1>4 DEF Pass
<1>6. TableType' /\ KnownGrows
  BY TableStays DEF TypeInv, StartPass
<1>7. WriterType' /\ JobType'
  BY <1>6, WriterStays, JobStays DEF TypeInv, StartPass
<1>8. PassType'
  BY <1>2, <1>5, <1>6 DEF TypeInv, PassType, KnownGrows, StartPass
<1> QED BY <1>6, <1>7, <1>8 DEF TypeInv

LEMMA StrandedType == Stranded \subseteq Ids
  BY DEF Stranded, Adrift

LEMMA MaintainTypes ==
    ASSUME TypeInv, Maintain, ops' \in Nat
    PROVE  TypeInv'
<1>1. CASE StartPass
  BY <1>1, StartPassTypes
<1>2. CASE ListStranded
  <2>1. TableType' /\ KnownGrows
    BY <1>2, TableStays DEF TypeInv, ListStranded
  <2>2. WriterType' /\ JobType'
    BY <1>2, <2>1, WriterStays, JobStays DEF TypeInv, ListStranded
  <2>3. pass \in Pass /\ pass # Null /\ pass' = [pass EXCEPT !.pc = "restore", !.merge = {}, !.stranded = Stranded]
    BY <1>2 DEF ListStranded, PassAt, TypeInv, PassType
  <2>4. pass' \in Pass /\ pass'.merge = {}
    BY <2>3, StrandedType DEF Pass
  <2>5. PassType'
    BY <1>2, <2>1, <2>4 DEF TypeInv, PassType, ListStranded, KnownGrows
  <2> QED BY <2>1, <2>2, <2>5 DEF TypeInv
<1>3. CASE EndPass
  <2>1. TableType' /\ KnownGrows
    BY <1>3, TableStays DEF TypeInv, EndPass
  <2>2. WriterType' /\ JobType' /\ PassType'
    BY <1>3, <2>1, WriterStays, JobStays DEF TypeInv, EndPass, PassType, KnownGrows
  <2> QED BY <2>1, <2>2 DEF TypeInv
<1>4. ASSUME NEW i \in Ids, MergeCluster(i) PROVE TypeInv'
  <2>1. Known(i) /\ pass \in Pass /\ pass # Null
    BY <1>4 DEF MergeCluster, PassAt, TypeInv, PassType
  <2>2. TableType' /\ KnownGrows
    BY <1>4, <2>1, FreshRow, UpsertType, RowChanges DEF TypeInv, TableType, MergeCluster, Stored
  <2>3. WriterType' /\ JobType'
    BY <1>4, <2>2, WriterStays, JobStays DEF TypeInv, MergeCluster
  <2>4. pass' \in Pass /\ pass'.merge = pass.merge \ {i}
    BY <1>4, <2>1 DEF MergeCluster, Pass
  <2>5. PassType'
    BY <1>4, <2>1, <2>2, <2>4 DEF TypeInv, PassType, Pass, MergeCluster, KnownGrows
  <2> QED BY <2>2, <2>3, <2>5 DEF TypeInv
<1>5. ASSUME NEW i \in Ids, Restore(i) PROVE TypeInv'
  <2>1. pass \in Pass /\ pass # Null
    BY <1>5 DEF Restore, PassAt, TypeInv, PassType
  <2>2. row' \in [Ids -> Row \cup {Null}] /\ \A j \in Ids : row'[j] # Null => row[j] # Null
    BY <1>5, FreshRow DEF Restore, TypeInv, TableType, Stored
  <2>3. TableType' /\ KnownGrows
    BY <1>5, <2>2, RowChanges DEF TypeInv, TableType, Restore, Stored
  <2>4. WriterType' /\ JobType'
    BY <1>5, <2>3, WriterStays, JobStays DEF TypeInv, Restore
  <2>5. pass' \in Pass /\ pass'.merge = pass.merge
    BY <1>5, <2>1 DEF Restore, Pass
  <2>6. PassType'
    BY <1>5, <2>1, <2>3, <2>5 DEF TypeInv, PassType, Pass, Restore, KnownGrows
  <2> QED BY <2>3, <2>4, <2>6 DEF TypeInv
<1>6. ASSUME NEW e \in Ids \X Ids, TombstoneDuplicate(e) PROVE TypeInv'
  <2>1. pass \in Pass /\ pass # Null
    BY <1>6 DEF TombstoneDuplicate, PassAt, TypeInv, PassType
  <2>2. TableType' /\ KnownGrows
    BY <1>6, SupersededType, RowChanges DEF TypeInv, TableType, TombstoneDuplicate, Stored
  <2>3. WriterType' /\ JobType'
    BY <1>6, <2>2, WriterStays, JobStays DEF TypeInv, TombstoneDuplicate
  <2>4. pass' \in Pass /\ pass'.merge = pass.merge
    BY <1>6, <2>1 DEF TombstoneDuplicate, Pass
  <2>5. PassType'
    BY <1>6, <2>1, <2>2, <2>4 DEF TypeInv, PassType, Pass, TombstoneDuplicate, KnownGrows
  <2> QED BY <2>2, <2>3, <2>5 DEF TypeInv
<1> QED BY <1>1, <1>2, <1>3, <1>4, <1>5, <1>6 DEF Maintain

LEMMA CrashTypes ==
    ASSUME TypeInv, Crash, ops' \in Nat
    PROVE  TypeInv'
<1>1. TableType'
  BY DEF TypeInv, TableType, Crash, Known, Stored
<1>2. WriterType' /\ JobType' /\ PassType'
  BY DEF TypeInv, PassType, WriterType, JobType, Crash
<1> QED BY <1>1, <1>2 DEF TypeInv

LEMMA NextTypes ==
    ASSUME TypeInv, Next
    PROVE  TypeInv'
<1>1. ops' \in Nat
  BY DEF Next, Disturb, Proceed, TypeInv
<1>2. ASSUME NEW w \in Writers, NewRequest(w) PROVE TypeInv'
  BY <1>1, <1>2, WriteHandoffTypes, WriteFactTypes, MergeSplitTypes,
     ConsolidateSyncTypes, ReadForEditTypes DEF NewRequest
<1>3. ASSUME NEW w \in Writers, Serve(w) PROVE TypeInv'
  BY <1>1, <1>3, ReadTargetTypes, FallThroughTypes, RewriteTargetTypes,
     TombstoneTargetTypes, RollbackTypes, WriteEditTypes, FailTypes, StoreTypes,
     StoreOverTypes DEF Serve
<1>4. CASE Caller
  BY <1>1, <1>4, DeleteTypes, SupersedeTypes DEF Caller
<1>5. CASE Crash
  BY <1>1, <1>5, CrashTypes
<1>6. CASE Consolidate \/ Maintain
  BY <1>1, <1>6, ConsolidateTypes, MaintainTypes
<1>7. ASSUME NEW i \in Ids, Enrich(i) PROVE TypeInv'
  BY <1>1, <1>7, EnrichTypes
<1>8. ASSUME NEW e \in Ids \X Ids, AutoSupersede(e) \/ DropSupersede(e) PROVE TypeInv'
  BY <1>1, <1>8, GoroutineTypes
<1> QED BY <1>2, <1>3, <1>4, <1>5, <1>6, <1>7, <1>8 DEF Next, Disturb, Proceed

LEMMA StutterTypes == ASSUME TypeInv, UNCHANGED vars PROVE TypeInv'
<1>1. TableType' /\ KnownGrows
  BY TableStays DEF vars, table, TypeInv
<1> QED BY <1>1, WriterStays, JobStays, PassStays DEF vars, TypeInv, PassType

LEMMA TypeInvariant == Spec => []TypeInv
<1>1. TypeInv /\ [Next]_vars => TypeInv'
  BY NextTypes, StutterTypes
<1> QED BY <1>1, InitType, PTL DEF Spec

\* Every variable keeps its type in every instance, whatever the settings: in
\* particular nobody acts on an id, a row or a cluster that was never there.
THEOREM TypeCorrect == Spec => []TypeOK
  BY TypeInvariant, TypeParts, PTL

(***************************************************************************)
(* Links, in an instance where no write degrades, no dedup pass runs and   *)
(* no caller links memories: the invariant LinksInv in parts.              *)
(***************************************************************************)
Quiet == Degrades = FALSE /\ DedupJob = FALSE /\ UserLinks = FALSE

IdleOK == owed = {} /\ pass = Null /\ \A i \in Ids : fix[i] = Null

RowOK == \A i \in Ids : Superseded(i) => Proper(i, row[i].by)

BgOK ==
    \A e \in bg : Proper(e[1], e[2]) /\ (conf.mode = "async" => ~DurableFact(e[1]))

Tidy(q) ==
    /\ q.late = FALSE
    /\ conf.mode # "sync" => q.pc \notin {"over", "stored"}
    /\ conf.mode = "async" /\ q.pc \in {"target", "rewrite"} => ~DurableFact(q.id)
    /\ \A o \in q.old : /\ Known(o)
                        /\ kind[o].slot = q.kind.slot
                        /\ conf.mode = "async" => ~DurableFact(o)
    /\ q.pc = "stored" => \A o \in q.old : Proper(o, q.id)
    /\ q.pc = "rewrite" /\ q.copy.by # Null => Proper(q.id, q.copy.by)
WritersOK == \A w \in Writers : writer[w] # Null => Tidy(writer[w])

QueueOK == \A n \in 1 .. Len(queue) : conf.mode = "async" /\ DurableFact(queue[n])

JobOK ==
    job # Null =>
        /\ conf.mode = "async"
        /\ job.id # job.target
        /\ DurableFact(job.id) /\ DurableFact(job.target)
        /\ Root(job.id) /\ Root(job.target)
        /\ job.copy.by = Null

Links ==
    /\ TypeInv
    /\ IdleOK
    /\ RowOK
    /\ BgOK
    /\ WritersOK
    /\ QueueOK
    /\ JobOK
    /\ NoPendingCycle

LEMMA LinksParts == Links => LinksInv
<1> SUFFICES ASSUME Links PROVE LinksInv
  OBVIOUS
<1>1. Placed
  BY TypeParts DEF Links
<1>2. Settled
  BY DEF Links, Settled, IdleOK, WritersOK, Tidy
<1>3. Succession
  BY DEF Links, Succession, RowOK, BgOK, WritersOK, Tidy
<1>4. \A w \in Writers : writer[w] # Null /\ conf.mode # "sync" =>
          writer[w].pc \notin {"over", "stored"}
  BY DEF Links, WritersOK, Tidy
<1>5. conf.mode = "async" =>
          \A w \in Writers : writer[w] # Null =>
              /\ \A o \in writer[w].old : ~DurableFact(o)
              /\ writer[w].pc \in {"target", "rewrite"} => ~DurableFact(writer[w].id)
  BY DEF Links, WritersOK, Tidy
<1>6. WorkerAlone
  BY <1>4, <1>5 DEF Links, WorkerAlone, BgOK, QueueOK, JobOK
<1>7. NoPendingCycle
  BY DEF Links
<1> QED BY <1>1, <1>2, <1>3, <1>6, <1>7 DEF LinksInv

LEMMA InitLinks == Init => Links
<1> SUFFICES ASSUME Init PROVE Links
  OBVIOUS
<1>1. IdleOK /\ RowOK /\ BgOK /\ WritersOK /\ QueueOK /\ JobOK
  BY DEF Init, IdleOK, RowOK, Superseded, Stored, BgOK, WritersOK, QueueOK, JobOK
<1>2. \A i, j \in Ids : ~Leads(i, j)
  BY DEF Init, Leads, Stored
<1>3. NoPendingCycle
  BY <1>2 DEF NoPendingCycle
<1> QED BY <1>1, <1>3, InitType DEF Links

(***************************************************************************)
(* What is known of an id does not change.                                 *)
(***************************************************************************)
KindKept ==
    \A i \in Ids : Known(i) =>
        /\ Known(i)'
        /\ kind'[i].slot = kind[i].slot
        /\ kind'[i].durable = kind[i].durable
        /\ age'[i] = age[i]

LEMMA ProperKept ==
    ASSUME KindKept, NEW o \in Ids, NEW n \in Ids, Proper(o, n)
    PROVE  Proper(o, n)'
  BY DEF KindKept, Proper, Known

LEMMA DurableKept ==
    ASSUME KindKept, NEW i \in Ids, Known(i)
    PROVE  DurableFact(i)' <=> DurableFact(i)
  BY DEF KindKept, DurableFact, Known

LEMMA TidyKept ==
    ASSUME KindKept, conf' = conf, NEW q \in Request, Tidy(q),
           q.pc \in {"target", "rewrite", "edit", "stored"} => q.id \in Ids /\ Known(q.id),
           q.pc \in {"rewrite", "edit"} => q.copy \in Row
    PROVE  Tidy(q)'
<1>1. \A o \in q.old : o \in Ids
  BY DEF Request
<1>2. \A o \in q.old : /\ Known(o)'
                       /\ kind'[o].slot = q.kind.slot
                       /\ conf'.mode = "async" => ~DurableFact(o)'
  BY <1>1, DurableKept DEF Tidy, KindKept
<1>3. q.pc = "stored" => \A o \in q.old : Proper(o, q.id)'
  BY <1>1, ProperKept DEF Tidy
<1>4. ASSUME q.pc = "rewrite", q.copy.by # Null PROVE Proper(q.id, q.copy.by)'
  <2>1. q.copy.by \in Ids
    BY <1>4 DEF Row
  <2> QED BY <1>4, <2>1, ProperKept DEF Tidy
<1>5. conf'.mode = "async" /\ q.pc \in {"target", "rewrite"} => ~DurableFact(q.id)'
  BY DurableKept DEF Tidy
<1> QED BY <1>2, <1>3, <1>4, <1>5 DEF Tidy

LEMMA KindStays == ASSUME UNCHANGED <<kind, age>> PROVE KindKept
  BY DEF KindKept, Known

(***************************************************************************)
(* Parts of the invariant that a step leaves alone, or takes from.         *)
(***************************************************************************)
LEMMA BgKept ==
    ASSUME Links, KindKept, conf' = conf, bg' \subseteq bg
    PROVE  BgOK'
<1> SUFFICES ASSUME NEW e \in bg
             PROVE  Proper(e[1], e[2])' /\ (conf.mode = "async" => ~DurableFact(e[1])')
  BY DEF BgOK
<1>1. e[1] \in Ids /\ e[2] \in Ids
  BY DEF Links, TypeInv, JobType
<1>2. Proper(e[1], e[2]) /\ Known(e[1])
  BY DEF Links, BgOK, Proper
<1> QED BY <1>1, <1>2, ProperKept, DurableKept DEF Links, BgOK

LEMMA RowCases ==
    ASSUME row' \in [Ids -> Row \cup {Null}],
           \A i, n \in Ids : Superseded(i)' /\ row'[i].by = n => Proper(i, n)'
    PROVE  RowOK'
<1> SUFFICES ASSUME NEW i \in Ids, Superseded(i)'
             PROVE  Proper(i, row[i].by)'
  BY DEF RowOK
<1>1. row'[i].by \in Ids
  BY DEF Superseded, Stored, Row
<1>2. PICK n \in Ids : n = row'[i].by
  BY <1>1
<1>3. Proper(i, n)'
  BY <1>2
<1> QED BY <1>2, <1>3 DEF Proper, Known

LEMMA RowKept ==
    ASSUME Links, KindKept, row' \in [Ids -> Row \cup {Null}],
           \A i \in Ids : Superseded(i)' => Superseded(i) /\ row'[i].by = row[i].by
    PROVE  RowOK'
<1> SUFFICES ASSUME NEW i \in Ids, NEW n \in Ids, Superseded(i)', n = row'[i].by
             PROVE  Proper(i, n)'
  BY RowCases
<1>1. Superseded(i) /\ row[i].by = n
  OBVIOUS
<1>2. Proper(i, n)
  BY <1>1 DEF Links, RowOK
<1> QED BY <1>2, ProperKept

LEMMA QueueKept ==
    ASSUME Links, KindKept, conf' = conf, queue' = queue
    PROVE  QueueOK'
<1> SUFFICES ASSUME NEW n \in 1 .. Len(queue)
             PROVE  conf'.mode = "async" /\ DurableFact(queue[n])'
  BY DEF QueueOK
<1>1. queue[n] \in Ids /\ DurableFact(queue[n]) /\ conf.mode = "async"
  BY DEF Links, QueueOK, TypeInv, JobType
<1> QED BY <1>1, DurableKept DEF DurableFact

LEMMA WriterCases ==
    ASSUME \A w \in Writers : \A q : writer'[w] = q /\ q # Null => Tidy(q)'
    PROVE  WritersOK'
  BY DEF WritersOK, Tidy

\* A request of the invariant that a step leaves as it is.
LEMMA RequestKept ==
    ASSUME Links, KindKept, conf' = conf, NEW w \in Writers, writer[w] # Null
    PROVE  \A q : q = writer[w] => Tidy(q)'
<1> SUFFICES ASSUME NEW q, q = writer[w] PROVE Tidy(q)'
  OBVIOUS
<1>1. q \in Request /\ Tidy(q)
  BY DEF Links, WritersOK, TypeInv, WriterType
<1>2. /\ q.pc \in {"target", "rewrite", "edit", "stored"} => q.id \in Ids /\ Known(q.id)
      /\ q.pc \in {"rewrite", "edit"} => q.copy \in Row
  BY DEF Links, TypeInv, WriterType, Sound
<1> QED BY <1>1, <1>2, TidyKept

LEMMA WritersKept ==
    ASSUME Links, KindKept, conf' = conf,
           \A w \in Writers : writer'[w] = writer[w] \/ writer'[w] = Null
    PROVE  WritersOK'
  BY WriterCases, RequestKept

LEMMA WriterSet ==
    ASSUME Links, KindKept, conf' = conf, NEW w \in Writers, NEW q,
           writer' = [writer EXCEPT ![w] = q], q = Null \/ Tidy(q)'
    PROVE  WritersOK'
<1> SUFFICES ASSUME NEW v \in Writers, NEW p, writer'[v] = p, p # Null PROVE Tidy(p)'
  BY WriterCases
<1>1. CASE v = w
  <2>1. p = q
    BY <1>1 DEF Links, TypeInv, WriterType
  <2> QED BY <2>1
<1>2. CASE v # w
  <2>1. p = writer[v]
    BY <1>2 DEF Links, TypeInv, WriterType
  <2> QED BY <2>1, RequestKept
<1> QED BY <1>1, <1>2

\* The job goes on with the same two memories, neither of which gets a successor.
LEMMA JobKept ==
    ASSUME Links, KindKept, conf' = conf,
           \/ job' = Null
           \/ /\ job # Null /\ job'.copy.by = Null
              /\ job'.id = job.id /\ job'.target = job.target,
           \A i \in Ids : DurableFact(i) /\ Root(i) /\ conf.mode = "async" => Root(i)'
    PROVE  JobOK'
<1>1. CASE job' = Null
  BY <1>1 DEF JobOK
<1>2. CASE job' # Null
  <2>1. PICK i \in Ids, t \in Ids : i = job.id /\ t = job.target /\ i = job'.id /\ t = job'.target
    BY <1>2 DEF Links, TypeInv, JobType, Job
  <2>2. job # Null /\ conf.mode = "async" /\ i # t /\ job'.copy.by = Null
    BY <1>2, <2>1 DEF Links, JobOK
  <2>3. DurableFact(i) /\ DurableFact(t) /\ Root(i) /\ Root(t)
    BY <2>1, <2>2 DEF Links, JobOK
  <2>4. DurableFact(i)' /\ DurableFact(t)' /\ Root(i)' /\ Root(t)'
    BY <2>2, <2>3, DurableKept DEF DurableFact
  <2> QED BY <2>1, <2>2, <2>4 DEF JobOK, DurableFact, Known, Root, Stored
<1> QED BY <1>1, <1>2

(***************************************************************************)
(* Cycles.  A step that adds no edge closes no cycle; neither does one all *)
(* of whose new edges lead to a memory that has no successor.              *)
(***************************************************************************)
RowEdge(i, j) == Stored(i) /\ row[i].by = j
WriterEdge(i, j) ==
    \E w \in Writers :
        /\ writer[w] # Null
        /\ \/ writer[w].pc = "stored" /\ i \in writer[w].old /\ writer[w].id = j
           \/ writer[w].pc = "rewrite" /\ writer[w].id = i /\ writer[w].copy.by = j

LEMMA LeadsParts ==
    ASSUME NEW i, NEW j
    PROVE  /\ Leads(i, j) <=> RowEdge(i, j) \/ <<i, j>> \in bg \/ WriterEdge(i, j)
           /\ Leads(i, j)' <=> RowEdge(i, j)' \/ <<i, j>> \in bg' \/ WriterEdge(i, j)'
  BY DEF Leads, RowEdge, WriterEdge

LEMMA EdgesShrink ==
    ASSUME NoPendingCycle, \A i, j \in Ids : Leads(i, j)' => Leads(i, j)
    PROVE  NoPendingCycle'
  BY DEF NoPendingCycle

LEMMA EdgesGrow ==
    ASSUME NoPendingCycle, NEW t \in Ids,
           \A i, j \in Ids : Leads(i, j)' => Leads(i, j) \/ j = t,
           \A j \in Ids : ~Leads(t, j)'
    PROVE  NoPendingCycle'
<1> SUFFICES ASSUME NEW S \in SUBSET Ids, S # {}
             PROVE  \E i \in S : \A j \in S : ~Leads(i, j)'
  BY DEF NoPendingCycle
<1>1. CASE t \in S
  BY <1>1
<1>2. CASE t \notin S
  <2>1. PICK i \in S : \A j \in S : ~Leads(i, j)
    BY DEF NoPendingCycle
  <2> QED BY <1>2, <2>1
<1> QED BY <1>1, <1>2

\* A request that answers, or goes on to a point where it holds no edge.
LEMMA WriterEdgesShrink ==
    ASSUME \A w \in Writers : \/ writer'[w] = writer[w]
                              \/ writer'[w] = Null
                              \/ writer'[w].pc \notin {"stored", "rewrite"}
    PROVE  \A i, j \in Ids : WriterEdge(i, j)' => WriterEdge(i, j)
  BY DEF WriterEdge

\* In async mode a long-term fact leads nowhere but to what has replaced it.
LEMMA AsyncRoot ==
    ASSUME Links, conf.mode = "async", NEW i \in Ids, DurableFact(i), NEW j \in Ids
    PROVE  <<i, j>> \notin bg /\ ~WriterEdge(i, j)
<1>1. <<i, j>> \notin bg
  BY DEF Links, BgOK
<1>2. ~WriterEdge(i, j)
  BY DEF Links, WritersOK, Tidy, WriterEdge
<1> QED BY <1>1, <1>2

\* Nothing leads from an id that has never been stored.
LEMMA NewIsRoot ==
    ASSUME Links, NEW i \in Ids, ~Known(i), NEW j \in Ids
    PROVE  ~RowEdge(i, j) /\ <<i, j>> \notin bg /\ ~WriterEdge(i, j)
<1>1. ~RowEdge(i, j)
  BY DEF Links, TypeInv, TableType, RowEdge
<1>2. <<i, j>> \notin bg
  BY DEF Links, BgOK, Proper
<1>3. ~WriterEdge(i, j)
  BY DEF Links, WritersOK, Tidy, TypeInv, WriterType, Sound, WriterEdge
<1> QED BY <1>1, <1>2, <1>3

(***************************************************************************)
(* One lemma per action: it keeps the links in order.                      *)
(***************************************************************************)

\* A step that changes nothing but one handler's request, which gets no edge.
LEMMA RequestLinks ==
    ASSUME Links, TypeInv', UNCHANGED table, UNCHANGED memory,
           NEW w \in Writers, NEW q, writer' = [writer EXCEPT ![w] = q],
           q = Null \/ Tidy(q),
           q # Null => q \in Request,
           q # Null => q.pc \notin {"stored", "rewrite"},
           q # Null /\ q.pc \in {"target", "edit"} => q.id \in Ids /\ Known(q.id),
           q # Null /\ q.pc = "edit" => q.copy \in Row
    PROVE  Links'
<1>1. KindKept /\ conf' = conf
  BY KindStays DEF table
<1>2. row' = row /\ bg' = bg /\ queue' = queue /\ job' = job /\ owed' = owed
      /\ fix' = fix /\ pass' = pass
  BY DEF table, memory
<1>3. IdleOK' /\ RowOK' /\ BgOK' /\ QueueOK'
  BY <1>1, <1>2, RowKept, BgKept, QueueKept
  DEF Links, IdleOK, TypeInv, TableType, Superseded, Stored
<1>4. JobOK'
  BY <1>1, <1>2, JobKept DEF Root, Stored, Links, JobOK
<1>5. q = Null \/ Tidy(q)'
  BY <1>1, TidyKept
<1>6. WritersOK'
  BY <1>1, <1>5, WriterSet
<1>7. \A v \in Writers : \/ writer'[v] = writer[v]
                         \/ writer'[v] = Null
                         \/ writer'[v].pc \notin {"stored", "rewrite"}
  BY DEF Links, TypeInv, WriterType
<1>8. \A i, j \in Ids : Leads(i, j)' => Leads(i, j)
  BY <1>2, <1>7, WriterEdgesShrink, LeadsParts DEF RowEdge, Stored
<1>9. NoPendingCycle'
  BY <1>8, EdgesShrink DEF Links
<1> QED BY <1>3, <1>4, <1>6, <1>9 DEF Links

\* What a request may be about to replace.
Replaceable(old, k) ==
    \A o \in old : /\ Known(o) /\ kind[o].slot = k.slot
                   /\ conf.mode = "async" => ~DurableFact(o)

LEMMA BeginLinks ==
    ASSUME Links, TypeInv', NEW w \in Writers, NEW p \in {"decided", "target", "over", "edit"},
           NEW k \in Kind, NEW id \in Ids \cup {Null}, NEW old \in SUBSET Ids,
           NEW copy \in Row \cup {Null},
           Begin(w, p, k, id, old, FALSE, copy),
           p \in {"target", "edit"} => id \in Ids /\ Known(id),
           p = "edit" => copy \in Row,
           conf.mode # "sync" => p # "over",
           conf.mode = "async" /\ p = "target" => ~DurableFact(id),
           Replaceable(old, k)
    PROVE  Links'
<1> DEFINE next == [pc |-> p, kind |-> k, id |-> id, old |-> old, late |-> FALSE, copy |-> copy]
<1>1. PICK q \in Request : q = next
  BY DEF Request
<1>2. q.pc = p /\ q.kind = k /\ q.id = id /\ q.old = old /\ q.late = FALSE /\ q.copy = copy
  BY <1>1
<1>3. writer' = [writer EXCEPT ![w] = q] /\ UNCHANGED table /\ UNCHANGED memory
  BY <1>1 DEF Begin
<1> HIDE DEF next
<1>4. Tidy(q)
  BY <1>2 DEF Tidy, Replaceable
<1> QED BY <1>2, <1>3, <1>4, RequestLinks

LEMMA GateReplaceable ==
    ASSUME Links, NEW k \in Kind, k.slot = Fact, NEW late, Gated(k, late),
           NEW old \in Gate(k) \cup Singletons(Near(k))
    PROVE  old \in SUBSET Ids /\ Replaceable(old, k)
<1>1. Near(k) \subseteq Ids /\ old \subseteq Near(k)
  BY DEF Gate, Singletons, Near
<1>2. ~Consolidated(k)
  BY DEF Gated
<1> QED BY <1>1, <1>2, NearType DEF Replaceable, Links, Consolidated, DurableFact

LEMMA NewRequestLinks ==
    ASSUME Links, TypeInv', Quiet, NEW w \in Writers, NewRequest(w)
    PROVE  Links'
<1>1. Lateness = {FALSE}
  BY DEF Quiet, Lateness
<1>2. CASE WriteHandoff(w)
  <2>1. PICK k \in Kind, old \in SUBSET Ids :
            /\ k.slot # Fact /\ old \in {Current(k.slot), {}}
            /\ Begin(w, "decided", k, Null, old, FALSE, Null)
    BY <1>1, <1>2 DEF WriteHandoff, Current
  <2>2. Replaceable(old, k)
    BY <2>1 DEF Replaceable, Current, Live, Links, TypeInv, TableType, DurableFact
  <2>3. PICK p \in {"decided", "target", "over", "edit"} : p = "decided"
    OBVIOUS
  <2>4. PICK copy \in Row \cup {Null}, id \in Ids \cup {Null} : copy = Null /\ id = Null
    OBVIOUS
  <2>5. Begin(w, p, k, id, old, FALSE, copy)
    BY <2>1, <2>3, <2>4
  <2>6. p \notin {"target", "edit"} /\ p # "over"
    BY <2>3
  <2> QED BY <2>2, <2>5, <2>6, BeginLinks
<1>3. CASE WriteFact(w)
  <2>1. PICK k \in Kind, late \in Lateness :
            /\ k.slot = Fact
            /\ \E old \in IF ~Gated(k, late) THEN {{}}
                          ELSE Gate(k) \cup (IF Ambiguous(k) THEN Singletons(Near(k)) ELSE {}) :
                  Begin(w, "decided", k, Null, old, late, Null)
    BY <1>3 DEF WriteFact
  <2>2. late = FALSE
    BY <1>1
  <2>3. PICK old : /\ old = {} \/ (Gated(k, late) /\ old \in Gate(k) \cup Singletons(Near(k)))
                   /\ Begin(w, "decided", k, Null, old, FALSE, Null)
    BY <2>1, <2>2
  <2>4. old \in SUBSET Ids /\ Replaceable(old, k)
    BY <2>1, <2>3, GateReplaceable DEF Replaceable
  <2> QED BY <2>3, <2>4, BeginLinks
<1>6. CASE MergeSplit(w)
  <2>1. PICK k \in Kind : \E t \in Near(k), old \in Gate(k) :
            /\ k.slot = Fact /\ Gated(k, FALSE)
            /\ Begin(w, "target", k, t, old, FALSE, Null)
    BY <1>6 DEF MergeSplit
  <2>2. PICK t \in Near(k), old \in Gate(k) : Begin(w, "target", k, t, old, FALSE, Null)
    BY <2>1
  <2>3. k.slot = Fact /\ Gated(k, FALSE)
    BY <2>1
  <2>4. old \in SUBSET Ids /\ Replaceable(old, k)
    BY <2>3, GateReplaceable
  <2>5. t \in Ids /\ Known(t) /\ kind[t].durable = k.durable
    BY NearType DEF Links
  <2>6. conf.mode = "async" => ~DurableFact(t)
    BY <2>3, <2>5 DEF Gated, Consolidated, DurableFact
  <2> QED BY <2>2, <2>4, <2>5, <2>6, BeginLinks
<1>4. CASE ConsolidateSync(w)
  <2>1. PICK k \in Kind, t \in Ids, verdict \in {"target", "over"} :
            /\ k.slot = Fact /\ t \in Near(k) /\ conf.mode = "sync"
            /\ Begin(w, verdict, k, t, IF verdict = "over" THEN {t} ELSE {}, FALSE, Null)
    BY <1>4 DEF ConsolidateSync, Near
  <2>2. Known(t) /\ kind[t].slot = Fact
    BY <2>1, NearType DEF Links
  <2>3. PICK old \in SUBSET Ids :
            old \subseteq {t} /\ Begin(w, verdict, k, t, old, FALSE, Null)
    BY <2>1
  <2>4. Replaceable(old, k)
    BY <2>1, <2>2, <2>3 DEF Replaceable
  <2>5. conf.mode = "sync" /\ conf.mode # "async"
    BY <1>4 DEF ConsolidateSync
  <2>6. PICK p \in {"decided", "target", "over", "edit"} : p = verdict /\ p # "edit"
    BY <2>1
  <2>7. PICK copy \in Row \cup {Null}, id \in Ids \cup {Null} : copy = Null /\ id = t
    OBVIOUS
  <2>8. Begin(w, p, k, id, old, FALSE, copy) /\ id \in Ids /\ Known(id)
    BY <2>2, <2>3, <2>6, <2>7
  <2> QED BY <2>4, <2>5, <2>6, <2>8, BeginLinks
<1>5. ASSUME NEW i \in Ids, ReadForEdit(w, i) PROVE Links'
  <2>1. Begin(w, "edit", kind[i], i, {}, FALSE, row[i]) /\ Stored(i)
    BY <1>1, <1>5 DEF ReadForEdit
  <2>2. PICK k \in Kind, copy \in Row : k = kind[i] /\ copy = row[i]
    BY <2>1 DEF Links, TypeInv, TableType, Stored, Known
  <2>3. PICK old \in SUBSET Ids : old = {}
    OBVIOUS
  <2>4. Begin(w, "edit", k, i, old, FALSE, copy)
    BY <2>1, <2>2, <2>3
  <2>5. Known(i)
    BY <2>1 DEF Links, TypeInv, TableType
  <2> QED BY <2>3, <2>4, <2>5, BeginLinks DEF Replaceable
<1> QED BY <1>2, <1>3, <1>4, <1>5, <1>6 DEF NewRequest

\* A request that stores over a target is of sync mode.
LEMMA SyncRequest ==
    ASSUME Links, NEW w \in Writers, writer[w] # Null, writer[w].pc \in {"over", "stored"}
    PROVE  conf.mode = "sync" /\ job = Null
<1>1. conf.mode = "sync"
  BY DEF Links, WritersOK, Tidy
<1>2. conf.mode # "async"
  BY <1>1
<1> QED BY <1>1, <1>2 DEF Links, JobOK

\* The job as it is.
LEMMA SameJob ==
    ASSUME Links, job' = job
    PROVE  \/ job' = Null
           \/ /\ job # Null /\ job'.copy.by = Null
              /\ job'.id = job.id /\ job'.target = job.target
  BY DEF Links, JobOK

LEMMA DecidedLinks ==
    ASSUME Links, TypeInv', NEW w \in Writers, writer[w] # Null,
           writer' = [writer EXCEPT ![w].pc = "decided"], UNCHANGED <<table, memory>>
    PROVE  Links'
<1> DEFINE W == writer[w]
<1>1. W \in Request /\ Tidy(W)
  BY DEF Links, TypeInv, WriterType, WritersOK
<1>2. PICK q \in Request : q = [W EXCEPT !.pc = "decided"]
  BY <1>1 DEF Request
<1>3. q.pc = "decided" /\ q.old = W.old /\ q.late = W.late /\ q.kind = W.kind
  BY <1>1, <1>2 DEF Request
<1>4. writer' = [writer EXCEPT ![w] = q]
  BY <1>2 DEF Links, TypeInv, WriterType
<1>5. Tidy(q)
  BY <1>1, <1>3 DEF Tidy
<1> HIDE <1>2
<1> QED BY <1>3, <1>4, <1>5, RequestLinks

LEMMA FallThroughLinks ==
    ASSUME Links, TypeInv', NEW w \in Writers, FallThrough(w)
    PROVE  Links'
  BY DecidedLinks DEF FallThrough

LEMMA ReadTargetLinks ==
    ASSUME Links, TypeInv', NEW w \in Writers, ReadTarget(w)
    PROVE  Links'
<1> DEFINE W == writer[w]
<1>1. W \in Request /\ W # Null /\ W.pc = "target" /\ W.id \in Ids /\ Known(W.id) /\ Tidy(W)
  BY DEF Links, TypeInv, ReadTarget, WriterType, Sound, WritersOK
<1>3. UNCHANGED table /\ UNCHANGED memory
  BY DEF ReadTarget
<1>4. CASE ~Stored(W.id)
  <2>1. writer' = [writer EXCEPT ![w].pc = "decided"]
    BY <1>4 DEF ReadTarget, Links, TypeInv, WriterType
  <2> QED BY <1>1, <1>3, <2>1, DecidedLinks
<1>5. CASE Stored(W.id)
  <2>1. row[W.id] \in Row
    BY <1>1, <1>5 DEF Links, TypeInv, TableType, Stored
  <2>2. PICK q \in Request : q = [W EXCEPT !.pc = "rewrite", !.copy = row[W.id]]
    BY <1>1, <2>1 DEF Request
  <2>3. /\ q.pc = "rewrite" /\ q.copy = row[W.id] /\ q.id = W.id
        /\ q.old = W.old /\ q.kind = W.kind /\ q.late = W.late
    BY <1>1, <2>2 DEF Request
  <2>4. writer' = [writer EXCEPT ![w] = q]
    BY <1>5, <2>2 DEF ReadTarget, Links, TypeInv, WriterType
  <2>5. q.copy.by # Null => Proper(q.id, q.copy.by)
    BY <1>1, <1>5, <2>3 DEF Links, RowOK, Superseded
  <2>6. Tidy(q)
    BY <1>1, <2>3, <2>5 DEF Tidy
  <2>7. KindKept /\ conf' = conf
    BY <1>3, KindStays DEF table
  <2>8. row' = row /\ bg' = bg /\ queue' = queue /\ job' = job /\ owed' = owed
        /\ fix' = fix /\ pass' = pass
    BY <1>3 DEF table, memory
  <2>9. IdleOK' /\ RowOK' /\ BgOK' /\ QueueOK' /\ JobOK'
    BY <2>7, <2>8, RowKept, BgKept, QueueKept, JobKept, SameJob
    DEF Links, IdleOK, TypeInv, TableType, Superseded, Stored, Root
  <2>10. Tidy(q)'
    BY <1>1, <2>1, <2>3, <2>6, <2>7, TidyKept
  <2>11. WritersOK'
    BY <2>4, <2>7, <2>10, WriterSet
  <2>12. ASSUME NEW i \in Ids, NEW j \in Ids, WriterEdge(i, j)'
         PROVE  WriterEdge(i, j) \/ RowEdge(i, j)
    <3>1. PICK v \in Writers :
             /\ writer'[v] # Null
             /\ \/ writer'[v].pc = "stored" /\ i \in writer'[v].old /\ writer'[v].id = j
                \/ writer'[v].pc = "rewrite" /\ writer'[v].id = i /\ writer'[v].copy.by = j
      BY <2>12 DEF WriterEdge
    <3>2. CASE v = w
      <4>1. writer'[v] = q
        BY <2>4, <3>2 DEF Links, TypeInv, WriterType
      <4> QED BY <1>1, <1>5, <2>3, <3>1, <4>1 DEF RowEdge
    <3>3. CASE v # w
      <4>1. writer'[v] = writer[v]
        BY <2>4, <3>3 DEF Links, TypeInv, WriterType
      <4> QED BY <3>1, <4>1 DEF WriterEdge
    <3> QED BY <3>2, <3>3
  <2>13. \A i, j \in Ids : Leads(i, j)' => Leads(i, j)
    BY <2>8, <2>12, LeadsParts DEF RowEdge, Stored
  <2>14. NoPendingCycle'
    BY <2>13, EdgesShrink DEF Links
  <2> QED BY <2>9, <2>11, <2>14 DEF Links
<1> QED BY <1>4, <1>5

\* A step that only takes from what actors hold, and writes no link that was not
\* on its way already.
LEMMA ShrinkLinks ==
    ASSUME Links, TypeInv', KindKept, conf' = conf, queue' = queue, bg' \subseteq bg,
           IdleOK', RowOK',
           \A w \in Writers : writer'[w] = writer[w] \/ writer'[w] = Null,
           \/ job' = Null
           \/ /\ job # Null /\ job'.copy.by = Null
              /\ job'.id = job.id /\ job'.target = job.target,
           \A i \in Ids : DurableFact(i) /\ Root(i) /\ conf.mode = "async" => Root(i)',
           \A i, j \in Ids : RowEdge(i, j)' => Leads(i, j)
    PROVE  Links'
<1>1. BgOK' /\ QueueOK' /\ WritersOK' /\ JobOK'
  BY BgKept, QueueKept, WritersKept, JobKept
<1>2. \A i, j \in Ids : WriterEdge(i, j)' => WriterEdge(i, j)
  BY WriterEdgesShrink
<1>3. \A i, j \in Ids : Leads(i, j)' => Leads(i, j)
  BY <1>2, LeadsParts
<1>4. NoPendingCycle'
  BY <1>3, EdgesShrink DEF Links
<1> QED BY <1>1, <1>4 DEF Links

\* Where a step leaves the successors of rows as they are, or clears them.
LEMMA NoNewLink ==
    ASSUME Links, TypeInv', KindKept,
           \A i \in Ids : \/ row'[i] = row[i]
                          \/ row'[i] = Null
                          \/ row'[i].by = Null
    PROVE  /\ RowOK'
           /\ \A i \in Ids : DurableFact(i) /\ Root(i) /\ conf.mode = "async" => Root(i)'
           /\ \A i, j \in Ids : RowEdge(i, j)' => Leads(i, j)
<1>1. \A i \in Ids : Superseded(i)' => Superseded(i) /\ row'[i].by = row[i].by
  BY DEF Superseded, Stored
<1>2. row' \in [Ids -> Row \cup {Null}]
  BY DEF TypeInv, TableType
<1>3. RowOK'
  BY <1>1, <1>2, RowKept
<1>4. \A i, j \in Ids : RowEdge(i, j)' => RowEdge(i, j)
  BY NullApart DEF RowEdge, Stored
<1> QED BY <1>3, <1>4, LeadsParts DEF Root, Stored

LEMMA AnswerShape ==
    ASSUME TypeInv, NEW w \in Writers, Answer(w)
    PROVE  \A v \in Writers : writer'[v] = writer[v] \/ writer'[v] = Null
  BY DEF TypeInv, WriterType, Answer

LEMMA RewriteTargetLinks ==
    ASSUME Links, TypeInv', NEW w \in Writers, RewriteTarget(w)
    PROVE  Links'
<1> DEFINE W == writer[w]
<1>1. W # Null /\ W.pc = "rewrite" /\ W.id \in Ids /\ W.copy \in Row /\ Tidy(W)
  BY DEF Links, TypeInv, RewriteTarget, WriterType, Sound, WritersOK
<1>2. conf.mode = "async" => ~DurableFact(W.id)
  BY <1>1 DEF Tidy
<1>3. KindKept /\ conf' = conf /\ queue' = queue /\ bg' \subseteq bg /\ IdleOK' /\ job' = job
  BY KindStays DEF RewriteTarget, memory, Links, IdleOK
<1>4. row' = [row EXCEPT ![W.id] = W.copy]
  BY DEF RewriteTarget, Upsert
<1>5. row' \in [Ids -> Row \cup {Null}]
  BY DEF TypeInv, TableType
<1>6. ASSUME NEW i \in Ids, NEW n \in Ids, RowEdge(i, n)'
      PROVE  Leads(i, n) /\ Proper(i, n)'
  <2>1. CASE i = W.id
    <3>1. W.copy.by = n /\ n # Null
      BY <1>1, <1>4, <1>6, <2>1, NullApart DEF RowEdge, Links, TypeInv, TableType
    <3>2. Proper(i, n) /\ WriterEdge(i, n)
      BY <1>1, <2>1, <3>1 DEF Tidy, WriterEdge
    <3> QED BY <1>3, <3>2, ProperKept, LeadsParts
  <2>2. CASE i # W.id
    <3>1. RowEdge(i, n)
      BY <1>1, <1>4, <1>6, <2>2 DEF RowEdge, Stored, Links, TypeInv, TableType
    <3>2. Proper(i, n)
      BY <3>1, NullApart DEF RowEdge, Links, RowOK, Superseded
    <3> QED BY <1>3, <3>1, <3>2, ProperKept, LeadsParts
  <2> QED BY <2>1, <2>2
<1>7. RowOK'
  BY <1>5, <1>6, RowCases DEF Superseded, RowEdge
<1>8. \A v \in Writers : writer'[v] = writer[v] \/ writer'[v] = Null
  BY AnswerShape DEF RewriteTarget, Links
<1>9. ASSUME NEW i \in Ids, DurableFact(i), Root(i), conf.mode = "async" PROVE Root(i)'
  <2>1. i # W.id
    BY <1>2, <1>9
  <2>2. row'[i] = row[i]
    BY <1>4, <2>1 DEF Links, TypeInv, TableType
  <2> QED BY <1>9, <2>2 DEF Root, Stored
<1> QED BY <1>3, <1>6, <1>7, <1>8, <1>9, SameJob, ShrinkLinks

LEMMA TombstoneTargetLinks ==
    ASSUME Links, TypeInv', NEW w \in Writers, TombstoneTarget(w)
    PROVE  Links'
<1> DEFINE W == writer[w]
<1>1. /\ W # Null /\ W.pc = "stored" /\ W.id \in Ids /\ Tidy(W)
      /\ \A t \in W.old : t \in Ids
  BY DEF Links, TypeInv, TombstoneTarget, WriterType, Sound, WritersOK, Request
<1>2. conf.mode = "sync" /\ job = Null
  BY <1>1, SyncRequest
<1>3. KindKept /\ conf' = conf /\ queue' = queue /\ bg' \subseteq bg /\ IdleOK' /\ job' = Null
  BY <1>2, KindStays DEF TombstoneTarget, memory, Links, IdleOK
<1>4. PICK t \in Ids : t \in W.old /\ SetSuperseded(t, W.id)
  BY <1>1 DEF TombstoneTarget
<1>5. row' \in [Ids -> Row \cup {Null}]
  BY DEF TypeInv, TableType
<1>6. ASSUME NEW i \in Ids, NEW n \in Ids, RowEdge(i, n)'
      PROVE  Leads(i, n) /\ Proper(i, n)'
  <2>1. RowEdge(i, n) \/ (i = t /\ n = W.id)
    BY <1>4, <1>6 DEF RowEdge, Stored, SetSuperseded, Links, TypeInv, TableType
  <2>2. CASE RowEdge(i, n)
    <3>1. Proper(i, n)
      BY <2>2, NullApart DEF RowEdge, Links, RowOK, Superseded
    <3> QED BY <1>3, <2>2, <3>1, ProperKept, LeadsParts
  <2>3. CASE i = t /\ n = W.id
    <3>1. Proper(i, n) /\ WriterEdge(i, n)
      BY <1>1, <1>4, <2>3 DEF Tidy, WriterEdge
    <3> QED BY <1>3, <3>1, ProperKept, LeadsParts
  <2> QED BY <2>1, <2>2, <2>3
<1>7. RowOK'
  BY <1>5, <1>6, RowCases DEF Superseded, RowEdge
<1>8. \A v \in Writers : writer'[v] = writer[v] \/ writer'[v] = Null
  BY AnswerShape DEF TombstoneTarget, Links
<1>9. conf.mode # "async"
  BY <1>2
<1> QED BY <1>3, <1>6, <1>7, <1>8, <1>9, ShrinkLinks

LEMMA RollbackLinks ==
    ASSUME Links, TypeInv', NEW w \in Writers, Rollback(w)
    PROVE  Links'
<1>1. KindKept /\ conf' = conf /\ queue' = queue /\ bg' \subseteq bg /\ IdleOK' /\ job' = job
  BY KindStays DEF Rollback, memory, Links, IdleOK
<1>2. \A i \in Ids : row'[i] = row[i] \/ row'[i] = Null
  BY DEF Rollback, Upsert, Links, TypeInv, TableType
<1>3. \A v \in Writers : writer'[v] = writer[v] \/ writer'[v] = Null
  BY AnswerShape DEF Rollback, Links
<1> QED BY <1>1, <1>2, <1>3, NoNewLink, SameJob, ShrinkLinks

LEMMA FailLinks ==
    ASSUME Links, TypeInv', NEW w \in Writers, Fail(w)
    PROVE  Links'
<1>1. KindKept /\ conf' = conf /\ queue' = queue /\ bg' \subseteq bg /\ IdleOK'
      /\ job' = job /\ row' = row
  BY KindStays DEF Fail, table, memory, Links, IdleOK
<1>2. \A v \in Writers : writer'[v] = writer[v] \/ writer'[v] = Null
  BY AnswerShape DEF Fail, Links
<1> QED BY <1>1, <1>2, NoNewLink, SameJob, ShrinkLinks

LEMMA WriteEditLinks ==
    ASSUME Links, TypeInv', NEW w \in Writers, WriteEdit(w)
    PROVE  Links'
<1> DEFINE W == writer[w]
<1>1. W.id \in Ids /\ Known(W.id) /\ W.late = FALSE
  BY DEF Links, TypeInv, WriteEdit, WriterType, Sound, WritersOK, Tidy
<1>2. kind[W.id] \in Kind
  BY <1>1 DEF Links, TypeInv, TableType, Known
<1>3. PICK c \in Classes : kind' = [kind EXCEPT ![W.id].class = c]
  BY DEF WriteEdit
<1>4. kind'[W.id].slot = kind[W.id].slot /\ kind'[W.id].durable = kind[W.id].durable
  BY <1>1, <1>2, <1>3 DEF Links, TypeInv, TableType, Kind
<1>5. \A i \in Ids : i # W.id => kind'[i] = kind[i]
  BY <1>3 DEF Links, TypeInv, TableType
<1>6. \A i \in Ids : Known(i) <=> Known(i)'
  BY DEF WriteEdit, Links, TypeInv, TableType
<1>7. KindKept
  BY <1>4, <1>5, <1>6 DEF KindKept, WriteEdit
<1>8. conf' = conf /\ queue' = queue /\ bg' \subseteq bg /\ job' = job
  BY DEF WriteEdit
<1>9. IdleOK'
  BY <1>1 DEF WriteEdit, Links, IdleOK
<1>10. \A i \in Ids : row'[i] = row[i] \/ row'[i].by = Null
  BY DEF WriteEdit, Upsert, Links, TypeInv, TableType
<1>11. \A v \in Writers : writer'[v] = writer[v] \/ writer'[v] = Null
  BY AnswerShape DEF WriteEdit, Links
<1> QED BY <1>7, <1>8, <1>9, <1>10, <1>11, NoNewLink, SameJob, ShrinkLinks

LEMMA DeleteLinks ==
    ASSUME Links, TypeInv', NEW i \in Ids, Delete(i)
    PROVE  Links'
<1>1. KindKept /\ conf' = conf /\ queue' = queue /\ bg' \subseteq bg /\ IdleOK'
      /\ job' = job /\ writer' = writer
  BY KindStays DEF Delete, Links, IdleOK
<1>2. \A j \in Ids : row'[j] = row[j] \/ row'[j] = Null
  BY DEF Delete, Upsert, Links, TypeInv, TableType
<1> QED BY <1>1, <1>2, NoNewLink, SameJob, ShrinkLinks

\* A first store: nothing replaces the new memory, and it may replace whatever
\* was stored before it in its slot.
LEMMA FirstStoreLinks ==
    ASSUME Links, TypeInv', NEW i \in Ids, NEW k \in Kind, FirstStore(i, k)
    PROVE  /\ KindKept /\ conf' = conf /\ RowOK' /\ ~Known(i)
           /\ kind'[i] = k
           /\ \A j \in Ids : Root(j) => Root(j)'
           /\ \A j, n \in Ids : RowEdge(j, n)' => RowEdge(j, n)
           /\ \A n \in Ids : ~RowEdge(i, n)'
           /\ \A o \in Ids : Known(o) /\ kind[o].slot = k.slot => Proper(o, i)'
<1>1. /\ ~Known(i) /\ Known(i)' /\ KnownGrows
      /\ row' = [row EXCEPT ![i] = Fresh]
      /\ kind' = [kind EXCEPT ![i] = k]
      /\ age' = [age EXCEPT ![i] = births + 1]
  BY FirstStoreTypes DEF Links
<1>2. \A j \in Ids : j # i => row'[j] = row[j] /\ kind'[j] = kind[j] /\ age'[j] = age[j]
  BY <1>1 DEF Links, TypeInv, TableType
<1>3. row'[i] = Fresh /\ kind'[i] = k /\ age'[i] = births + 1
  BY <1>1 DEF Links, TypeInv, TableType
<1>4. KindKept
  BY <1>1, <1>2 DEF KindKept, KnownGrows
<1>5. conf' = conf
  BY DEF FirstStore
<1>6. \A j \in Ids : Superseded(j)' => Superseded(j) /\ row'[j].by = row[j].by
  BY <1>2, <1>3, FreshRow DEF Superseded, Stored
<1>7. RowOK'
  BY <1>4, <1>6, RowKept DEF TypeInv, TableType
<1>8. \A j \in Ids : Root(j) => Root(j)'
  BY <1>2, <1>3, FreshRow DEF Root, Stored
<1>9. \A n \in Ids : ~RowEdge(i, n)'
  BY <1>3, FreshRow, NullApart DEF RowEdge
<1>10. \A j, n \in Ids : RowEdge(j, n)' => RowEdge(j, n)
  BY <1>2, <1>9 DEF RowEdge, Stored
<1>11. ASSUME NEW o \in Ids, Known(o), kind[o].slot = k.slot PROVE Proper(o, i)'
  <2>1. o # i /\ kind'[o] = kind[o] /\ age'[o] = age[o] /\ Known(o)'
    BY <1>1, <1>2, <1>11 DEF KnownGrows
  <2>2. age[o] < births + 1
    BY DEF Links, TypeInv, TableType
  <2> QED BY <1>1, <1>3, <1>11, <2>1, <2>2 DEF Proper
<1> QED BY <1>1, <1>3, <1>4, <1>5, <1>7, <1>8, <1>9, <1>10, <1>11

LEMMA StoreLinks ==
    ASSUME Links, TypeInv', NEW w \in Writers, NEW i \in Ids, Store(w, i)
    PROVE  Links'
<1> DEFINE W == writer[w]
<1>1. /\ W # Null /\ W.kind \in Kind /\ Tidy(W)
      /\ \A o \in W.old : o \in Ids
  BY DEF Links, TypeInv, Store, WriterType, WritersOK, Request
<1>2. FirstStore(i, W.kind) /\ Answer(w)
  BY DEF Store
<1>3. /\ KindKept /\ conf' = conf /\ RowOK' /\ ~Known(i)
      /\ kind'[i] = W.kind
      /\ \A j \in Ids : Root(j) => Root(j)'
      /\ \A j, n \in Ids : RowEdge(j, n)' => RowEdge(j, n)
      /\ \A n \in Ids : ~RowEdge(i, n)'
      /\ \A o \in Ids : Known(o) /\ kind[o].slot = W.kind.slot => Proper(o, i)'
  BY <1>1, <1>2, FirstStoreLinks
<1>4. bg' = bg \cup (W.old \X {i}) /\ job' = job /\ fix' = fix /\ pass' = pass
  BY DEF Store
<1>5. IdleOK'
  BY <1>1, <1>4 DEF Store, Tidy, Links, IdleOK
<1>6. BgOK'
  <2>1. ASSUME NEW o \in W.old
        PROVE  Proper(o, i)' /\ (conf'.mode = "async" => ~DurableFact(o)')
    <3>1. o \in Ids /\ Known(o) /\ kind[o].slot = W.kind.slot
      BY <1>1 DEF Tidy
    <3>2. conf.mode = "async" => ~DurableFact(o)
      BY <1>1 DEF Tidy
    <3> QED BY <1>3, <3>1, <3>2, DurableKept
  <2>2. ASSUME NEW e \in bg
        PROVE  Proper(e[1], e[2])' /\ (conf'.mode = "async" => ~DurableFact(e[1])')
    <3>1. e[1] \in Ids /\ e[2] \in Ids
      BY DEF Links, TypeInv, JobType
    <3>2. Proper(e[1], e[2]) /\ (conf.mode = "async" => ~DurableFact(e[1]))
      BY DEF Links, BgOK
    <3>3. Known(e[1])
      BY <3>2 DEF Proper
    <3> QED BY <1>3, <3>1, <3>2, <3>3, ProperKept, DurableKept
  <2> QED BY <1>4, <2>1, <2>2 DEF BgOK
<1>7. WritersOK'
  BY <1>2, <1>3, AnswerShape, WritersKept DEF Links
<1>8. QueueOK'
  <2>1. CASE queue' = queue
    BY <1>3, <2>1, QueueKept
  <2>2. CASE queue' # queue
    <3>1. W.kind.slot = Fact /\ queue' = Enqueued(queue, i, W.kind)
      BY <2>2 DEF Store
    <3>2. conf.mode = "async" /\ W.kind.durable /\ queue' = Append(queue, i)
      BY <2>2, <3>1 DEF Enqueued
    <3>3. DurableFact(i)'
      BY <1>1, <1>3, <3>1, <3>2, NullApart DEF DurableFact, Known
    <3>4. ASSUME NEW n \in 1 .. Len(queue') PROVE DurableFact(queue[n])'
      <4>1. queue \in Seq(Ids)
        BY DEF Links, TypeInv, JobType
      <4>2. CASE n = Len(queue) + 1
        <5>1. queue'[n] = i
          BY <3>2, <4>1, <4>2
        <5> QED BY <3>3, <5>1 DEF DurableFact, Known
      <4>3. CASE n # Len(queue) + 1
        <5>1. n \in 1 .. Len(queue) /\ queue'[n] = queue[n]
          BY <3>2, <3>4, <4>1, <4>3
        <5>2. PICK m \in Ids : m = queue[n]
          BY <4>1, <5>1
        <5>3. DurableFact(m)
          BY <5>1, <5>2 DEF Links, QueueOK
        <5>4. DurableFact(m)'
          BY <1>3, <5>3, DurableKept DEF DurableFact
        <5> QED BY <5>1, <5>2, <5>4 DEF DurableFact, Known
      <4> QED BY <4>2, <4>3
    <3> QED BY <1>3, <3>2, <3>4 DEF QueueOK
  <2> QED BY <2>1, <2>2
<1>9. JobOK'
  BY <1>3, <1>4, SameJob, JobKept
<1>10. \A j, n \in Ids : WriterEdge(j, n)' => WriterEdge(j, n)
  BY <1>2, AnswerShape, WriterEdgesShrink DEF Links
<1>11. \A j, n \in Ids : Leads(j, n)' => Leads(j, n) \/ n = i
  BY <1>3, <1>4, <1>10, LeadsParts
<1>12. \A n \in Ids : ~Leads(i, n)'
  <2>1. \A n \in Ids : <<i, n>> \notin bg'
    BY <1>1, <1>3, <1>4, NewIsRoot DEF Tidy
  <2>2. \A n \in Ids : ~WriterEdge(i, n)'
    BY <1>3, <1>10, NewIsRoot
  <2> QED BY <1>3, <2>1, <2>2, LeadsParts
<1>13. NoPendingCycle'
  BY <1>11, <1>12, EdgesGrow DEF Links
<1> QED BY <1>3, <1>5, <1>6, <1>7, <1>8, <1>9, <1>13 DEF Links

LEMMA StoreOverLinks ==
    ASSUME Links, TypeInv', NEW w \in Writers, NEW i \in Ids, StoreOver(w, i)
    PROVE  Links'
<1> DEFINE W == writer[w]
<1>1. /\ W # Null /\ W.pc = "over" /\ W \in Request /\ W.kind \in Kind /\ Tidy(W)
      /\ \A o \in W.old : o \in Ids
  BY DEF Links, TypeInv, StoreOver, WriterType, WritersOK, Request
<1>2. FirstStore(i, W.kind) /\ UNCHANGED memory
  BY DEF StoreOver
<1>3. /\ KindKept /\ conf' = conf /\ RowOK' /\ ~Known(i)
      /\ \A j \in Ids : Root(j) => Root(j)'
      /\ \A j, n \in Ids : RowEdge(j, n)' => RowEdge(j, n)
      /\ \A n \in Ids : ~RowEdge(i, n)'
      /\ \A o \in Ids : Known(o) /\ kind[o].slot = W.kind.slot => Proper(o, i)'
  BY <1>1, <1>2, FirstStoreLinks
<1>4. bg' = bg /\ queue' = queue /\ job' = job /\ owed' = owed /\ fix' = fix /\ pass' = pass
  BY <1>2 DEF memory
<1>5. IdleOK' /\ BgOK' /\ QueueOK' /\ JobOK'
  BY <1>3, <1>4, BgKept, QueueKept, SameJob, JobKept DEF Links, IdleOK
<1>6. PICK q \in Request : q = [W EXCEPT !.pc = "stored", !.id = i]
  BY <1>1 DEF Request
<1>7. q.pc = "stored" /\ q.id = i /\ q.old = W.old /\ q.kind = W.kind /\ q.late = W.late
  BY <1>1, <1>6 DEF Request
<1>8. writer' = [writer EXCEPT ![w] = q]
  BY <1>1, <1>6 DEF StoreOver, Links, TypeInv, WriterType
<1>9. conf.mode = "sync"
  BY <1>1, SyncRequest
<1>10. \A o \in q.old : o \in Ids /\ Known(o) /\ kind[o].slot = W.kind.slot
  BY <1>1, <1>7 DEF Tidy
<1>11. \A o \in q.old : Proper(o, i)' /\ Known(o)' /\ kind'[o].slot = q.kind.slot
  BY <1>3, <1>7, <1>10 DEF KindKept
<1>12. Tidy(q)'
  BY <1>1, <1>3, <1>7, <1>9, <1>11 DEF Tidy
<1>13. WritersOK'
  BY <1>3, <1>8, <1>12, WriterSet
<1>14. ASSUME NEW j \in Ids, NEW n \in Ids, WriterEdge(j, n)'
       PROVE  WriterEdge(j, n) \/ (n = i /\ j # i)
  <2>1. PICK v \in Writers :
          /\ writer'[v] # Null
          /\ \/ writer'[v].pc = "stored" /\ j \in writer'[v].old /\ writer'[v].id = n
             \/ writer'[v].pc = "rewrite" /\ writer'[v].id = j /\ writer'[v].copy.by = n
    BY <1>14 DEF WriterEdge
  <2>2. CASE v = w
    <3>1. writer'[v] = q
      BY <1>8, <2>2 DEF Links, TypeInv, WriterType
    <3> QED BY <1>3, <1>7, <1>10, <2>1, <3>1
  <2>3. CASE v # w
    <3>1. writer'[v] = writer[v]
      BY <1>8, <2>3 DEF Links, TypeInv, WriterType
    <3> QED BY <2>1, <3>1 DEF WriterEdge
  <2> QED BY <2>2, <2>3
<1>15. \A j, n \in Ids : Leads(j, n)' => Leads(j, n) \/ n = i
  BY <1>3, <1>4, <1>14, LeadsParts
<1>16. \A n \in Ids : ~Leads(i, n)'
  BY <1>3, <1>4, <1>14, NewIsRoot, LeadsParts
<1>17. NoPendingCycle'
  BY <1>15, <1>16, EdgesGrow DEF Links
<1> QED BY <1>3, <1>5, <1>13, <1>17 DEF Links

LEMMA GoroutineLinks ==
    ASSUME Links, TypeInv', NEW e \in Ids \X Ids, AutoSupersede(e) \/ DropSupersede(e)
    PROVE  Links'
<1>1. KindKept /\ conf' = conf /\ queue' = queue /\ bg' \subseteq bg /\ IdleOK'
      /\ job' = job /\ writer' = writer
  BY KindStays DEF AutoSupersede, DropSupersede, table, Links, IdleOK
<1>2. CASE DropSupersede(e)
  <2>1. row' = row
    BY <1>2 DEF DropSupersede, table
  <2> QED BY <1>1, <2>1, NoNewLink, SameJob, ShrinkLinks
<1>3. CASE AutoSupersede(e)
  <2>1. PICK o \in Ids, t \in Ids : e = <<o, t>> /\ e[1] = o /\ e[2] = t
    OBVIOUS
  <2>2. SetSuperseded(o, t) /\ <<o, t>> \in bg
    BY <1>3, <2>1 DEF AutoSupersede
  <2>3. Proper(o, t) /\ (conf.mode = "async" => ~DurableFact(o))
    BY <2>1, <2>2 DEF Links, BgOK
  <2>4. ASSUME NEW i \in Ids, NEW n \in Ids, RowEdge(i, n)'
        PROVE  Leads(i, n) /\ Proper(i, n)'
    <3>1. RowEdge(i, n) \/ (i = o /\ n = t)
      BY <2>2, <2>4 DEF RowEdge, Stored, SetSuperseded, Links, TypeInv, TableType
    <3>2. CASE RowEdge(i, n)
      <4>1. Proper(i, n)
        BY <3>2, NullApart DEF RowEdge, Links, RowOK, Superseded
      <4> QED BY <1>1, <3>2, <4>1, ProperKept, LeadsParts
    <3>3. CASE i = o /\ n = t
      BY <1>1, <2>2, <2>3, <3>3, ProperKept, LeadsParts
    <3> QED BY <3>1, <3>2, <3>3
  <2>5. RowOK'
    BY <2>4, RowCases DEF Superseded, RowEdge, TypeInv, TableType
  <2>6. ASSUME NEW i \in Ids, DurableFact(i), Root(i), conf.mode = "async" PROVE Root(i)'
    <3>1. i # o
      BY <2>3, <2>6
    <3>2. row'[i] = row[i]
      BY <2>2, <3>1 DEF SetSuperseded, Links, TypeInv, TableType
    <3> QED BY <2>6, <3>2 DEF Root, Stored
  <2> QED BY <1>1, <2>4, <2>5, <2>6, SameJob, ShrinkLinks
<1> QED BY <1>2, <1>3

LEMMA TakeJobLinks ==
    ASSUME Links, TypeInv', TakeJob
    PROVE  Links'
<1>1. /\ KindKept /\ conf' = conf /\ bg' = bg /\ IdleOK' /\ writer' = writer /\ row' = row
      /\ kind' = kind
  BY KindStays DEF TakeJob, table, Links, IdleOK
<1>2. queue \in Seq(Ids) /\ queue # <<>> /\ queue' = Tail(queue)
  BY DEF TakeJob, Links, TypeInv, JobType
<1>3. Head(queue) \in Ids /\ conf.mode = "async" /\ DurableFact(Head(queue))
  <2>1. 1 \in 1 .. Len(queue) /\ Head(queue) = queue[1]
    BY <1>2
  <2> QED BY <1>2, <2>1 DEF Links, QueueOK
<1>4. QueueOK'
  <2>1. ASSUME NEW n \in 1 .. Len(queue') PROVE DurableFact(queue[n])'
    <3>1. n + 1 \in 1 .. Len(queue) /\ queue'[n] = queue[n + 1]
      BY <1>2, <2>1
    <3>2. PICK m \in Ids : m = queue[n + 1]
      BY <1>2, <3>1
    <3>3. DurableFact(m)
      BY <3>1, <3>2 DEF Links, QueueOK
    <3> QED BY <1>1, <3>1, <3>2, <3>3 DEF DurableFact, Known
  <2> QED BY <1>1, <1>3, <2>1 DEF QueueOK
<1>5. JobOK'
  <2>1. CASE job' = Null
    BY <2>1 DEF JobOK
  <2>2. CASE job' # Null
    <3> DEFINE m == Head(queue)
    <3>1. PICK t \in Ids, verdict \in {"update", "supersede", "link"} :
             /\ Stored(m) /\ row[m].by = Null /\ t \in Near(kind[m]) /\ t # m
             /\ job' = [pc |-> verdict, id |-> m, target |-> t, copy |-> row[m]]
      BY <2>2 DEF TakeJob, Near
    <3>2. DurableFact(t) /\ Root(t) /\ Root(m) /\ DurableFact(m)
      BY <1>3, <3>1, NearType DEF Links, DurableFact, Root
    <3>3. job'.id = m /\ job'.target = t /\ job'.copy = row[m]
      BY <3>1
    <3> HIDE DEF m
    <3> QED BY <1>1, <1>3, <3>1, <3>2, <3>3 DEF JobOK, DurableFact, Known, Root, Stored
  <2> QED BY <2>1, <2>2
<1>6. BgOK' /\ WritersOK' /\ RowOK'
  BY <1>1, BgKept, WritersKept, NoNewLink
<1>7. \A i, j \in Ids : Leads(i, j)' => Leads(i, j)
  BY <1>1 DEF Leads, Stored
<1> QED BY <1>1, <1>4, <1>5, <1>6, <1>7, EdgesShrink DEF Links

\* What is known of the two memories of the job, and what they do not lead to.
LEMMA JobFacts ==
    ASSUME Links, job # Null
    PROVE  /\ conf.mode = "async" /\ job.copy.by = Null
           /\ job.id \in Ids /\ job.target \in Ids /\ job.id # job.target
           /\ Known(job.id) /\ Known(job.target)
           /\ DurableFact(job.id) /\ DurableFact(job.target)
           /\ Root(job.id) /\ Root(job.target)
           /\ job.copy \in Row
  BY DEF Links, JobOK, TypeInv, JobType, Job

LEMMA ReadMergeTargetLinks ==
    ASSUME Links, TypeInv', ReadMergeTarget
    PROVE  Links'
<1>1. /\ KindKept /\ conf' = conf /\ queue' = queue /\ bg' \subseteq bg /\ IdleOK'
      /\ writer' = writer /\ row' = row
  BY KindStays DEF ReadMergeTarget, table, Links, IdleOK
<1>2. \/ job' = Null
      \/ /\ job # Null /\ job'.copy.by = Null
         /\ job'.id = job.id /\ job'.target = job.target
  <2>1. CASE ~Stored(job.target)
    BY <2>1 DEF ReadMergeTarget
  <2>2. CASE Stored(job.target)
    <3>1. job # Null /\ job' = [job EXCEPT !.pc = "merge", !.copy = row[job.target]]
      BY <2>2 DEF ReadMergeTarget, JobAt
    <3>2. job \in Job /\ row[job.target].by = Null
      BY <2>2, <3>1, JobFacts DEF Root, Links, TypeInv, JobType
    <3> QED BY <3>1, <3>2 DEF Job
  <2> QED BY <2>1, <2>2
<1> QED BY <1>1, <1>2, NoNewLink, ShrinkLinks

LEMMA MergeIntoTargetLinks ==
    ASSUME Links, TypeInv', MergeIntoTarget
    PROVE  Links'
<1>1. /\ KindKept /\ conf' = conf /\ queue' = queue /\ bg' \subseteq bg /\ IdleOK'
      /\ writer' = writer
  BY KindStays DEF MergeIntoTarget, Links, IdleOK
<1>2. job # Null /\ job \in Job
  BY DEF MergeIntoTarget, JobAt, Links, TypeInv, JobType
<1>3. \A i \in Ids : row'[i] = row[i] \/ row'[i].by = Null
  BY <1>2, JobFacts DEF MergeIntoTarget, Upsert, Links, TypeInv, TableType
<1>4. job' = [job EXCEPT !.pc = "fold"]
  BY DEF MergeIntoTarget
<1>5. job'.copy.by = Null /\ job'.id = job.id /\ job'.target = job.target
  BY <1>2, <1>4, JobFacts DEF Job
<1> QED BY <1>1, <1>2, <1>3, <1>5, NoNewLink, ShrinkLinks

LEMMA WriteLinksLinks ==
    ASSUME Links, TypeInv', WriteLinks
    PROVE  Links'
<1>1. /\ KindKept /\ conf' = conf /\ queue' = queue /\ bg' \subseteq bg /\ IdleOK'
      /\ writer' = writer /\ job' = Null /\ job # Null
  BY KindStays DEF WriteLinks, JobAt, Links, IdleOK
<1>2. \A i \in Ids : row'[i] = row[i] \/ row'[i].by = Null
  BY <1>1, JobFacts DEF WriteLinks, Upsert, Links, TypeInv, TableType
<1> QED BY <1>1, <1>2, NoNewLink, ShrinkLinks

LEMMA FailJobLinks ==
    ASSUME Links, TypeInv', FailJob
    PROVE  Links'
<1>1. /\ KindKept /\ conf' = conf /\ queue' = queue /\ bg' \subseteq bg /\ IdleOK'
      /\ writer' = writer /\ job' = Null /\ row' = row
  BY KindStays DEF FailJob, table, Links, IdleOK
<1> QED BY <1>1, NoNewLink, ShrinkLinks

\* The worker's own link joins two roots.
LEMMA JobLinks ==
    ASSUME Links, TypeInv', TombstoneMerged \/ SupersedeTarget
    PROVE  Links'
<1>1. /\ KindKept /\ conf' = conf /\ queue' = queue /\ bg' = bg /\ IdleOK'
      /\ writer' = writer /\ job' = Null /\ job # Null
  BY KindStays DEF TombstoneMerged, SupersedeTarget, JobAt, Links, IdleOK
<1>2. PICK o \in Ids, t \in Ids : SetSuperseded(o, t) /\ {o, t} = {job.id, job.target}
  BY <1>1, JobFacts DEF TombstoneMerged, SupersedeTarget
<1>3. /\ o # t /\ conf.mode = "async"
      /\ DurableFact(o) /\ DurableFact(t) /\ Root(o) /\ Root(t)
  BY <1>1, <1>2, JobFacts
<1>4. Proper(o, t)
  BY <1>3 DEF Proper, DurableFact
<1>5. ASSUME NEW i \in Ids, NEW n \in Ids, RowEdge(i, n)'
      PROVE  (RowEdge(i, n) \/ (i = o /\ n = t)) /\ Proper(i, n)'
  <2>1. RowEdge(i, n) \/ (i = o /\ n = t)
    BY <1>2, <1>5 DEF RowEdge, Stored, SetSuperseded, Links, TypeInv, TableType
  <2>2. Proper(i, n)
    BY <1>4, <2>1, NullApart DEF RowEdge, Links, RowOK, Superseded
  <2> QED BY <1>1, <2>1, <2>2, ProperKept
<1>6. RowOK'
  BY <1>5, RowCases DEF Superseded, RowEdge, TypeInv, TableType
<1>7. BgOK' /\ QueueOK' /\ WritersOK' /\ JobOK'
  BY <1>1, BgKept, QueueKept, WritersKept DEF JobOK
<1>8. \A i, j \in Ids : WriterEdge(i, j)' => WriterEdge(i, j)
  BY <1>1, WriterEdgesShrink
<1>9. \A i, j \in Ids : Leads(i, j)' => Leads(i, j) \/ j = t
  BY <1>1, <1>5, <1>8, LeadsParts
<1>10. \A j \in Ids : ~Leads(t, j)'
  <2>1. \A j \in Ids : ~RowEdge(t, j)
    BY <1>3, NullApart DEF RowEdge, Root
  <2> QED BY <1>1, <1>3, <1>5, <1>8, <2>1, AsyncRoot, LeadsParts
<1>11. NoPendingCycle'
  BY <1>9, <1>10, EdgesGrow DEF Links
<1> QED BY <1>1, <1>6, <1>7, <1>11 DEF Links

LEMMA ConsolidateLinks ==
    ASSUME Links, TypeInv', Consolidate
    PROVE  Links'
  BY TakeJobLinks, ReadMergeTargetLinks, MergeIntoTargetLinks, JobLinks,
     WriteLinksLinks, FailJobLinks DEF Consolidate

\* Nothing survives a crash but the table, whose links are in order under any
\* settings.
LEMMA CrashLinks ==
    ASSUME Links, TypeInv', Crash
    PROVE  Links'
<1>1. IdleOK' /\ BgOK' /\ WritersOK' /\ QueueOK' /\ JobOK'
  BY DEF Crash, Links, IdleOK, BgOK, WritersOK, QueueOK, JobOK
<1>2. RowOK'
  BY KindStays, RowKept DEF Crash, Superseded, Stored, TypeInv, TableType
<1>3. \A i, j \in Ids : Leads(i, j)' => Leads(i, j)
  BY DEF Crash, Leads, Stored
<1> QED BY <1>1, <1>2, <1>3, EdgesShrink DEF Links

\* No row is owed an enrichment and no pass is in progress.
LEMMA NothingToMaintain ==
    ASSUME Links, Quiet
    PROVE  /\ \A i \in Ids : ~Enrich(i)
           /\ ~Maintain
           /\ \A i, n \in Ids : ~Supersede(i, n)
<1>1. \A i \in Ids : ~Enrich(i)
  BY DEF Links, IdleOK, Enrich, ReadForFix, FixMerges, FixReadsTarget, FixRewritesTarget,
         FixFallsBack, FixFolds, FixReplaces, FixKeeps, TombstoneFolded, FoldFails,
         Deciding, FixAt
<1>2. ~Maintain
  BY DEF Links, IdleOK, Quiet, Maintain, StartPass, ListStranded, EndPass, MergeCluster,
         Restore, TombstoneDuplicate, PassAt
<1> QED BY <1>1, <1>2 DEF Quiet, Supersede

LEMMA NextLinks ==
    ASSUME Links, Quiet, Next
    PROVE  Links'
<1>1. TypeInv'
  BY NextTypes DEF Links
<1>2. ASSUME NEW w \in Writers, NewRequest(w) PROVE Links'
  BY <1>1, <1>2, NewRequestLinks
<1>3. ASSUME NEW w \in Writers, Serve(w) PROVE Links'
  BY <1>1, <1>3, ReadTargetLinks, FallThroughLinks, RewriteTargetLinks,
     TombstoneTargetLinks, RollbackLinks, WriteEditLinks, FailLinks, StoreLinks,
     StoreOverLinks DEF Serve
<1>4. CASE Caller
  BY <1>1, <1>4, DeleteLinks, NothingToMaintain DEF Caller
<1>5. CASE Crash
  BY <1>1, <1>5, CrashLinks
<1>6. CASE Consolidate
  BY <1>1, <1>6, ConsolidateLinks
<1>7. ASSUME NEW e \in Ids \X Ids, AutoSupersede(e) \/ DropSupersede(e) PROVE Links'
  BY <1>1, <1>7, GoroutineLinks
<1> QED BY <1>2, <1>3, <1>4, <1>5, <1>6, <1>7, NothingToMaintain DEF Next, Disturb, Proceed

LEMMA StutterLinks == ASSUME Links, UNCHANGED vars PROVE Links'
<1>1. TypeInv'
  BY StutterTypes DEF Links
<1>2. /\ KindKept /\ conf' = conf /\ queue' = queue /\ bg' \subseteq bg /\ IdleOK'
      /\ writer' = writer /\ job' = job /\ row' = row
  BY KindStays DEF vars, Links, IdleOK
<1> QED BY <1>1, <1>2, NoNewLink, SameJob, ShrinkLinks

LEMMA LinksInvariant == ASSUME Quiet PROVE Spec => []Links
<1>1. Links /\ [Next]_vars => Links'
  BY NextLinks, StutterLinks
<1> QED BY <1>1, InitLinks, PTL DEF Spec

(***************************************************************************)
(* Theorems.                                                               *)
(***************************************************************************)

\* In a quiet instance no chain of successors ever closes: whatever the races
\* of handlers, their goroutines, the consolidation worker and restarts.
THEOREM NoCycles == ASSUME Quiet PROVE Spec => []NoCycle
<1>1. Links => NoCycle
  <2> SUFFICES ASSUME Links, NEW S \in SUBSET Ids, S # {}
               PROVE  \E i \in S : ~Stored(i) \/ row[i].by \notin S
    BY DEF NoCycle
  <2>1. PICK i \in S : \A j \in S : ~Leads(i, j)
    BY DEF Links, NoPendingCycle
  <2> QED BY <2>1, LeadsParts DEF RowEdge
<1> QED BY <1>1, LinksInvariant, PTL

\* In a quiet instance a handoff gives way only to a later one of its slot, and
\* a fact only to a fact.
THEOREM LaterHandoffs == ASSUME Quiet PROVE Spec => [](SlotSuccession /\ FactsByFacts)
<1>1. Links => SlotSuccession /\ FactsByFacts
  BY DEF Links, RowOK, Proper, SlotSuccession, FactsByFacts
<1> QED BY <1>1, LinksInvariant, PTL

\* In a quiet instance a fact is never replaced by a handoff.
THEOREM FactsReplaceFacts == ASSUME Quiet PROVE Spec => []FactsByFacts
  BY LaterHandoffs, PTL

\* The strengthened invariant that the run checks holds in every quiet instance.
THEOREM LinksInOrder == ASSUME Quiet PROVE Spec => []LinksInv
  BY LinksInvariant, LinksParts, PTL

=============================================================================
