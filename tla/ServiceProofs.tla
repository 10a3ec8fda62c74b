--------------------------- MODULE ServiceProofs ----------------------------
(***************************************************************************)
(* Proofs about the background workers of the service (Distillation,       *)
(* ConsolidateQueue, Chunks), which share no state, and about their        *)
(* composition.                                                            *)
(***************************************************************************)
EXTENDS MCService, SequenceTheorems, FiniteSetTheorems, TLAPS

(***************************************************************************)
(* Distillation, for any number of captures and sessions and any sizes of  *)
(* buffers, slots and batches.                                             *)
(***************************************************************************)

Buffer == [session : Sessions, items : SUBSET Captures]

\* One buffer for each session, and no capture in two of them.
Apart(q) ==
    \A k, l \in DOMAIN q : k # l =>
        /\ q[k].session # q[l].session
        /\ q[k].items \cap q[l].items = {}

-----------------------------------------------------------------------------
(***************************************************************************)
(* Sequences of buffers.  Each lemma says of what leaves the map, and of   *)
(* what stays, that it was there and that the two are apart.               *)
(***************************************************************************)
\* p is in q, each element once, and away from the places in `gone'.
Within(p, q, gone) ==
    \E at \in [DOMAIN p -> DOMAIN q] :
        /\ \A k \in DOMAIN p : p[k] = q[at[k]] /\ at[k] \notin gone
        /\ \A k, l \in DOMAIN p : k # l => at[k] # at[l]

LEMMA WithinApart ==
    ASSUME NEW q \in Seq(Buffer), Apart(q), NEW p \in Seq(Buffer), NEW gone, Within(p, q, gone)
    PROVE  /\ Apart(p)
           /\ \A k \in DOMAIN p, g \in gone \cap DOMAIN q : p[k].items \cap q[g].items = {}
<1>1. PICK at \in [DOMAIN p -> DOMAIN q] :
        /\ \A k \in DOMAIN p : p[k] = q[at[k]] /\ at[k] \notin gone
        /\ \A k, l \in DOMAIN p : k # l => at[k] # at[l]
  BY DEF Within
<1>2. ASSUME NEW k \in DOMAIN p, NEW l \in DOMAIN p, k # l
      PROVE  p[k].session # p[l].session /\ p[k].items \cap p[l].items = {}
  <2>1. at[k] \in DOMAIN q /\ at[l] \in DOMAIN q /\ at[k] # at[l]
    BY <1>1, <1>2
  <2> QED
    BY <1>1, <2>1 DEF Apart
<1>3. ASSUME NEW k \in DOMAIN p, NEW g \in gone \cap DOMAIN q
      PROVE  p[k].items \cap q[g].items = {}
  <2>1. at[k] \in DOMAIN q /\ at[k] # g
    BY <1>1
  <2> QED
    BY <1>1, <2>1 DEF Apart
<1> QED
  BY <1>2, <1>3 DEF Apart

\* Removing the element at p.
LEMMA RemoveFacts ==
    ASSUME NEW q \in Seq(Buffer), NEW p \in DOMAIN q
    PROVE  LET r == SubSeq(q, 1, p - 1) \o SubSeq(q, p + 1, Len(q))
           IN r \in Seq(Buffer) /\ Within(r, q, {p})
<1> DEFINE n == Len(q)
           a == SubSeq(q, 1, p - 1)  b == SubSeq(q, p + 1, n)
           r == a \o b
           at == [k \in 1 .. n - 1 |-> IF k <= p - 1 THEN k ELSE k + 1]
<1>1. n \in Nat /\ p \in 1 .. n /\ DOMAIN q = 1 .. n
  OBVIOUS
<1>2. a \in Seq(Buffer) /\ Len(a) = p - 1 /\ \A k \in 1 .. p - 1 : a[k] = q[k]
  BY <1>1
<1>3. b \in Seq(Buffer) /\ Len(b) = n - p /\ \A k \in 1 .. n - p : b[k] = q[k + p]
  <2>1. \A i \in p + 1 .. n : q[i] \in Buffer
    BY <1>1
  <2>2. /\ b \in Seq(Buffer)
        /\ Len(b) = IF p + 1 <= n THEN n - (p + 1) + 1 ELSE 0
        /\ \A i \in 1 .. n - (p + 1) + 1 : b[i] = q[p + 1 + i - 1]
    <3>1. p + 1 \in Int /\ n \in Int
      BY <1>1
    <3> QED
      BY <2>1, <3>1, SubSeqProperties
  <2> HIDE DEF b, n
  <2>3. Len(b) = n - p
    BY ONLY <1>1, <2>2
  <2>4. ASSUME NEW k \in 1 .. n - p PROVE b[k] = q[k + p]
    <3>1. k \in 1 .. n - (p + 1) + 1 /\ p + 1 + k - 1 = k + p
      BY ONLY <1>1, k \in 1 .. n - p
    <3> QED
      BY <2>2, <3>1
  <2> QED
    BY <2>2, <2>3, <2>4
<1> HIDE DEF a, b, n
<1>4. r \in Seq(Buffer) /\ Len(r) = Len(a) + Len(b)
      /\ \A k \in 1 .. Len(a) + Len(b) : r[k] = IF k <= Len(a) THEN a[k] ELSE b[k - Len(a)]
  BY <1>2, <1>3, ConcatProperties
<1>5. Len(r) = n - 1
  BY ONLY <1>1, <1>2, <1>3, <1>4
<1> HIDE DEF r
<1>6. DOMAIN r = 1 .. n - 1
  BY <1>4, <1>5
<1>7. at \in [DOMAIN r -> DOMAIN q]
  BY <1>1, <1>6
<1>8. ASSUME NEW k \in DOMAIN r PROVE r[k] = q[at[k]] /\ at[k] # p
  <2>1. k \in 1 .. n - 1 /\ at[k] = (IF k <= p - 1 THEN k ELSE k + 1)
    BY <1>6
  <2>2. CASE k <= p - 1
    <3>1. r[k] = a[k] /\ k \in 1 .. p - 1 /\ k # p
      BY <1>1, <1>2, <1>3, <1>4, <2>1, <2>2
    <3> QED
      BY <1>2, <2>1, <2>2, <3>1
  <2>3. CASE ~(k <= p - 1)
    <3>1. /\ k \in 1 .. Len(a) + Len(b) /\ ~(k <= Len(a))
          /\ k - Len(a) \in 1 .. n - p /\ k - Len(a) + p = k + 1 /\ k + 1 # p
      BY ONLY <1>1, <1>2, <1>3, <2>1, <2>3
    <3>2. r[k] = b[k - Len(a)]
      BY <1>4, <3>1
    <3>3. b[k - Len(a)] = q[k + 1]
      BY <1>3, <3>1
    <3> QED
      BY <2>1, <2>3, <3>1, <3>2, <3>3
  <2> QED
    BY <2>2, <2>3
<1>9. \A k, l \in DOMAIN r : k # l => at[k] # at[l]
  BY <1>1, <1>6
<1>10. Within(r, q, {p})
  <2> HIDE DEF at
  <2> QED
    BY <1>7, <1>8, <1>9 DEF Within
<1> QED
  BY <1>4, <1>10 DEF r, a, b, n

\* The buffers left when the first n have gone.
LEMMA LaterFacts ==
    ASSUME NEW q \in Seq(Buffer), NEW n \in 1 .. Len(q)
    PROVE  /\ SubSeq(q, n + 1, Len(q)) \in Seq(Buffer)
           /\ Within(SubSeq(q, n + 1, Len(q)), q, 1 .. n)
<1> DEFINE m == Len(q)  b == SubSeq(q, n + 1, m)  at == [k \in 1 .. m - n |-> k + n]
<1>1. m \in Nat /\ n \in 1 .. m /\ DOMAIN q = 1 .. m
  OBVIOUS
<1>2. \A i \in n + 1 .. m : q[i] \in Buffer
  BY <1>1
<1>3. /\ b \in Seq(Buffer)
      /\ Len(b) = IF n + 1 <= m THEN m - (n + 1) + 1 ELSE 0
      /\ \A i \in 1 .. m - (n + 1) + 1 : b[i] = q[n + 1 + i - 1]
  <2>1. n + 1 \in Int /\ m \in Int
    BY <1>1
  <2> QED
    BY <1>2, <2>1, SubSeqProperties
<1> HIDE DEF b, m
<1>4. Len(b) = m - n
  BY ONLY <1>1, <1>3
<1>5. DOMAIN b = 1 .. m - n
  BY <1>3, <1>4
<1>6. at \in [DOMAIN b -> DOMAIN q]
  BY <1>1, <1>5
<1>7. ASSUME NEW k \in DOMAIN b PROVE b[k] = q[at[k]] /\ at[k] \notin 1 .. n
  <2>1. /\ k \in 1 .. m - (n + 1) + 1 /\ n + 1 + k - 1 = k + n /\ k + n \notin 1 .. n
        /\ k \in 1 .. m - n
    BY ONLY <1>1, <1>5, k \in DOMAIN b
  <2>2. at[k] = k + n
    BY <2>1
  <2> HIDE DEF at
  <2> QED
    BY <1>3, <2>1, <2>2
<1>8. \A k, l \in DOMAIN b : k # l => at[k] # at[l]
  BY <1>1, <1>5
<1>9. Within(b, q, 1 .. n)
  <2> HIDE DEF at
  <2> QED
    BY <1>6, <1>7, <1>8 DEF Within
<1> QED
  BY <1>3, <1>9 DEF b, m

\* The oldest buffer leaves.
LEMMA HeadFacts ==
    ASSUME NEW q \in Seq(Buffer), q # <<>>
    PROVE  /\ 1 \in DOMAIN q /\ Head(q) = q[1] /\ Tail(q) \in Seq(Buffer)
           /\ Within(Tail(q), q, {1})
<1> DEFINE m == Len(q)  b == Tail(q)  at == [k \in 1 .. m - 1 |-> k + 1]
<1>1. /\ m \in Nat /\ m >= 1 /\ DOMAIN q = 1 .. m /\ Head(q) = q[1] /\ b \in Seq(Buffer)
      /\ Len(b) = m - 1 /\ DOMAIN b = 1 .. m - 1
      /\ \A k \in 1 .. m - 1 : b[k] = q[k + 1]
  OBVIOUS
<1> HIDE DEF b, m
<1>2. at \in [DOMAIN b -> DOMAIN q]
  BY <1>1
<1>3. \A k \in DOMAIN b : b[k] = q[at[k]] /\ at[k] \notin {1}
  BY <1>1
<1>4. \A k, l \in DOMAIN b : k # l => at[k] # at[l]
  BY <1>1
<1>5. Within(b, q, {1})
  <2> HIDE DEF at
  <2> QED
    BY <1>2, <1>3, <1>4 DEF Within
<1> QED
  BY <1>1, <1>5 DEF b, m
\* The buffers after a capture that was in none has joined one.
LEMMA JoinedFacts ==
    ASSUME buffers \in Seq(Buffer), Apart(buffers), NEW c \in Captures, NEW s \in Sessions,
           \A k \in DOMAIN buffers : c \notin buffers[k].items
    PROVE  /\ Joined(c, s) \in Seq(Buffer) /\ Apart(Joined(c, s))
           /\ Place(Joined(c, s), s) \in DOMAIN Joined(c, s)
           /\ \A k \in DOMAIN Joined(c, s) : \A d \in Joined(c, s)[k].items :
                d # c => \E l \in DOMAIN buffers : d \in buffers[l].items
<1> DEFINE q == Joined(c, s)  n == Len(buffers)
<1>1. n \in Nat /\ DOMAIN buffers = 1 .. n /\ \A k \in 1 .. n : buffers[k] \in Buffer
  OBVIOUS
<1>2. CASE \E k \in DOMAIN buffers : buffers[k].session = s
  <2> DEFINE p == Place(buffers, s)
  <2>1. p \in DOMAIN buffers /\ buffers[p].session = s
    BY <1>2 DEF Place
  <2>2. q = [buffers EXCEPT ![p].items = @ \cup {c}]
    BY <1>2 DEF Joined
  <2> HIDE DEF p, n, q
  <2>3. DOMAIN q = DOMAIN buffers
    BY <2>2
  <2>4. ASSUME NEW k \in DOMAIN buffers
        PROVE  /\ q[k] \in Buffer /\ q[k].session = buffers[k].session
               /\ q[k].items \subseteq buffers[k].items \cup {c}
               /\ k # p => q[k].items = buffers[k].items
    <3>1. buffers[k] \in Buffer
      BY <1>1
    <3>2. CASE k = p
      <4>1. q[k] = [buffers[k] EXCEPT !.items = @ \cup {c}]
        BY <2>2, <3>2
      <4> QED
        BY <3>1, <3>2, <4>1 DEF Buffer
    <3>3. CASE k # p
      BY <2>2, <3>1, <3>3
    <3> QED
      BY <3>2, <3>3
  <2>5. q \in Seq(Buffer)
    <3>1. q = [k \in 1 .. n |-> q[k]]
      BY <1>1, <2>2
    <3>2. q \in [1 .. n -> Buffer]
      BY <1>1, <2>4, <3>1
    <3> QED
      BY ONLY <1>1, <3>2
  <2>6. Apart(q)
    <3>1. ASSUME NEW k \in DOMAIN buffers, NEW l \in DOMAIN buffers, k # l
          PROVE  q[k].session # q[l].session /\ q[k].items \cap q[l].items = {}
      <4>1. buffers[k].session # buffers[l].session /\ buffers[k].items \cap buffers[l].items = {}
        BY <3>1 DEF Apart
      <4>2. c \notin buffers[k].items /\ c \notin buffers[l].items
        OBVIOUS
      <4>3. k # p \/ l # p
        BY <3>1
      <4> QED
        BY <2>4, <4>1, <4>2, <4>3
    <3> QED
      BY <2>3, <3>1 DEF Apart
  <2>7. Place(q, s) \in DOMAIN q
    BY <2>1, <2>3, <2>4 DEF Place
  <2>8. \A k \in DOMAIN q : \A d \in q[k].items :
          d # c => \E l \in DOMAIN buffers : d \in buffers[l].items
    BY <2>3, <2>4
  <2> QED
    BY <2>5, <2>6, <2>7, <2>8 DEF q
<1>3. CASE ~\E k \in DOMAIN buffers : buffers[k].session = s
  <2> DEFINE new == [session |-> s, items |-> {c}]
  <2>1. q = Append(buffers, new)
    BY <1>3 DEF Joined
  <2>2. new \in Buffer /\ new.session = s /\ new.items = {c}
    BY DEF Buffer
  <2> HIDE DEF new
  <2>3. /\ q \in Seq(Buffer) /\ Len(q) = n + 1 /\ q[n + 1] = new
        /\ \A k \in 1 .. n : q[k] = buffers[k]
    BY <2>1, <2>2, AppendProperties
  <2> HIDE DEF q, n
  <2>4. DOMAIN q = 1 .. n + 1
    BY <2>3
  <2>5. \A k \in 1 .. n + 1 : k \in 1 .. n \/ k = n + 1
    BY <1>1
  <2>6. Apart(q)
    <3>1. ASSUME NEW k \in 1 .. n + 1, NEW l \in 1 .. n + 1, k # l
          PROVE  q[k].session # q[l].session /\ q[k].items \cap q[l].items = {}
      <4>1. \A j \in 1 .. n : q[j].session # s /\ q[j].items \cap {c} = {}
        BY <1>1, <1>3, <2>3
      <4>2. CASE k = n + 1 \/ l = n + 1
        BY <2>2, <2>3, <2>5, <3>1, <4>1, <4>2
      <4>3. CASE k \in 1 .. n /\ l \in 1 .. n
        BY <1>1, <2>3, <3>1, <4>3 DEF Apart
      <4> QED
        BY <2>5, <4>2, <4>3
    <3> QED
      BY <2>4, <3>1 DEF Apart
  <2>7. n + 1 \in DOMAIN q
    BY <1>1, <2>4
  <2>8. Place(q, s) \in DOMAIN q
    BY <2>2, <2>3, <2>7 DEF Place
  <2>9. ASSUME NEW k \in DOMAIN q, NEW d \in q[k].items, d # c
        PROVE  \E l \in DOMAIN buffers : d \in buffers[l].items
    BY <1>1, <2>2, <2>3, <2>4, <2>5, <2>9
  <2> QED
    BY <2>3, <2>6, <2>8, <2>9 DEF q
<1> QED
  BY <1>2, <1>3

-----------------------------------------------------------------------------
(***************************************************************************)
(* The invariant.                                                          *)
(***************************************************************************)
HomesOf(q, B) ==
    /\ Apart(q)
    /\ \A b \in B : b.by # "promoter" =>
         /\ \A k \in DOMAIN q : b.items \cap q[k].items = {}
         /\ \A o \in B : o.by # "promoter" /\ o # b => o.items \cap b.items = {}

Held(q, B, c) ==
    \/ \E k \in DOMAIN q : c \in q[k].items
    \/ \E b \in B : b.by # "promoter" /\ c \in b.items

\* The write-time path has yet to stamp it; it has, and has yet to ask.
Kept(q, B, c) ==
    \/ \E k \in DOMAIN q : c \in q[k].items
    \/ \E b \in B : b.by # "promoter" /\ c \in b.left
Pledged(B, c) == \E b \in B : b.by # "promoter" /\ c \in StampedBy(b)

\* The same of the promoter.
Listed(B, c) == \E b \in B : b.by = "promoter" /\ c \in b.left
Asked(B, c) == \E b \in B : b.by = "promoter" /\ c \in StampedBy(b)

Shape ==
    /\ capture \in [Captures -> CaptureRow]
    /\ \A w \in rewrites : w.of \in Captures /\ w.row \in CaptureRow
    /\ buffers \in Seq(Buffer)
    /\ batches \subseteq Batch
    /\ tries \in [Captures -> Nat]
    /\ erased \in [Captures -> Nat]

Orderly ==
    \A b \in batches :
        /\ b.left \cup b.done \subseteq b.items
        /\ b.step = "wait" => b.done = {}
        /\ b.step = "retier" => b.by = "promoter"

OnePromoter ==
    \A b, o \in batches : b.by = "promoter" /\ o.by = "promoter" => b = o

NewSound ==
    /\ \A c \in Captures : capture[c].new =>
         /\ tries[c] = 0 /\ ~capture[c].hot /\ ~capture[c].stamped
         /\ ~Held(buffers, batches, c) /\ \A b \in batches : c \notin b.items
    /\ \A w \in rewrites : ~capture[w.of].new /\ ~w.row.new

\* What the promoter listed unmet by the write-time path, that path is done with.
Apace ==
    \A c \in Captures : c \notin crossed /\ (Held(buffers, batches, c) \/ capture[c].new)
        => ~\E b \in batches : b.by = "promoter" /\ c \in b.items

One(P) == IF P THEN 1 ELSE 0

\* The calls there may still be: one when the write-time path has the capture,
\* one when the promoter has stamped it, one when the promoter has listed it or
\* may list it again.
Chances(c) ==
    One(Kept(buffers, batches, c) \/ Pledged(batches, c)) + One(Asked(batches, c))
        + One(Listed(batches, c) \/ ~capture[c].stamped)

\* The same when the two have not met: who comes first stamps it, and leaves the
\* other none.
LoneChances(c) ==
    One(Pledged(batches, c)) + One(Asked(batches, c))
        + One(Kept(buffers, batches, c) \/ Listed(batches, c) \/ ~capture[c].stamped)

FewCalls ==
    \A c \in Captures :
        /\ tries[c] + Chances(c) <= 2 + erased[c]
        /\ c \notin crossed => tries[c] + LoneChances(c) <= 1 + erased[c]

\* A stamp means that somebody has taken care of the capture.
Tried(c) == tries[c] > 0 \/ c \in failed \/ \E b \in batches : c \in StampedBy(b)

RewritesTried == \A w \in rewrites : w.row.stamped => Tried(w.of)

DistillInv ==
    /\ Shape /\ Orderly /\ HomesOf(buffers, batches) /\ OnePromoter /\ NewSound
    /\ Apace /\ FewCalls /\ StampedMeansTried /\ RewritesTried
-----------------------------------------------------------------------------
(***************************************************************************)
(* What the invariant says of the module's own words.                      *)
(***************************************************************************)
LEMMA HeldIsInHand == \A c : InHand(c) <=> Held(buffers, batches, c)
  BY DEF InHand, Held, Buffered, WriteTime

LEMMA OneFacts == \A P : One(P) \in Nat /\ One(P) <= 1 /\ (P => One(P) = 1) /\ (~P => One(P) = 0)
  BY DEF One

LEMMA InvGivesProperties == DistillInv => OneHome /\ DistilledOnce /\ StampedMeansTried
<1> SUFFICES ASSUME DistillInv PROVE OneHome /\ DistilledOnce
  BY DEF DistillInv
<1>1. ASSUME NEW k \in DOMAIN buffers, NEW l \in DOMAIN buffers, k # l
      PROVE  buffers[k].items \cap buffers[l].items = {}
  BY <1>1 DEF DistillInv, HomesOf, Apart
<1>2. ASSUME NEW b \in WriteTime
      PROVE  /\ b.items \cap Buffered = {}
             /\ \A o \in WriteTime : o # b => o.items \cap b.items = {}
  <2>1. b \in batches /\ b.by # "promoter"
    BY DEF WriteTime
  <2>2. \A k \in DOMAIN buffers : b.items \cap buffers[k].items = {}
    BY <2>1 DEF DistillInv, HomesOf
  <2>3. \A o \in WriteTime : o # b => o.items \cap b.items = {}
    BY <2>1 DEF DistillInv, HomesOf, WriteTime
  <2> QED
    BY <2>2, <2>3 DEF Buffered
<1>3. OneHome
  BY <1>1, <1>2 DEF OneHome
<1>4. DistilledOnce
  <2>1. ASSUME NEW c \in Captures
        PROVE  tries[c] <= 1 + (IF c \in crossed THEN 1 ELSE 0) + erased[c]
    <3>1. /\ tries[c] \in Nat /\ erased[c] \in Nat
          /\ tries[c] + Chances(c) <= 2 + erased[c]
          /\ c \notin crossed => tries[c] + LoneChances(c) <= 1 + erased[c]
      BY DEF DistillInv, Shape, FewCalls
    <3>2. Chances(c) \in Nat /\ LoneChances(c) \in Nat
      BY OneFacts DEF Chances, LoneChances
    <3> QED
      BY <3>1, <3>2
  <2> QED
    BY <2>1 DEF DistilledOnce
<1> QED
  BY <1>3, <1>4

\* A batch that waits has yet to do everything.
LEMMA WaitingFacts ==
    ASSUME NEW by \in BatchKinds, NEW items \in SUBSET Captures
    PROVE  /\ Waiting(by, items) \in Batch
           /\ Waiting(by, items).by = by /\ Waiting(by, items).step = "wait"
           /\ Waiting(by, items).items = items /\ Waiting(by, items).left = items
           /\ Waiting(by, items).done = {}
  BY DEF Waiting, Batch, BatchSteps

LEMMA BatchFacts ==
    \A b \in Batch : /\ b.by \in BatchKinds /\ b.step \in BatchSteps
                     /\ b.items \in SUBSET Captures /\ b.left \in SUBSET Captures
                     /\ b.done \in SUBSET Captures
  BY DEF Batch

\* The calls a batch may still make are for its sources.
LEMMA StampedByFacts ==
    ASSUME DistillInv, NEW b \in batches
    PROVE  /\ b \in Batch /\ b.items \in SUBSET Captures
           /\ StampedBy(b) \subseteq b.done /\ b.done \subseteq b.items /\ b.left \subseteq b.items
           /\ b.step # "retier" => StampedBy(b) = b.done
  BY BatchFacts DEF DistillInv, Shape, Orderly, StampedBy

\* No call that was not there comes in reach.
LEMMA NoMoreCalls ==
    ASSUME DistillInv, NEW c \in Captures, tries'[c] = tries[c],
           erased'[c] = erased[c], c \in crossed => c \in crossed',
           Kept(buffers', batches', c) => Kept(buffers, batches, c),
           Pledged(batches', c) => Pledged(batches, c),
           Asked(batches', c) => Asked(batches, c),
           Listed(batches', c) \/ ~capture'[c].stamped => Listed(batches, c) \/ ~capture[c].stamped
    PROVE  /\ tries'[c] + Chances(c)' <= 2 + erased'[c]
           /\ c \notin crossed' => tries'[c] + LoneChances(c)' <= 1 + erased'[c]
<1>1. /\ tries[c] \in Nat /\ erased[c] \in Nat
      /\ tries[c] + Chances(c) <= 2 + erased[c]
      /\ c \notin crossed => tries[c] + LoneChances(c) <= 1 + erased[c]
  BY DEF DistillInv, Shape, FewCalls
<1> DEFINE k == Kept(buffers, batches, c) \/ Pledged(batches, c)
           l == Listed(batches, c) \/ ~capture[c].stamped
           m == Kept(buffers, batches, c) \/ Listed(batches, c) \/ ~capture[c].stamped
           s == Pledged(batches, c)
           a == Asked(batches, c)
           k2 == Kept(buffers', batches', c) \/ Pledged(batches', c)
           l2 == Listed(batches', c) \/ ~capture'[c].stamped
           m2 == Kept(buffers', batches', c) \/ Listed(batches', c) \/ ~capture'[c].stamped
           s2 == Pledged(batches', c)
           a2 == Asked(batches', c)
<1>2. (k2 => k) /\ (l2 => l) /\ (m2 => m) /\ (s2 => s) /\ (a2 => a)
  OBVIOUS
<1>3. /\ Chances(c)' = One(k2) + One(a2) + One(l2)
      /\ LoneChances(c)' = One(s2) + One(a2) + One(m2)
      /\ Chances(c) = One(k) + One(a) + One(l)
      /\ LoneChances(c) = One(s) + One(a) + One(m)
  BY DEF Chances, LoneChances
<1> HIDE DEF k, l, m, s, a, k2, l2, m2, s2, a2
<1>4. /\ One(k2) <= One(k) /\ One(l2) <= One(l) /\ One(m2) <= One(m)
      /\ One(s2) <= One(s) /\ One(a2) <= One(a)
  BY ONLY <1>2, OneFacts
<1>5. /\ One(k) \in Nat /\ One(l) \in Nat /\ One(m) \in Nat /\ One(s) \in Nat /\ One(a) \in Nat
      /\ One(k2) \in Nat /\ One(l2) \in Nat /\ One(m2) \in Nat /\ One(s2) \in Nat
      /\ One(a2) \in Nat
  BY OneFacts
<1>6. tries[c] + Chances(c)' <= 2 + erased[c]
  BY ONLY <1>1, <1>3, <1>4, <1>5
<1>7. ASSUME c \notin crossed' PROVE tries[c] + LoneChances(c)' <= 1 + erased[c]
  <2>1. tries[c] + LoneChances(c) <= 1 + erased[c]
    BY <1>1, <1>7
  <2> QED
    BY ONLY <1>1, <1>3, <1>4, <1>5, <2>1
<1> QED
  BY <1>6, <1>7

\* The write-time path stamps it: what it had yet to stamp it has yet to ask about.
LEMMA StampedFirst ==
    ASSUME DistillInv, NEW c \in Captures, tries' = tries, erased' = erased, crossed' = crossed,
           capture'[c].stamped, Kept(buffers, batches, c), ~Kept(buffers', batches', c),
           Asked(batches', c) => Asked(batches, c),
           Listed(batches', c) => Listed(batches, c),
           c \notin crossed => ~Listed(batches', c)
    PROVE  /\ tries[c] + Chances(c)' <= 2 + erased[c]
           /\ c \notin crossed => tries[c] + LoneChances(c)' <= 1 + erased[c]
<1>1. /\ tries[c] \in Nat /\ erased[c] \in Nat
      /\ tries[c] + Chances(c) <= 2 + erased[c]
      /\ c \notin crossed => tries[c] + LoneChances(c) <= 1 + erased[c]
  BY DEF DistillInv, Shape, FewCalls
<1> DEFINE k == Kept(buffers, batches, c) \/ Pledged(batches, c)
           l == Listed(batches, c) \/ ~capture[c].stamped
           m == Kept(buffers, batches, c) \/ Listed(batches, c) \/ ~capture[c].stamped
           s == Pledged(batches, c)
           a == Asked(batches, c)
           k2 == Kept(buffers', batches', c) \/ Pledged(batches', c)
           l2 == Listed(batches', c) \/ ~capture'[c].stamped
           m2 == Kept(buffers', batches', c) \/ Listed(batches', c) \/ ~capture'[c].stamped
           s2 == Pledged(batches', c)
           a2 == Asked(batches', c)
<1>2. k /\ m /\ (l2 => l) /\ (a2 => a) /\ (c \notin crossed => ~m2)
  OBVIOUS
<1>3. /\ Chances(c)' = One(k2) + One(a2) + One(l2)
      /\ LoneChances(c)' = One(s2) + One(a2) + One(m2)
      /\ Chances(c) = One(k) + One(a) + One(l)
      /\ LoneChances(c) = One(s) + One(a) + One(m)
  BY DEF Chances, LoneChances
<1> HIDE DEF k, l, m, s, a, k2, l2, m2, s2, a2
<1>4. /\ One(k) = 1 /\ One(m) = 1 /\ One(k2) <= 1 /\ One(s2) <= 1
      /\ One(l2) <= One(l) /\ One(a2) <= One(a) /\ (c \notin crossed => One(m2) = 0)
  <2>1. One(k) = 1 /\ One(m) = 1 /\ One(k2) <= 1 /\ One(s2) <= 1
    BY ONLY <1>2, OneFacts
  <2>2. One(l2) <= One(l) /\ One(a2) <= One(a)
    BY ONLY <1>2, OneFacts
  <2>3. c \notin crossed => One(m2) = 0
    BY ONLY <1>2, OneFacts
  <2> QED
    BY <2>1, <2>2, <2>3
<1>5. /\ One(l) \in Nat /\ One(s) \in Nat /\ One(a) \in Nat
      /\ One(k2) \in Nat /\ One(l2) \in Nat /\ One(s2) \in Nat /\ One(a2) \in Nat
  BY OneFacts
<1>6. tries[c] + Chances(c)' <= 2 + erased[c]
  BY ONLY <1>1, <1>3, <1>4, <1>5
<1>7. ASSUME c \notin crossed PROVE tries[c] + LoneChances(c)' <= 1 + erased[c]
  <2>1. tries[c] + LoneChances(c) <= 1 + erased[c] /\ One(m2) = 0
    BY <1>1, <1>4, <1>7
  <2> QED
    BY ONLY <1>1, <1>3, <1>4, <1>5, <2>1
<1> QED
  BY <1>6, <1>7

\* The promoter stamps it: what it had listed it has yet to ask about.
LEMMA StampedLater ==
    ASSUME DistillInv, NEW c \in Captures, tries' = tries, erased' = erased, crossed' = crossed,
           capture'[c].stamped, Listed(batches, c), ~Listed(batches', c),
           Pledged(batches', c) => Pledged(batches, c),
           Kept(buffers', batches', c) => Kept(buffers, batches, c),
           c \notin crossed => ~Kept(buffers', batches', c)
    PROVE  /\ tries[c] + Chances(c)' <= 2 + erased[c]
           /\ c \notin crossed => tries[c] + LoneChances(c)' <= 1 + erased[c]
<1>1. /\ tries[c] \in Nat /\ erased[c] \in Nat
      /\ tries[c] + Chances(c) <= 2 + erased[c]
      /\ c \notin crossed => tries[c] + LoneChances(c) <= 1 + erased[c]
  BY DEF DistillInv, Shape, FewCalls
<1> DEFINE k == Kept(buffers, batches, c) \/ Pledged(batches, c)
           l == Listed(batches, c) \/ ~capture[c].stamped
           m == Kept(buffers, batches, c) \/ Listed(batches, c) \/ ~capture[c].stamped
           s == Pledged(batches, c)
           a == Asked(batches, c)
           k2 == Kept(buffers', batches', c) \/ Pledged(batches', c)
           l2 == Listed(batches', c) \/ ~capture'[c].stamped
           m2 == Kept(buffers', batches', c) \/ Listed(batches', c) \/ ~capture'[c].stamped
           s2 == Pledged(batches', c)
           a2 == Asked(batches', c)
<1>2. l /\ m /\ ~l2 /\ (k2 => k) /\ (s2 => s) /\ (c \notin crossed => ~m2)
  OBVIOUS
<1>3. /\ Chances(c)' = One(k2) + One(a2) + One(l2)
      /\ LoneChances(c)' = One(s2) + One(a2) + One(m2)
      /\ Chances(c) = One(k) + One(a) + One(l)
      /\ LoneChances(c) = One(s) + One(a) + One(m)
  BY DEF Chances, LoneChances
<1> HIDE DEF k, l, m, s, a, k2, l2, m2, s2, a2
<1>4. /\ One(l) = 1 /\ One(m) = 1 /\ One(l2) = 0 /\ One(a2) <= 1
      /\ One(k2) <= One(k) /\ One(s2) <= One(s) /\ (c \notin crossed => One(m2) = 0)
  <2>1. One(l) = 1 /\ One(m) = 1 /\ One(l2) = 0 /\ One(a2) <= 1
    BY ONLY <1>2, OneFacts
  <2>2. One(k2) <= One(k) /\ One(s2) <= One(s)
    BY ONLY <1>2, OneFacts
  <2>3. c \notin crossed => One(m2) = 0
    BY ONLY <1>2, OneFacts
  <2> QED
    BY <2>1, <2>2, <2>3
<1>5. /\ One(k) \in Nat /\ One(s) \in Nat /\ One(a) \in Nat
      /\ One(k2) \in Nat /\ One(s2) \in Nat /\ One(a2) \in Nat
  BY OneFacts
<1>6. tries[c] + Chances(c)' <= 2 + erased[c]
  BY ONLY <1>1, <1>3, <1>4, <1>5
<1>7. ASSUME c \notin crossed PROVE tries[c] + LoneChances(c)' <= 1 + erased[c]
  <2>1. tries[c] + LoneChances(c) <= 1 + erased[c] /\ One(m2) = 0
    BY <1>1, <1>4, <1>7
  <2> QED
    BY ONLY <1>1, <1>3, <1>4, <1>5, <2>1
<1> QED
  BY <1>6, <1>7

\* Who has taken care of a capture: that does not change.
LEMMA StillTried ==
    ASSUME DistillInv, \A c \in Captures : tries'[c] = tries[c], failed \subseteq failed',
           \A b \in batches : \A c \in StampedBy(b) :
              c \in failed' \/ \E o \in batches' : c \in StampedBy(o),
           \A c \in Captures : capture'[c].stamped =>
              capture[c].stamped \/ Tried(c) \/ \E o \in batches' : c \in StampedBy(o),
           rewrites' \subseteq rewrites
    PROVE  StampedMeansTried' /\ RewritesTried'
<1>1. \A c \in Captures : Tried(c) => Tried(c)'
  <2> SUFFICES ASSUME NEW c \in Captures, Tried(c) PROVE Tried(c)'
    OBVIOUS
  <2>1. CASE tries[c] > 0 \/ c \in failed
    BY <2>1 DEF Tried
  <2>2. CASE \E b \in batches : c \in StampedBy(b)
    <3>1. c \in failed' \/ \E o \in batches' : c \in StampedBy(o)
      BY <2>2
    <3> QED
      BY <3>1 DEF Tried, StampedBy
  <2> QED
    BY <2>1, <2>2 DEF Tried
<1>2. \A c \in Captures : capture'[c].stamped => Tried(c)'
  <2> SUFFICES ASSUME NEW c \in Captures, capture'[c].stamped PROVE Tried(c)'
    OBVIOUS
  <2>1. CASE capture[c].stamped \/ Tried(c)
    <3>1. Tried(c)
      BY <2>1 DEF DistillInv, StampedMeansTried, Tried
    <3> QED
      BY <1>1, <3>1
  <2>2. CASE \E o \in batches' : c \in StampedBy(o)
    BY <2>2 DEF Tried, StampedBy
  <2> QED
    BY <2>1, <2>2
<1>3. StampedMeansTried'
  BY <1>2 DEF StampedMeansTried, Tried
<1>4. RewritesTried'
  <2> SUFFICES ASSUME NEW w \in rewrites', w.row.stamped PROVE Tried(w.of)'
    BY DEF RewritesTried
  <2>1. w \in rewrites /\ w.of \in Captures
    BY DEF DistillInv, Shape, Rewrite
  <2> QED
    BY <1>1, <2>1 DEF DistillInv, RewritesTried
<1> QED
  BY <1>3, <1>4

-----------------------------------------------------------------------------
(***************************************************************************)
(* Steps that end things: batches leave, buffers are dropped, requests     *)
(* that were going to write over a capture are cut off.                    *)
(***************************************************************************)
LEMMA FewerInv ==
    ASSUME DistillInv, UNCHANGED <<capture, tries, crossed, erased>>,
           rewrites' \subseteq rewrites,
           batches' \subseteq batches, buffers' = buffers \/ buffers' = <<>>,
           failed \subseteq failed',
           \A b \in batches \ batches' : StampedBy(b) \subseteq failed'
    PROVE  DistillInv'
<1>1. buffers' \in Seq(Buffer) /\ Apart(buffers')
      /\ \A k \in DOMAIN buffers' : k \in DOMAIN buffers /\ buffers'[k] = buffers[k]
  <2>1. CASE buffers' = buffers
    BY <2>1 DEF DistillInv, Shape, HomesOf, Apart
  <2>2. CASE buffers' = <<>>
    <3>1. DOMAIN buffers' = {} /\ buffers' \in Seq(Buffer)
      BY <2>2
    <3> QED
      BY <3>1 DEF Apart
  <2> QED
    BY <2>1, <2>2
<1>2. Shape' /\ Orderly' /\ OnePromoter'
  BY <1>1 DEF DistillInv, Shape, Orderly, OnePromoter
<1>3. HomesOf(buffers', batches')
  <2>1. ASSUME NEW b \in batches', b.by # "promoter"
        PROVE  /\ \A k \in DOMAIN buffers' : b.items \cap buffers'[k].items = {}
               /\ \A o \in batches' : o.by # "promoter" /\ o # b => o.items \cap b.items = {}
    BY <1>1, <2>1 DEF DistillInv, HomesOf
  <2> QED
    BY <1>1, <2>1 DEF HomesOf
<1>4. ASSUME NEW c \in Captures
      PROVE  /\ Held(buffers', batches', c) => Held(buffers, batches, c)
             /\ Kept(buffers', batches', c) => Kept(buffers, batches, c)
             /\ Pledged(batches', c) => Pledged(batches, c)
             /\ Asked(batches', c) => Asked(batches, c)
             /\ Listed(batches', c) => Listed(batches, c)
  BY <1>1 DEF Held, Kept, Pledged, Asked, Listed
<1>5. NewSound' /\ Apace'
  BY <1>4 DEF DistillInv, NewSound, Apace
<1>6. FewCalls'
  BY <1>4, NoMoreCalls DEF FewCalls
<1>7. StampedMeansTried' /\ RewritesTried'
  <2>1. \A b \in batches : \A c \in StampedBy(b) :
          c \in failed' \/ \E o \in batches' : c \in StampedBy(o)
    OBVIOUS
  <2> QED
    BY <2>1, StillTried
<1> QED
  BY <1>2, <1>3, <1>5, <1>6, <1>7 DEF DistillInv

-----------------------------------------------------------------------------
(***************************************************************************)
(* Steps that hand captures over: to a buffer, from a buffer to a batch.   *)
(***************************************************************************)
\* The batches with those for the buffers that leave.
Handed(D, B, q, gone) ==
    /\ B \subseteq D
    /\ \A b \in D : b \in B \/ \E g \in gone : b = Waiting("session", q[g].items)

\* What comes in addition waits to be worked on.
Newcomers(D, B) ==
    \A b \in D \ B : b.by # "promoter" /\ b.step = "wait" /\ b.done = {} /\ b.left = b.items

\* Nothing else gets into somebody's hands.
Keeps(p, D, q, B) ==
    \A c \in Captures : /\ Held(p, D, c) => Held(q, B, c)
                        /\ Kept(p, D, c) => Kept(q, B, c)

\* Buffers that leave become batches.
LEMMA HandedHomes ==
    ASSUME NEW q \in Seq(Buffer), NEW B \in SUBSET Batch, HomesOf(q, B),
           NEW gone \in SUBSET DOMAIN q, NEW p \in Seq(Buffer), Within(p, q, gone),
           NEW D, Handed(D, B, q, gone)
    PROVE  /\ D \in SUBSET Batch /\ HomesOf(p, D)
           /\ Keeps(p, D, q, B)
           /\ Newcomers(D, B)
<1>1. ASSUME NEW g \in gone
      PROVE  /\ q[g].items \in SUBSET Captures
             /\ Waiting("session", q[g].items) \in Batch
             /\ Waiting("session", q[g].items).by # "promoter"
             /\ Waiting("session", q[g].items).step = "wait"
             /\ Waiting("session", q[g].items).items = q[g].items
             /\ Waiting("session", q[g].items).left = q[g].items
             /\ Waiting("session", q[g].items).done = {}
  <2>1. q[g] \in Buffer
    OBVIOUS
  <2>2. q[g].items \in SUBSET Captures /\ "session" \in BatchKinds
    BY <2>1 DEF Buffer, BatchKinds
  <2> QED
    BY <2>2, WaitingFacts
<1>2. ASSUME NEW b \in D
      PROVE  b \in B \/ \E g \in gone : b = Waiting("session", q[g].items)
  BY DEF Handed
<1>3. D \in SUBSET Batch
  BY <1>1, <1>2
<1>4. Apart(p) /\ \A k \in DOMAIN p, g \in gone : p[k].items \cap q[g].items = {}
  <2>1. Apart(q)
    BY DEF HomesOf
  <2> QED
    BY <2>1, WithinApart
<1>5. \A k \in DOMAIN p : \E l \in DOMAIN q : p[k] = q[l]
  BY DEF Within
<1>6. ASSUME NEW b \in D, b.by # "promoter"
      PROVE  /\ \A k \in DOMAIN p : b.items \cap p[k].items = {}
             /\ \A o \in D : o.by # "promoter" /\ o # b => o.items \cap b.items = {}
  <2>1. CASE b \in B
    <3>1. \A l \in DOMAIN q : b.items \cap q[l].items = {}
      BY <1>6, <2>1 DEF HomesOf
    <3>2. ASSUME NEW o \in D, o.by # "promoter", o # b PROVE o.items \cap b.items = {}
      <4>1. CASE o \in B
        BY <1>6, <2>1, <3>2, <4>1 DEF HomesOf
      <4>2. CASE \E g \in gone : o = Waiting("session", q[g].items)
        BY <1>1, <3>1, <4>2
      <4> QED
        BY <1>2, <4>1, <4>2
    <3> QED
      BY <1>5, <3>1, <3>2
  <2>2. CASE \E g \in gone : b = Waiting("session", q[g].items)
    <3>1. PICK g \in gone : b = Waiting("session", q[g].items)
      BY <2>2
    <3>2. b.items = q[g].items /\ g \in DOMAIN q
      BY <1>1, <3>1
    <3>3. \A k \in DOMAIN p : b.items \cap p[k].items = {}
      BY <1>4, <3>2
    <3>4. ASSUME NEW o \in D, o.by # "promoter", o # b PROVE o.items \cap b.items = {}
      <4>1. CASE o \in B
        BY <3>2, <3>4, <4>1 DEF HomesOf
      <4>2. CASE \E h \in gone : o = Waiting("session", q[h].items)
        <5>1. PICK h \in gone : o = Waiting("session", q[h].items)
          BY <4>2
        <5>2. h # g /\ h \in DOMAIN q /\ o.items = q[h].items
          BY <1>1, <3>1, <3>4, <5>1
        <5> QED
          BY <3>2, <5>2 DEF HomesOf, Apart
      <4> QED
        BY <1>2, <4>1, <4>2
    <3> QED
      BY <3>3, <3>4
  <2> QED
    BY <1>2, <2>1, <2>2
<1>7. HomesOf(p, D)
  BY <1>4, <1>6 DEF HomesOf
<1>8. ASSUME NEW c, Held(p, D, c) PROVE Held(q, B, c)
  <2>1. CASE \E k \in DOMAIN p : c \in p[k].items
    BY <1>5, <2>1 DEF Held
  <2>2. CASE \E b \in D : b.by # "promoter" /\ c \in b.items
    BY <1>1, <1>2, <2>2 DEF Held
  <2> QED
    BY <1>8, <2>1, <2>2 DEF Held
<1>9. ASSUME NEW c, Kept(p, D, c) PROVE Kept(q, B, c)
  <2>1. CASE \E k \in DOMAIN p : c \in p[k].items
    BY <1>5, <2>1 DEF Kept
  <2>2. CASE \E b \in D : b.by # "promoter" /\ c \in b.left
    BY <1>1, <1>2, <2>2 DEF Kept
  <2> QED
    BY <1>9, <2>1, <2>2 DEF Kept
<1>10. Newcomers(D, B)
  BY <1>1, <1>2 DEF Newcomers
<1>11. Keeps(p, D, q, B)
  BY <1>8, <1>9 DEF Keeps
<1> QED
  BY <1>3, <1>7, <1>10, <1>11

\* The captures `entered' are written; what was under way stays, and new batches
\* wait.
LEMMA HandoverInv ==
    ASSUME DistillInv, UNCHANGED <<rewrites, tries, crossed, failed, erased>>,
           NEW entered \in SUBSET Captures,
           \A c \in entered : capture[c].new,
           capture' \in [Captures -> CaptureRow],
           \A c \in Captures : capture'[c] = IF c \in entered THEN Fresh ELSE capture[c],
           buffers' \in Seq(Buffer), batches' \in SUBSET Batch, batches \subseteq batches',
           HomesOf(buffers', batches'),
           \A c \in Captures : Held(buffers', batches', c) => Held(buffers, batches, c) \/ c \in entered,
           \A c \in Captures : Kept(buffers', batches', c) => Kept(buffers, batches, c) \/ c \in entered,
           Newcomers(batches', batches)
    PROVE  DistillInv'
<1>1. Shape' /\ Orderly' /\ OnePromoter'
  BY DEF DistillInv, Shape, Orderly, OnePromoter, Newcomers
<1>2. ASSUME NEW c \in Captures
      PROVE  /\ Pledged(batches', c) => Pledged(batches, c)
             /\ Listed(batches', c) => Listed(batches, c)
             /\ Asked(batches', c) => Asked(batches, c)
             /\ (\E b \in batches' : b.by = "promoter" /\ c \in b.items)
                  => \E b \in batches : b.by = "promoter" /\ c \in b.items
  <2>1. \A b \in batches' : b \in batches \/ (b.by # "promoter" /\ StampedBy(b) = {})
    BY DEF Newcomers, StampedBy
  <2> QED
    BY <2>1 DEF Pledged, Listed, Asked
<1>3. ASSUME NEW c \in entered
      PROVE  /\ ~capture'[c].new /\ ~capture'[c].stamped /\ ~capture[c].stamped
             /\ tries[c] = 0 /\ ~Pledged(batches, c) /\ ~Asked(batches, c)
             /\ \A b \in batches : c \notin b.items
  <2>1. \A b \in batches : c \notin b.items /\ c \notin StampedBy(b)
    BY StampedByFacts DEF DistillInv, NewSound
  <2>2. ~Pledged(batches, c) /\ ~Asked(batches, c)
    BY <2>1 DEF Pledged, Asked
  <2> QED
    BY <2>1, <2>2 DEF DistillInv, NewSound, Fresh
<1>4. NewSound'
  <2>1. ASSUME NEW c \in Captures, capture'[c].new
        PROVE  /\ tries[c] = 0 /\ ~capture'[c].hot /\ ~capture'[c].stamped
               /\ ~Held(buffers', batches', c) /\ \A b \in batches' : c \notin b.items
    <3>1. c \notin entered /\ capture'[c] = capture[c]
      BY <1>3, <2>1
    <3>2. tries[c] = 0 /\ ~capture[c].hot /\ ~capture[c].stamped
          /\ ~Held(buffers, batches, c) /\ \A b \in batches : c \notin b.items
      BY <2>1, <3>1 DEF DistillInv, NewSound
    <3>3. ~Held(buffers', batches', c)
      BY <3>1, <3>2
    <3>4. \A b \in batches' : c \notin b.items
      BY <3>2, <3>3 DEF Held, Newcomers
    <3> QED
      BY <3>1, <3>2, <3>3, <3>4
  <2>2. ASSUME NEW w \in rewrites PROVE ~capture'[w.of].new /\ ~w.row.new
    <3>1. w.of \in Captures /\ ~capture[w.of].new /\ ~w.row.new
      BY DEF DistillInv, NewSound, Shape, Rewrite
    <3> QED
      BY <1>3, <3>1
  <2> QED
    BY <2>1, <2>2 DEF NewSound
<1>5. Apace'
  <2>1. ASSUME NEW c \in Captures, c \notin crossed,
               Held(buffers', batches', c) \/ capture'[c].new
        PROVE  ~\E b \in batches' : b.by = "promoter" /\ c \in b.items
    <3>1. CASE c \in entered
      BY <1>2, <1>3, <3>1
    <3>2. CASE c \notin entered
      BY <1>2, <2>1, <3>2 DEF DistillInv, Apace
    <3> QED
      BY <3>1, <3>2
  <2> QED
    BY <2>1 DEF Apace
<1>6. FewCalls'
  <2> SUFFICES ASSUME NEW c \in Captures
               PROVE  /\ tries[c] + Chances(c)' <= 2 + erased[c]
                      /\ c \notin crossed => tries[c] + LoneChances(c)' <= 1 + erased[c]
    BY DEF FewCalls
  <2>1. /\ tries[c] \in Nat /\ erased[c] \in Nat
        /\ tries[c] + Chances(c) <= 2 + erased[c]
        /\ c \notin crossed => tries[c] + LoneChances(c) <= 1 + erased[c]
    BY DEF DistillInv, Shape, FewCalls
  <2> DEFINE k2 == Kept(buffers', batches', c) \/ Pledged(batches', c)
             l2 == Listed(batches', c) \/ ~capture'[c].stamped
             m2 == Kept(buffers', batches', c) \/ Listed(batches', c) \/ ~capture'[c].stamped
  <2>2. CASE c \in entered
    <3>1. ~Pledged(batches', c) /\ ~Asked(batches', c) /\ tries[c] = 0
      BY <1>2, <1>3, <2>2
    <3>2. One(Pledged(batches', c)) = 0 /\ One(Asked(batches', c)) = 0
      BY <3>1, OneFacts
    <3>3. /\ Chances(c)' = One(k2) + One(Asked(batches', c)) + One(l2)
          /\ LoneChances(c)' = One(Pledged(batches', c)) + One(Asked(batches', c)) + One(m2)
      BY DEF Chances, LoneChances
    <3> HIDE DEF k2, l2, m2
    <3>4. /\ One(k2) \in Nat /\ One(k2) <= 1 /\ One(l2) \in Nat /\ One(l2) <= 1
          /\ One(m2) \in Nat /\ One(m2) <= 1
      BY OneFacts
    <3> QED
      BY ONLY <2>1, <3>1, <3>2, <3>3, <3>4
  <2>3. CASE c \notin entered
    <3>1. /\ Kept(buffers', batches', c) => Kept(buffers, batches, c)
          /\ capture'[c] = capture[c]
      BY <2>3
    <3> HIDE DEF k2, l2, m2
    <3> QED
      BY <1>2, <3>1, NoMoreCalls
  <2> QED
    BY <2>2, <2>3
<1>7. StampedMeansTried' /\ RewritesTried'
  <2>1. \A b \in batches : \A c \in StampedBy(b) : \E o \in batches' : c \in StampedBy(o)
    OBVIOUS
  <2>2. \A c \in Captures : capture'[c].stamped => capture[c].stamped
    BY <1>3
  <2> QED
    BY <2>1, <2>2, StillTried
<1> QED
  BY <1>1, <1>4, <1>5, <1>6, <1>7 DEF DistillInv

\* A capture joins a buffer; a full buffer and the oldest of too many leave.
LEMMA EnqueueHomes ==
    ASSUME DistillInv, NEW c \in Captures, NEW s \in Sessions, capture[c].new, Enqueue(c, s)
    PROVE  /\ buffers' \in Seq(Buffer) /\ batches' \in SUBSET Batch /\ batches \subseteq batches'
           /\ HomesOf(buffers', batches')
           /\ \A d \in Captures : Held(buffers', batches', d) => Held(buffers, batches, d) \/ d = c
           /\ \A d \in Captures : Kept(buffers', batches', d) => Kept(buffers, batches, d) \/ d = c
           /\ Newcomers(batches', batches)
<1> DEFINE q == Joined(c, s)  p == Place(q, s)
           full == Cardinality(q[p].items) >= MaxTokens
           kept == IF full THEN Taken(q, s) ELSE q
           crowded == Len(kept) > MaxBuffers
           gone1 == IF full THEN {p} ELSE {}
           B1 == batches \cup {Waiting("session", q[g].items) : g \in gone1}
           last == IF crowded THEN Tail(kept) ELSE kept
           gone2 == IF crowded THEN {1} ELSE {}
           B2 == B1 \cup {Waiting("session", kept[g].items) : g \in gone2}
<1>1. ~Held(buffers, batches, c)
  BY DEF DistillInv, NewSound
<1>2. /\ q \in Seq(Buffer) /\ Apart(q) /\ p \in DOMAIN q
      /\ \A k \in DOMAIN q : \A d \in q[k].items :
           d # c => \E l \in DOMAIN buffers : d \in buffers[l].items
  <2>1. buffers \in Seq(Buffer) /\ Apart(buffers)
    BY DEF DistillInv, Shape, HomesOf
  <2>2. \A k \in DOMAIN buffers : c \notin buffers[k].items
    BY <1>1 DEF Held
  <2> QED
    BY <2>1, <2>2, JoinedFacts
<1>3. /\ buffers' = (IF crowded THEN Tail(kept) ELSE kept)
      /\ batches' = batches
           \cup (IF full THEN {Waiting("session", q[p].items)} ELSE {})
           \cup (IF crowded THEN {Waiting("session", Head(kept).items)} ELSE {})
  BY DEF Enqueue
<1>4. batches \in SUBSET Batch
  BY DEF DistillInv, Shape
<1>5. /\ HomesOf(q, batches)
      /\ \A d \in Captures : Held(q, batches, d) => Held(buffers, batches, d) \/ d = c
      /\ \A d \in Captures : Kept(q, batches, d) => Kept(buffers, batches, d) \/ d = c
  <2> HIDE DEF q, p
  <2>1. ASSUME NEW b \in batches, b.by # "promoter", NEW k \in DOMAIN q
        PROVE  b.items \cap q[k].items = {}
    <3>1. \A l \in DOMAIN buffers : b.items \cap buffers[l].items = {}
      BY <2>1 DEF DistillInv, HomesOf
    <3>2. c \notin b.items
      BY <1>1, <2>1 DEF Held
    <3> QED
      BY <1>2, <3>1, <3>2
  <2>2. HomesOf(q, batches)
    BY <1>2, <2>1 DEF DistillInv, HomesOf
  <2>3. \A d \in Captures : Held(q, batches, d) => Held(buffers, batches, d) \/ d = c
    BY <1>2 DEF Held
  <2>4. \A d \in Captures : Kept(q, batches, d) => Kept(buffers, batches, d) \/ d = c
    BY <1>2 DEF Kept
  <2> QED
    BY <2>2, <2>3, <2>4
<1> HIDE DEF q
<1>6. kept \in Seq(Buffer) /\ Within(kept, q, gone1)
  <2>1. CASE full
    <3>1. kept = SubSeq(q, 1, p - 1) \o SubSeq(q, p + 1, Len(q))
      BY <2>1 DEF Taken
    <3> HIDE DEF kept, p
    <3> QED
      BY <1>2, <2>1, <3>1, RemoveFacts
  <2>2. CASE ~full
    <3>1. kept = q
      BY <2>2
    <3> DEFINE at == [k \in DOMAIN q |-> k]
    <3>2. at \in [DOMAIN q -> DOMAIN q] /\ \A k \in DOMAIN q : at[k] = k
      OBVIOUS
    <3> HIDE DEF at, kept, p, full
    <3>3. Within(q, q, {})
      BY <3>2 DEF Within
    <3> QED
      BY <1>2, <2>2, <3>1, <3>3
  <2> QED
    BY <2>1, <2>2
<1> HIDE DEF kept
<1>7. /\ B1 \in SUBSET Batch /\ HomesOf(kept, B1)
      /\ Keeps(kept, B1, q, batches)
      /\ Newcomers(B1, batches)
  <2>1. gone1 \in SUBSET DOMAIN q
    BY <1>2
  <2> HIDE DEF gone1, p, full
  <2>2. Handed(B1, batches, q, gone1)
    BY DEF Handed
  <2> HIDE DEF B1
  <2> QED
    BY ONLY <1>2, <1>4, <1>5, <1>6, <2>1, <2>2, HandedHomes
<1> HIDE DEF B1
<1>8. /\ last \in Seq(Buffer) /\ Within(last, kept, gone2)
      /\ gone2 \in SUBSET DOMAIN kept
      /\ crowded => Head(kept) = kept[1]
  <2>1. CASE crowded
    <3>1. kept # <<>>
      <4>1. Len(kept) > 0
        BY <1>6, <2>1, DistillationAssumption
      <4> QED
        BY <4>1
    <3>2. last = Tail(kept)
      BY <2>1
    <3> HIDE DEF last, crowded
    <3> QED
      BY <1>6, <2>1, <3>1, <3>2, HeadFacts
  <2>2. CASE ~crowded
    <3>1. last = kept
      BY <2>2
    <3> DEFINE at == [k \in DOMAIN kept |-> k]
    <3>2. at \in [DOMAIN kept -> DOMAIN kept] /\ \A k \in DOMAIN kept : at[k] = k
      OBVIOUS
    <3> HIDE DEF at, last, crowded
    <3>3. Within(kept, kept, {})
      BY <3>2 DEF Within
    <3> QED
      BY <1>6, <2>2, <3>1, <3>3
  <2> QED
    BY <2>1, <2>2
<1>9. buffers' = last
  BY <1>3
<1>10. batches' = B2
  <2>1. {Waiting("session", q[g].items) : g \in gone1}
          = IF full THEN {Waiting("session", q[p].items)} ELSE {}
    OBVIOUS
  <2>2. {Waiting("session", kept[g].items) : g \in gone2}
          = IF crowded THEN {Waiting("session", Head(kept).items)} ELSE {}
    <3> HIDE DEF crowded, last
    <3> QED
      BY <1>8
  <2> HIDE DEF crowded, gone1, gone2, full
  <2> QED
    BY <1>3, <2>1, <2>2 DEF B1
<1> HIDE DEF last, crowded, gone1, gone2
<1>11. /\ B2 \in SUBSET Batch /\ HomesOf(last, B2)
       /\ Keeps(last, B2, kept, B1)
       /\ Newcomers(B2, B1)
  <2>1. Handed(B2, B1, kept, gone2)
    BY DEF Handed
  <2> HIDE DEF B2
  <2> QED
    BY ONLY <1>6, <1>7, <1>8, <2>1, HandedHomes
<1>12. batches \subseteq B2
  BY DEF B1
<1> HIDE DEF B2
<1>13. Newcomers(B2, batches)
  BY <1>7, <1>11 DEF Newcomers
<1>14. \A d \in Captures : Held(last, B2, d) => Held(buffers, batches, d) \/ d = c
  BY <1>5, <1>7, <1>11 DEF Keeps
<1>15. \A d \in Captures : Kept(last, B2, d) => Kept(buffers, batches, d) \/ d = c
  BY <1>5, <1>7, <1>11 DEF Keeps
<1> QED
  BY ONLY <1>8, <1>9, <1>10, <1>11, <1>12, <1>13, <1>14, <1>15

LEMMA CaptureInv ==
    ASSUME DistillInv, NEW c \in Captures, NEW s \in SessionsOf[c], Capture(c, s)
    PROVE  DistillInv'
<1>1. /\ capture[c].new /\ capture' = [capture EXCEPT ![c] = Fresh]
      /\ UNCHANGED <<rewrites, tries, crossed, failed, erased>>
      /\ capture \in [Captures -> CaptureRow]
  BY DEF Capture, distillHistories, DistillInv, Shape
<1>2. /\ capture' \in [Captures -> CaptureRow]
      /\ \A d \in Captures : capture'[d] = IF d = c THEN Fresh ELSE capture[d]
  BY <1>1 DEF Fresh, CaptureRow
<1>3. /\ buffers' \in Seq(Buffer) /\ batches' \in SUBSET Batch /\ batches \subseteq batches'
      /\ HomesOf(buffers', batches')
      /\ \A d \in Captures : Held(buffers', batches', d) => Held(buffers, batches, d) \/ d = c
      /\ \A d \in Captures : Kept(buffers', batches', d) => Kept(buffers, batches, d) \/ d = c
      /\ Newcomers(batches', batches)
  <2>1. CASE s = NoSession
    <3> DEFINE w == Waiting("direct", {c})
    <3>1. batches' = batches \cup {w} /\ buffers' = buffers
      BY <2>1 DEF Capture
    <3>2. /\ w \in Batch /\ w.by = "direct" /\ w.step = "wait" /\ w.items = {c}
          /\ w.left = {c} /\ w.done = {}
      BY WaitingFacts DEF BatchKinds
    <3> HIDE DEF w
    <3>3. ~Held(buffers, batches, c)
      BY <1>1 DEF DistillInv, NewSound
    <3>4. HomesOf(buffers, batches')
      <4>1. \A k \in DOMAIN buffers : w.items \cap buffers[k].items = {}
        BY <3>2, <3>3 DEF Held
      <4>2. \A b \in batches : b.by # "promoter" => b.items \cap w.items = {}
        BY <3>2, <3>3 DEF Held
      <4> QED
        BY <3>1, <3>2, <4>1, <4>2 DEF DistillInv, HomesOf
    <3>5. \A d \in Captures : Held(buffers, batches', d) => Held(buffers, batches, d) \/ d = c
      BY <3>1, <3>2 DEF Held
    <3>6. \A d \in Captures : Kept(buffers, batches', d) => Kept(buffers, batches, d) \/ d = c
      BY <3>1, <3>2 DEF Kept
    <3>7. Newcomers(batches', batches)
      BY <3>1, <3>2 DEF Newcomers
    <3>8. buffers' \in Seq(Buffer) /\ batches' \in SUBSET Batch
      BY <3>1, <3>2 DEF DistillInv, Shape
    <3> QED
      BY ONLY <3>1, <3>4, <3>5, <3>6, <3>7, <3>8
  <2>2. CASE s \in Sessions /\ s # NoSession
    <3>1. Enqueue(c, s)
      BY <2>2 DEF Capture
    <3> QED
      BY <1>1, <2>2, <3>1, EnqueueHomes
  <2>3. s \in Sessions \cup {NoSession}
    BY DistillationAssumption
  <2> QED
    BY <2>1, <2>2, <2>3
<1> DEFINE entered == {c}
<1>4. /\ entered \in SUBSET Captures
      /\ \A d \in entered : capture[d].new
      /\ \A d \in Captures : capture'[d] = IF d \in entered THEN Fresh ELSE capture[d]
      /\ \A d \in Captures : Held(buffers', batches', d) => Held(buffers, batches, d) \/ d \in entered
      /\ \A d \in Captures : Kept(buffers', batches', d) => Kept(buffers, batches, d) \/ d \in entered
  BY <1>1, <1>2, <1>3
<1> HIDE DEF entered
<1> QED
  BY ONLY DistillInv, <1>1, <1>2, <1>3, <1>4, HandoverInv

\* The buffers that have waited long enough leave, the oldest first.
LEMMA AgeFlushInv ==
    ASSUME DistillInv, AgeFlush \/ FinalFlush
    PROVE  DistillInv'
<1>1. UNCHANGED <<capture, rewrites, tries, crossed, failed, erased>>
  BY DEF AgeFlush, FinalFlush, distillHistories
<1>2. buffers \in Seq(Buffer) /\ batches \in SUBSET Batch /\ HomesOf(buffers, batches)
  BY DEF DistillInv, Shape
<1>3. \E n \in 0 .. Len(buffers) :
        /\ batches' = batches \cup Flushes(n)
        /\ buffers' = (IF n = 0 THEN buffers ELSE SubSeq(buffers, n + 1, Len(buffers)))
  <2>1. Len(buffers) \in Nat
    BY <1>2
  <2>2. CASE AgeFlush
    BY <2>1, <2>2 DEF AgeFlush
  <2>3. CASE FinalFlush
    <3>1. batches' = batches \cup Flushes(Len(buffers)) /\ buffers' = <<>>
      BY <2>3 DEF FinalFlush
    <3>2. CASE Len(buffers) = 0
      <4>1. buffers = <<>>
        BY <1>2, <3>2, EmptySeq
      <4> QED
        BY <3>1, <3>2, <4>1
    <3>3. CASE Len(buffers) # 0
      <4>1. SubSeq(buffers, Len(buffers) + 1, Len(buffers)) = <<>>
        <5>1. Len(buffers) + 1 \in Int /\ Len(buffers) \in Int /\ Len(buffers) < Len(buffers) + 1
          BY <2>1
        <5> QED
          BY ONLY <5>1, SubSeqEmpty
      <4> QED
        BY <2>1, <3>1, <3>3, <4>1
    <3> QED
      BY <3>2, <3>3
  <2> QED
    BY <2>2, <2>3
<1>4. PICK n \in 0 .. Len(buffers) :
        /\ batches' = batches \cup Flushes(n)
        /\ buffers' = (IF n = 0 THEN buffers ELSE SubSeq(buffers, n + 1, Len(buffers)))
  BY <1>3
<1>5. Len(buffers) \in Nat /\ DOMAIN buffers = 1 .. Len(buffers)
  BY <1>2
<1>6. Flushes(n) = {Waiting("session", buffers[g].items) : g \in 1 .. n}
  BY DEF Flushes
<1>7. buffers' \in Seq(Buffer) /\ Within(buffers', buffers, 1 .. n) /\ 1 .. n \in SUBSET DOMAIN buffers
  <2>1. CASE n = 0
    <3>1. buffers' = buffers /\ 1 .. n = {}
      BY <1>4, <2>1
    <3> DEFINE at == [k \in DOMAIN buffers |-> k]
    <3>2. at \in [DOMAIN buffers -> DOMAIN buffers] /\ \A k \in DOMAIN buffers : at[k] = k
      OBVIOUS
    <3> HIDE DEF at
    <3>3. Within(buffers, buffers, {})
      BY <3>2 DEF Within
    <3> QED
      BY <1>2, <3>1, <3>3
  <2>2. CASE n # 0
    <3>1. n \in 1 .. Len(buffers) /\ buffers' = SubSeq(buffers, n + 1, Len(buffers))
      BY <1>4, <1>5, <2>2
    <3>2. 1 .. n \in SUBSET DOMAIN buffers
      BY <1>5, <3>1
    <3> QED
      BY <1>2, <3>1, <3>2, LaterFacts
  <2> QED
    BY <2>1, <2>2
<1>8. /\ batches' \in SUBSET Batch /\ HomesOf(buffers', batches')
      /\ Keeps(buffers', batches', buffers, batches)
      /\ Newcomers(batches', batches)
  <2> DEFINE gone == 1 .. n
  <2>1. Handed(batches', batches, buffers, gone)
    BY <1>4, <1>6 DEF Handed
  <2>2. Within(buffers', buffers, gone) /\ gone \in SUBSET DOMAIN buffers /\ buffers' \in Seq(Buffer)
    BY <1>7
  <2> HIDE DEF gone
  <2> QED
    BY ONLY <1>2, <2>1, <2>2, HandedHomes
<1> DEFINE entered == {}
<1>9. /\ batches \subseteq batches' /\ entered \in SUBSET Captures
      /\ capture' \in [Captures -> CaptureRow]
      /\ \A c \in Captures : capture'[c] = IF c \in entered THEN Fresh ELSE capture[c]
      /\ \A c \in entered : capture[c].new
      /\ \A c \in Captures : Held(buffers', batches', c) => Held(buffers, batches, c) \/ c \in entered
      /\ \A c \in Captures : Kept(buffers', batches', c) => Kept(buffers, batches, c) \/ c \in entered
  BY <1>1, <1>4, <1>8 DEF DistillInv, Shape, Keeps
<1> HIDE DEF entered
<1> QED
  BY ONLY DistillInv, <1>1, <1>7, <1>8, <1>9, HandoverInv
-----------------------------------------------------------------------------
(***************************************************************************)
(* Steps of one batch.                                                     *)
(***************************************************************************)
\* What every step of a batch leaves alone, and cannot widen.
Follows(next, b) ==
    /\ next \in Batch /\ next.by = b.by /\ next.items = b.items
    /\ next.left \subseteq b.left /\ next.done \subseteq b.left \cup b.done
    /\ next.step = "wait" => next.done = {}
    /\ next.step = "retier" => next.by = "promoter"

LEMMA FollowsFacts ==
    ASSUME DistillInv, NEW b \in batches, NEW next, Follows(next, b), Become(b, next),
           buffers' = buffers
    PROVE  /\ batches' \in SUBSET Batch /\ Orderly' /\ OnePromoter'
           /\ HomesOf(buffers', batches')
           /\ \A c : /\ Held(buffers', batches', c) => Held(buffers, batches, c)
                     /\ Kept(buffers', batches', c) => Kept(buffers, batches, c)
                     /\ Listed(batches', c) => Listed(batches, c)
           /\ \A o \in batches' : \E p \in batches : o.by = p.by /\ o.items = p.items
<1>1. /\ next \in Batch /\ next.by = b.by /\ next.items = b.items
      /\ next.left \subseteq b.left /\ next.done \subseteq b.left \cup b.done
      /\ next.step = "wait" => next.done = {}
      /\ next.step = "retier" => next.by = "promoter"
      /\ batches' = (batches \ {b}) \cup {next}
  BY DEF Follows, Become
<1>2. batches \in SUBSET Batch /\ Orderly /\ OnePromoter /\ HomesOf(buffers, batches)
  BY DEF DistillInv, Shape
<1>3. \A o \in batches' : (o \in batches /\ o # b) \/ o = next
  BY <1>1
<1>4. batches' \in SUBSET Batch
  BY <1>1, <1>2
<1>5. Orderly'
  BY <1>1, <1>2, <1>3 DEF Orderly
<1>6. OnePromoter'
  BY <1>1, <1>2, <1>3 DEF OnePromoter
<1>7. HomesOf(buffers', batches')
  <2>1. ASSUME NEW o \in batches', o.by # "promoter"
        PROVE  /\ \A k \in DOMAIN buffers : o.items \cap buffers[k].items = {}
               /\ \A p \in batches' : p.by # "promoter" /\ p # o => p.items \cap o.items = {}
    <3>1. CASE o = next
      <4>1. b.by # "promoter" /\ o.items = b.items
        BY <1>1, <2>1, <3>1
      <4> QED
        BY <1>2, <1>3, <3>1, <4>1 DEF HomesOf
    <3>2. CASE o \in batches /\ o # b
      <4>1. ASSUME NEW p \in batches', p.by # "promoter", p # o PROVE p.items \cap o.items = {}
        <5>1. CASE p = next
          <6>1. b.by # "promoter" /\ p.items = b.items
            BY <1>1, <4>1, <5>1
          <6> QED
            BY <1>2, <2>1, <3>2, <6>1 DEF HomesOf
        <5>2. CASE p \in batches
          BY <1>2, <2>1, <3>2, <4>1, <5>2 DEF HomesOf
        <5> QED
          BY <1>3, <5>1, <5>2
      <4> QED
        BY <1>2, <2>1, <3>2, <4>1 DEF HomesOf
    <3> QED
      BY <1>3, <3>1, <3>2
  <2> QED
    BY <1>2, <2>1 DEF HomesOf
<1>8. ASSUME NEW c
      PROVE  /\ Held(buffers', batches', c) => Held(buffers, batches, c)
             /\ Kept(buffers', batches', c) => Kept(buffers, batches, c)
             /\ Listed(batches', c) => Listed(batches, c)
  <2>1. Held(buffers', batches', c) => Held(buffers, batches, c)
    BY <1>1, <1>3 DEF Held
  <2>2. Kept(buffers', batches', c) => Kept(buffers, batches, c)
    BY <1>1, <1>3 DEF Kept
  <2>3. Listed(batches', c) => Listed(batches, c)
    BY <1>1, <1>3 DEF Listed
  <2> QED
    BY <2>1, <2>2, <2>3
<1>9. \A o \in batches' : \E p \in batches : o.by = p.by /\ o.items = p.items
  BY <1>1, <1>3
<1> QED
  BY <1>4, <1>5, <1>6, <1>7, <1>8, <1>9

\* The batch goes on and nothing is written.
LEMMA GoesOnInv ==
    ASSUME DistillInv, NEW b \in batches, NEW next, Follows(next, b), Become(b, next),
           UNCHANGED <<capture, rewrites, buffers, tries, failed, crossed, erased>>,
           StampedBy(next) = StampedBy(b)
    PROVE  DistillInv'
<1>1. /\ batches' \in SUBSET Batch /\ Orderly' /\ OnePromoter'
      /\ HomesOf(buffers', batches')
      /\ \A c : /\ Held(buffers', batches', c) => Held(buffers, batches, c)
                /\ Kept(buffers', batches', c) => Kept(buffers, batches, c)
                /\ Listed(batches', c) => Listed(batches, c)
      /\ \A o \in batches' : \E p \in batches : o.by = p.by /\ o.items = p.items
  BY FollowsFacts
<1>2. batches' = (batches \ {b}) \cup {next} /\ next.by = b.by
  BY DEF Become, Follows
<1>3. Shape'
  BY <1>1 DEF DistillInv, Shape
<1>4. NewSound' /\ Apace'
  BY <1>1 DEF DistillInv, NewSound, Apace
<1>5. \A c : (Pledged(batches', c) => Pledged(batches, c)) /\ (Asked(batches', c) => Asked(batches, c))
  BY <1>2 DEF Pledged, Asked
<1>6. FewCalls'
  BY <1>1, <1>5, NoMoreCalls DEF FewCalls
<1>7. StampedMeansTried' /\ RewritesTried'
  <2>1. \A o \in batches : \A c \in StampedBy(o) : \E p \in batches' : c \in StampedBy(p)
    BY <1>2
  <2> QED
    BY <2>1, StillTried
<1> QED
  BY <1>1, <1>3, <1>4, <1>6, <1>7 DEF DistillInv

\* The batch goes on and writes the row of one of its sources.
LEMMA WritesInv ==
    ASSUME DistillInv, NEW b \in batches, NEW next, Follows(next, b), Become(b, next),
           UNCHANGED <<rewrites, buffers, tries, failed, crossed, erased>>,
           NEW c \in b.left, NEW st \in BOOLEAN,
           capture' = [capture EXCEPT ![c] = Written(b, st)],
           ~st => b.by = "promoter" /\ StampedBy(next) = StampedBy(b),
           st => StampedBy(next) = StampedBy(b) \cup {c} /\ next.left = b.left \ {c}
    PROVE  DistillInv'
<1>1. /\ batches' \in SUBSET Batch /\ Orderly' /\ OnePromoter'
      /\ HomesOf(buffers', batches')
      /\ \A d : /\ Held(buffers', batches', d) => Held(buffers, batches, d)
                /\ Kept(buffers', batches', d) => Kept(buffers, batches, d)
                /\ Listed(batches', d) => Listed(batches, d)
      /\ \A o \in batches' : \E p \in batches : o.by = p.by /\ o.items = p.items
  BY FollowsFacts
<1>2. batches' = (batches \ {b}) \cup {next} /\ next.by = b.by /\ next.items = b.items
  BY DEF Become, Follows
<1>3. /\ capture \in [Captures -> CaptureRow]
      /\ b \in Batch /\ c \in b.items /\ c \in Captures
  BY BatchFacts DEF DistillInv, Shape, Orderly
<1>4. Written(b, st) \in CaptureRow
      /\ ~Written(b, st).new /\ Written(b, st).stamped = st
  BY DEF Written, Fresh, CaptureRow
<1>5. /\ capture' \in [Captures -> CaptureRow]
      /\ capture'[c] = Written(b, st)
      /\ \A d \in Captures : d # c => capture'[d] = capture[d]
  BY <1>3, <1>4
<1>6. Shape'
  BY <1>1, <1>5 DEF DistillInv, Shape
<1>7. ~capture[c].new
  BY <1>3 DEF DistillInv, NewSound
<1>8. NewSound'
  <2>1. ASSUME NEW d \in Captures, capture'[d].new
        PROVE  /\ tries[d] = 0 /\ ~capture'[d].hot /\ ~capture'[d].stamped
               /\ ~Held(buffers', batches', d) /\ \A o \in batches' : d \notin o.items
    <3>1. d # c /\ capture'[d] = capture[d]
      BY <1>4, <1>5, <2>1
    <3> QED
      BY <1>1, <2>1, <3>1 DEF DistillInv, NewSound
  <2>2. ASSUME NEW w \in rewrites PROVE ~capture'[w.of].new /\ ~w.row.new
    <3>1. w.of \in Captures /\ ~capture[w.of].new /\ ~w.row.new
      BY DEF DistillInv, NewSound, Shape
    <3> QED
      BY <1>4, <1>5, <3>1
  <2> QED
    BY <2>1, <2>2 DEF NewSound
<1>9. Apace'
  <2>1. \A d \in Captures : capture'[d].new => capture[d].new
    BY <1>4, <1>5
  <2> QED
    BY <1>1, <2>1 DEF DistillInv, Apace
<1>10. \A d : d # c => /\ Pledged(batches', d) => Pledged(batches, d)
                       /\ Asked(batches', d) => Asked(batches, d)
  <2>1. \A o \in batches' : \E p \in batches :
          o.by = p.by /\ \A d : d # c /\ d \in StampedBy(o) => d \in StampedBy(p)
    BY <1>2
  <2> QED
    BY <2>1 DEF Pledged, Asked
<1>11. FewCalls'
  <2> SUFFICES ASSUME NEW d \in Captures
               PROVE  /\ tries[d] + Chances(d)' <= 2 + erased[d]
                      /\ d \notin crossed => tries[d] + LoneChances(d)' <= 1 + erased[d]
    BY DEF FewCalls
  <2>1. CASE d # c
    BY <1>1, <1>5, <1>10, <2>1, NoMoreCalls
  <2>2. CASE d = c /\ ~st
    <3>1. Listed(batches, c)
      BY <2>2 DEF Listed
    <3>2. \A o \in batches' : \E p \in batches : o.by = p.by /\ StampedBy(o) = StampedBy(p)
      BY <1>2, <2>2
    <3>3. (Pledged(batches', c) => Pledged(batches, c)) /\ (Asked(batches', c) => Asked(batches, c))
      BY <3>2 DEF Pledged, Asked
    <3> QED
      BY <1>1, <2>2, <3>1, <3>3, NoMoreCalls
  <2>3. CASE d = c /\ st /\ b.by # "promoter"
    <3>1. capture'[c].stamped /\ Kept(buffers, batches, c)
      BY <1>4, <1>5, <2>3 DEF Kept
    <3>2. ~Kept(buffers', batches', c)
      <4>1. \A k \in DOMAIN buffers : c \notin buffers[k].items
        BY <1>3, <2>3 DEF DistillInv, HomesOf
      <4>2. \A o \in batches : o.by # "promoter" /\ o # b => c \notin o.left
        BY <1>3, <2>3, StampedByFacts DEF DistillInv, HomesOf
      <4> QED
        BY <1>2, <2>3, <4>1, <4>2 DEF Kept
    <3>3. Asked(batches', c) => Asked(batches, c)
      BY <1>2, <2>3 DEF Asked
    <3>4. c \notin crossed => ~Listed(batches', c)
      <4>1. Held(buffers, batches, c)
        BY <1>3, <2>3 DEF Held
      <4>2. c \notin crossed => ~Listed(batches, c)
        BY <1>3, <4>1, StampedByFacts DEF DistillInv, Apace, Listed
      <4> QED
        BY <1>1, <4>2
    <3> QED
      BY <1>1, <1>3, <2>3, <3>1, <3>2, <3>3, <3>4, StampedFirst
  <2>4. CASE d = c /\ st /\ b.by = "promoter"
    <3>1. capture'[c].stamped /\ Listed(batches, c)
      BY <1>4, <1>5, <2>4 DEF Listed
    <3>2. ~Listed(batches', c)
      <4>1. \A o \in batches : o # b => o.by # "promoter"
        BY <2>4 DEF DistillInv, OnePromoter
      <4> QED
        BY <1>2, <2>4, <4>1 DEF Listed
    <3>3. Pledged(batches', c) => Pledged(batches, c)
      BY <1>2, <2>4 DEF Pledged
    <3>4. c \notin crossed => ~Kept(buffers', batches', c)
      <4>1. c \notin crossed => ~Held(buffers, batches, c)
        BY <1>3, <2>4 DEF DistillInv, Apace
      <4>2. Kept(buffers, batches, c) => Held(buffers, batches, c)
        BY StampedByFacts DEF Kept, Held
      <4> QED
        BY <1>1, <4>1, <4>2
    <3> QED
      BY <1>1, <1>3, <2>4, <3>1, <3>2, <3>3, <3>4, StampedLater
  <2> QED
    BY <2>1, <2>2, <2>3, <2>4
<1>12. StampedMeansTried' /\ RewritesTried'
  <2>1. StampedBy(b) \subseteq StampedBy(next) /\ (st => c \in StampedBy(next))
    OBVIOUS
  <2>2. \A o \in batches : \A d \in StampedBy(o) : \E p \in batches' : d \in StampedBy(p)
    BY <1>2, <2>1
  <2>3. \A d \in Captures : capture'[d].stamped =>
          capture[d].stamped \/ \E o \in batches' : d \in StampedBy(o)
    BY <1>2, <1>4, <1>5, <2>1
  <2> QED
    BY <2>2, <2>3, StillTried
<1> QED
  BY <1>1, <1>6, <1>8, <1>9, <1>11, <1>12 DEF DistillInv

\* The steps of a batch that goes on.
LEMMA OnwardInv ==
    ASSUME DistillInv, NEW b \in batches,
           \/ Acquire(b) \/ RetierDone(b) \/ StampDone(b)
           \/ \E c \in Captures : RetierSource(b, c) \/ StampSource(b, c) \/ StampRefused(b, c)
    PROVE  DistillInv'
<1>1. /\ b \in Batch /\ b.by \in BatchKinds /\ b.step \in BatchSteps
      /\ b.items \in SUBSET Captures /\ b.left \in SUBSET Captures /\ b.done \in SUBSET Captures
      /\ b.step = "wait" => b.done = {}
      /\ b.step = "retier" => b.by = "promoter"
  BY BatchFacts DEF DistillInv, Shape, Orderly
<1>2. CASE Acquire(b)
  <2> DEFINE next == [b EXCEPT !.step = "stamp"]
  <2>1. /\ Become(b, next) /\ b.step = "wait"
        /\ UNCHANGED <<capture, rewrites, buffers, tries, failed, crossed, erased>>
    BY <1>2 DEF Acquire, distillHistories
  <2>2. /\ next \in Batch /\ next.step = "stamp" /\ next.by = b.by /\ next.items = b.items
        /\ next.left = b.left /\ next.done = b.done
    BY <1>1 DEF Batch, BatchSteps
  <2> HIDE DEF next
  <2>3. Follows(next, b) /\ StampedBy(next) = StampedBy(b)
    BY <1>1, <2>1, <2>2 DEF Follows, StampedBy
  <2> QED
    BY <2>1, <2>3, GoesOnInv
<1>3. CASE RetierDone(b)
  <2> DEFINE next == [b EXCEPT !.step = "stamp", !.done = {}]
  <2>1. /\ Become(b, next) /\ b.step = "retier"
        /\ UNCHANGED <<capture, rewrites, buffers, tries, failed, crossed, erased>>
    BY <1>3 DEF RetierDone, distillHistories
  <2>2. /\ next \in Batch /\ next.step = "stamp" /\ next.by = b.by /\ next.items = b.items
        /\ next.left = b.left /\ next.done = {}
    BY <1>1 DEF Batch, BatchSteps
  <2> HIDE DEF next
  <2>3. Follows(next, b) /\ StampedBy(next) = StampedBy(b)
    BY <1>1, <2>1, <2>2 DEF Follows, StampedBy
  <2> QED
    BY <2>1, <2>2, <2>3, GoesOnInv
<1>4. CASE StampDone(b)
  <2> DEFINE next == [b EXCEPT !.step = "distill"]
  <2>1. /\ Become(b, next) /\ b.step = "stamp"
        /\ UNCHANGED <<capture, rewrites, buffers, tries, failed, crossed, erased>>
    BY <1>4 DEF StampDone, distillHistories
  <2>2. /\ next \in Batch /\ next.step = "distill" /\ next.by = b.by /\ next.items = b.items
        /\ next.left = b.left /\ next.done = b.done
    BY <1>1 DEF Batch, BatchSteps
  <2> HIDE DEF next
  <2>3. Follows(next, b) /\ StampedBy(next) = StampedBy(b)
    BY <1>1, <2>1, <2>2 DEF Follows, StampedBy
  <2> QED
    BY <2>1, <2>2, <2>3, GoesOnInv
<1>5. ASSUME NEW c \in Captures, RetierSource(b, c) PROVE DistillInv'
  <2> DEFINE next == [b EXCEPT !.done = @ \cup {c}]
  <2>1. /\ Become(b, next) /\ b.step = "retier" /\ c \in b.left
        /\ capture' = [capture EXCEPT ![c] = Written(b, FALSE)]
        /\ UNCHANGED <<rewrites, buffers, tries, failed, crossed, erased>>
    BY <1>5 DEF RetierSource, distillHistories
  <2>2. /\ next \in Batch /\ next.step = b.step /\ next.by = b.by /\ next.items = b.items
        /\ next.left = b.left /\ next.done = b.done \cup {c}
    BY <1>1 DEF Batch
  <2> HIDE DEF next
  <2>3. Follows(next, b) /\ b.by = "promoter" /\ StampedBy(next) = StampedBy(b)
    BY <1>1, <2>1, <2>2 DEF Follows, StampedBy
  <2> QED
    BY <2>1, <2>3, WritesInv
<1>6. ASSUME NEW c \in Captures, StampSource(b, c) PROVE DistillInv'
  <2> DEFINE next == [b EXCEPT !.left = @ \ {c}, !.done = @ \cup {c}]
  <2>1. /\ Become(b, next) /\ b.step = "stamp" /\ c \in b.left
        /\ capture' = [capture EXCEPT ![c] = Written(b, TRUE)]
        /\ UNCHANGED <<rewrites, buffers, tries, failed, crossed, erased>>
    BY <1>6 DEF StampSource, distillHistories
  <2>2. /\ next \in Batch /\ next.step = b.step /\ next.by = b.by /\ next.items = b.items
        /\ next.left = b.left \ {c} /\ next.done = b.done \cup {c}
    BY <1>1 DEF Batch
  <2> HIDE DEF next
  <2>3. Follows(next, b) /\ StampedBy(next) = StampedBy(b) \cup {c}
    BY <1>1, <2>1, <2>2 DEF Follows, StampedBy
  <2> QED
    BY <2>1, <2>2, <2>3, WritesInv
<1>7. ASSUME NEW c \in Captures, StampRefused(b, c) PROVE DistillInv'
  <2> DEFINE next == [b EXCEPT !.left = @ \ {c}]
  <2>1. /\ Become(b, next) /\ b.step = "stamp"
        /\ UNCHANGED <<capture, rewrites, buffers, tries, failed, crossed, erased>>
    BY <1>7 DEF StampRefused, distillHistories
  <2>2. /\ next \in Batch /\ next.step = b.step /\ next.by = b.by /\ next.items = b.items
        /\ next.left = b.left \ {c} /\ next.done = b.done
    BY <1>1 DEF Batch
  <2> HIDE DEF next
  <2>3. Follows(next, b) /\ StampedBy(next) = StampedBy(b)
    BY <1>1, <2>1, <2>2 DEF Follows, StampedBy
  <2> QED
    BY <2>1, <2>2, <2>3, GoesOnInv
<1> QED
  BY <1>2, <1>3, <1>4, <1>5, <1>6, <1>7

\* The LLM is asked about the sources of a batch that are stamped.
LEMMA DistillBatchInv ==
    ASSUME DistillInv, NEW b \in batches, DistillBatch(b)
    PROVE  DistillInv'
<1>1. /\ batches' = batches \ {b} /\ b.step = "distill"
      /\ UNCHANGED <<capture, rewrites, buffers, failed, crossed, erased>>
      /\ tries' = [c \in Captures |-> IF c \in b.done THEN tries[c] + 1 ELSE tries[c]]
  BY DEF DistillBatch, Drop
<1>2. /\ tries \in [Captures -> Nat] /\ b \in Batch
      /\ StampedBy(b) = b.done /\ b.done \subseteq b.items /\ b.items \in SUBSET Captures
  BY <1>1, StampedByFacts DEF DistillInv, Shape
<1>3. /\ tries' \in [Captures -> Nat]
      /\ \A c \in Captures : tries'[c] = IF c \in b.done THEN tries[c] + 1 ELSE tries[c]
  BY <1>1, <1>2
<1>4. Shape' /\ Orderly' /\ OnePromoter'
  BY <1>1, <1>3 DEF DistillInv, Shape, Orderly, OnePromoter
<1>5. HomesOf(buffers', batches')
  BY <1>1 DEF DistillInv, HomesOf
<1>6. ASSUME NEW c \in Captures
      PROVE  /\ Held(buffers', batches', c) => Held(buffers, batches, c)
             /\ Kept(buffers', batches', c) => Kept(buffers, batches, c)
             /\ Pledged(batches', c) => Pledged(batches, c)
             /\ Asked(batches', c) => Asked(batches, c)
             /\ Listed(batches', c) => Listed(batches, c)
  BY <1>1 DEF Held, Kept, Pledged, Asked, Listed
<1>7. NewSound'
  <2>1. \A c \in b.done : ~capture[c].new
    BY <1>2 DEF DistillInv, NewSound
  <2>2. ASSUME NEW c \in Captures, capture[c].new
        PROVE  /\ tries'[c] = 0 /\ ~capture[c].hot /\ ~capture[c].stamped
               /\ ~Held(buffers', batches', c) /\ \A o \in batches' : c \notin o.items
    <3>1. tries'[c] = tries[c]
      BY <1>3, <2>1, <2>2
    <3> QED
      BY <1>1, <1>6, <2>2, <3>1 DEF DistillInv, NewSound
  <2> QED
    BY <1>1, <2>2 DEF DistillInv, NewSound
<1>8. Apace'
  BY <1>1, <1>6 DEF DistillInv, Apace
<1>9. FewCalls'
  <2> SUFFICES ASSUME NEW c \in Captures
               PROVE  /\ tries'[c] + Chances(c)' <= 2 + erased[c]
                      /\ c \notin crossed => tries'[c] + LoneChances(c)' <= 1 + erased[c]
    BY <1>1 DEF FewCalls
  <2> DEFINE k == Kept(buffers, batches, c) \/ Pledged(batches, c)
             l == Listed(batches, c) \/ ~capture[c].stamped
             m == Kept(buffers, batches, c) \/ Listed(batches, c) \/ ~capture[c].stamped
             s == Pledged(batches, c)
             a == Asked(batches, c)
             k2 == Kept(buffers', batches', c) \/ Pledged(batches', c)
             l2 == Listed(batches', c) \/ ~capture'[c].stamped
             m2 == Kept(buffers', batches', c) \/ Listed(batches', c) \/ ~capture'[c].stamped
             s2 == Pledged(batches', c)
             a2 == Asked(batches', c)
  <2>1. (k2 => k) /\ (l2 => l) /\ (m2 => m) /\ (s2 => s) /\ (a2 => a)
    BY <1>1, <1>6
  <2>2. ASSUME c \in b.done, b.by = "promoter" PROVE a /\ ~a2
    <3>1. \A o \in batches' : o.by # "promoter"
      BY <1>1, <2>2 DEF DistillInv, OnePromoter
    <3> QED
      BY <1>2, <2>2, <3>1 DEF Asked
  <2>3. ASSUME c \in b.done, b.by # "promoter" PROVE k /\ s /\ ~k2 /\ ~s2
    <3>1. \A i \in DOMAIN buffers : c \notin buffers[i].items
      BY <1>2, <2>3 DEF DistillInv, HomesOf
    <3>2. \A o \in batches' : o.by # "promoter" => c \notin o.items
      BY <1>1, <1>2, <2>3 DEF DistillInv, HomesOf
    <3>3. \A o \in batches' : o.left \subseteq o.items /\ StampedBy(o) \subseteq o.items
      BY <1>1, StampedByFacts
    <3>4. ~k2 /\ ~s2
      BY <1>1, <3>1, <3>2, <3>3 DEF Kept, Pledged
    <3> QED
      BY <1>2, <2>3, <3>4 DEF Pledged
  <2>4. /\ Chances(c)' = One(k2) + One(a2) + One(l2)
        /\ LoneChances(c)' = One(s2) + One(a2) + One(m2)
        /\ Chances(c) = One(k) + One(a) + One(l)
        /\ LoneChances(c) = One(s) + One(a) + One(m)
    BY DEF Chances, LoneChances
  <2> HIDE DEF k, l, m, s, a, k2, l2, m2, s2, a2
  <2>5. /\ One(k2) <= One(k) /\ One(l2) <= One(l) /\ One(m2) <= One(m)
        /\ One(s2) <= One(s) /\ One(a2) <= One(a)
    BY ONLY <2>1, OneFacts
  <2>6. /\ One(k) \in Nat /\ One(l) \in Nat /\ One(m) \in Nat /\ One(s) \in Nat /\ One(a) \in Nat
        /\ One(k2) \in Nat /\ One(l2) \in Nat /\ One(m2) \in Nat /\ One(s2) \in Nat
        /\ One(a2) \in Nat
    BY OneFacts
  <2>7. /\ tries[c] \in Nat /\ erased[c] \in Nat
        /\ tries[c] + Chances(c) <= 2 + erased[c]
        /\ c \notin crossed => tries[c] + LoneChances(c) <= 1 + erased[c]
    BY DEF DistillInv, Shape, FewCalls
  <2>8. /\ tries'[c] + Chances(c)' <= tries[c] + Chances(c)
        /\ tries'[c] + LoneChances(c)' <= tries[c] + LoneChances(c)
    <3>1. CASE c \notin b.done
      <4>1. tries'[c] = tries[c]
        BY <1>3, <3>1
      <4> QED
        BY ONLY <2>4, <2>5, <2>6, <2>7, <4>1
    <3>2. CASE c \in b.done /\ b.by = "promoter"
      <4>1. tries'[c] = tries[c] + 1 /\ One(a) = 1 /\ One(a2) = 0
        BY <1>3, <2>2, <3>2, OneFacts
      <4> QED
        BY ONLY <2>4, <2>5, <2>6, <2>7, <4>1
    <3>3. CASE c \in b.done /\ b.by # "promoter"
      <4>1. tries'[c] = tries[c] + 1 /\ One(k) = 1 /\ One(s) = 1 /\ One(k2) = 0 /\ One(s2) = 0
        BY <1>3, <2>3, <3>3, OneFacts
      <4> QED
        BY ONLY <2>4, <2>5, <2>6, <2>7, <4>1
    <3> QED
      BY <3>1, <3>2, <3>3
  <2>9. /\ tries'[c] \in Nat /\ Chances(c) \in Nat /\ Chances(c)' \in Nat
        /\ LoneChances(c) \in Nat /\ LoneChances(c)' \in Nat
    BY <1>3, <2>4, <2>6
  <2>10. tries'[c] + Chances(c)' <= 2 + erased[c]
    BY ONLY <2>7, <2>8, <2>9
  <2>11. ASSUME c \notin crossed PROVE tries'[c] + LoneChances(c)' <= 1 + erased[c]
    <3>1. tries[c] + LoneChances(c) <= 1 + erased[c]
      BY <2>7, <2>11
    <3> QED
      BY ONLY <2>7, <2>8, <2>9, <3>1
  <2> QED
    BY <2>10, <2>11
<1>10. \A c \in Captures : Tried(c) => Tried(c)'
  <2>1. ASSUME NEW c \in Captures, Tried(c)
        PROVE  tries'[c] > 0 \/ c \in failed \/ \E o \in batches' : c \in StampedBy(o)
    <3>1. tries[c] > 0 \/ c \in failed \/ \E o \in batches : c \in StampedBy(o)
      BY <2>1 DEF Tried
    <3>2. tries[c] \in Nat /\ (c \in b.done => tries'[c] > 0) /\ (tries[c] > 0 => tries'[c] > 0)
      BY <1>2, <1>3
    <3> QED
      BY <1>1, <1>2, <3>1, <3>2
  <2> QED
    BY <1>1, <2>1 DEF Tried, StampedBy
<1>11. StampedMeansTried'
  BY <1>1, <1>10 DEF DistillInv, StampedMeansTried, Tried
<1>12. RewritesTried'
  BY <1>1, <1>10 DEF DistillInv, RewritesTried, Shape
<1> QED
  BY <1>4, <1>5, <1>7, <1>8, <1>9, <1>11, <1>12 DEF DistillInv
-----------------------------------------------------------------------------
(***************************************************************************)
(* A recall; the pass of the promoter; writes over a capture.              *)
(***************************************************************************)
LEMMA HeatUpInv ==
    ASSUME DistillInv, NEW c \in Captures, HeatUp(c)
    PROVE  DistillInv'
<1>1. /\ capture' = [capture EXCEPT ![c].hot = TRUE] /\ ~capture[c].new
      /\ UNCHANGED <<rewrites, buffers, batches, tries, failed, crossed, erased>>
      /\ capture \in [Captures -> CaptureRow]
  BY DEF HeatUp, distillHistories, DistillInv, Shape
<1>2. /\ capture' \in [Captures -> CaptureRow]
      /\ \A d \in Captures : /\ capture'[d].new = capture[d].new
                             /\ capture'[d].stamped = capture[d].stamped
                             /\ d # c => capture'[d] = capture[d]
  <2>1. capture[c] \in CaptureRow
    BY <1>1
  <2>2. /\ [capture[c] EXCEPT !.hot = TRUE] \in CaptureRow
        /\ [capture[c] EXCEPT !.hot = TRUE].new = capture[c].new
        /\ [capture[c] EXCEPT !.hot = TRUE].stamped = capture[c].stamped
    BY <2>1 DEF CaptureRow
  <2>3. capture' = [capture EXCEPT ![c] = [capture[c] EXCEPT !.hot = TRUE]]
    BY <1>1
  <2> QED
    BY <1>1, <2>2, <2>3
<1>3. Shape' /\ Orderly' /\ OnePromoter' /\ HomesOf(buffers', batches')
  BY <1>1, <1>2 DEF DistillInv, Shape, Orderly, OnePromoter
<1>4. NewSound'
  <2>1. ASSUME NEW d \in Captures, capture'[d].new
        PROVE  /\ tries[d] = 0 /\ ~capture'[d].hot /\ ~capture'[d].stamped
               /\ ~Held(buffers, batches, d) /\ \A b \in batches : d \notin b.items
    <3>1. d # c /\ capture'[d] = capture[d]
      BY <1>1, <1>2, <2>1
    <3> QED
      BY <2>1, <3>1 DEF DistillInv, NewSound
  <2>2. \A w \in rewrites : ~capture'[w.of].new /\ ~w.row.new
    BY <1>2 DEF DistillInv, NewSound, Shape
  <2> QED
    BY <1>1, <2>1, <2>2 DEF NewSound
<1>5. Apace'
  BY <1>1, <1>2 DEF DistillInv, Apace
<1>6. FewCalls'
  <2>1. /\ tries' = tries /\ erased' = erased /\ crossed \subseteq crossed'
        /\ \A d \in Captures : capture'[d].stamped = capture[d].stamped
        /\ \A d : /\ Kept(buffers', batches', d) = Kept(buffers, batches, d)
                  /\ Pledged(batches', d) = Pledged(batches, d)
                  /\ Asked(batches', d) = Asked(batches, d)
                  /\ Listed(batches', d) = Listed(batches, d)
    BY <1>1, <1>2
  <2> QED
    BY <2>1, NoMoreCalls DEF FewCalls
<1>7. StampedMeansTried' /\ RewritesTried'
  BY <1>1, <1>2 DEF DistillInv, StampedMeansTried, RewritesTried, Tried, StampedBy
<1> QED
  BY <1>3, <1>4, <1>5, <1>6, <1>7 DEF DistillInv

LEMMA PromoteInv ==
    ASSUME DistillInv, Promote
    PROVE  DistillInv'
<1> DEFINE items == {c \in Captures : Pending(capture[c])}
           next == [Waiting("promoter", items) EXCEPT !.step = "retier"]
<1>1. /\ ~Promoting /\ batches' = batches \cup {next}
      /\ crossed' = crossed \cup {c \in items : InHand(c)}
      /\ UNCHANGED <<capture, rewrites, buffers, tries, failed, erased>>
  BY DEF Promote
<1>2. /\ next \in Batch /\ next.by = "promoter" /\ next.step = "retier" /\ next.items = items
      /\ next.left = items /\ next.done = {}
  <2>1. items \in SUBSET Captures /\ "promoter" \in BatchKinds
    BY DEF BatchKinds
  <2> HIDE DEF items
  <2> QED
    BY <2>1 DEF Waiting, Batch, BatchSteps
<1>3. \A c \in items : c \in Captures /\ ~capture[c].stamped /\ ~capture[c].new
  BY DEF Pending, DistillInv, NewSound
<1> HIDE DEF items, next
<1>4. \A b \in batches : b.by # "promoter"
  BY <1>1 DEF Promoting
<1>5. Shape' /\ Orderly' /\ OnePromoter'
  BY <1>1, <1>2, <1>4 DEF DistillInv, Shape, Orderly, OnePromoter
<1>6. HomesOf(buffers', batches')
  BY <1>1, <1>2 DEF DistillInv, HomesOf
<1>7. \A o \in batches' : StampedBy(o) = {} \/ o \in batches
  BY <1>1, <1>2 DEF StampedBy
<1>8. ASSUME NEW c \in Captures
      PROVE  /\ Held(buffers', batches', c) <=> Held(buffers, batches, c)
             /\ Kept(buffers', batches', c) <=> Kept(buffers, batches, c)
             /\ Pledged(batches', c) => Pledged(batches, c)
             /\ Asked(batches', c) => Asked(batches, c)
             /\ Listed(batches', c) => ~capture[c].stamped
  <2>1. Held(buffers', batches', c) <=> Held(buffers, batches, c)
    BY <1>1, <1>2 DEF Held
  <2>2. Kept(buffers', batches', c) <=> Kept(buffers, batches, c)
    BY <1>1, <1>2 DEF Kept
  <2>3. (Pledged(batches', c) => Pledged(batches, c)) /\ (Asked(batches', c) => Asked(batches, c))
    BY <1>7 DEF Pledged, Asked
  <2>4. Listed(batches', c) => ~capture[c].stamped
    BY <1>1, <1>2, <1>3, <1>4 DEF Listed
  <2> QED
    BY <2>1, <2>2, <2>3, <2>4
<1>9. NewSound'
  <2>1. ASSUME NEW c \in Captures, capture[c].new
        PROVE  /\ tries[c] = 0 /\ ~capture[c].hot /\ ~capture[c].stamped
               /\ ~Held(buffers', batches', c) /\ \A b \in batches' : c \notin b.items
    BY <1>1, <1>2, <1>3, <1>8, <2>1 DEF DistillInv, NewSound
  <2> QED
    BY <1>1, <2>1 DEF DistillInv, NewSound
<1>10. Apace'
  <2>1. ASSUME NEW c \in Captures, c \notin crossed', Held(buffers, batches, c) \/ capture[c].new
        PROVE  ~\E b \in batches' : b.by = "promoter" /\ c \in b.items
    <3>1. c \notin items
      <4>1. InHand(c) => c \notin items
        BY <1>1, <2>1
      <4> QED
        BY <1>3, <2>1, <4>1, HeldIsInHand
    <3> QED
      BY <1>1, <1>2, <1>4, <3>1
  <2> QED
    BY <1>1, <1>8, <2>1 DEF Apace
<1>11. FewCalls'
  <2>1. /\ tries' = tries /\ erased' = erased /\ crossed \subseteq crossed'
        /\ \A c \in Captures :
              /\ Kept(buffers', batches', c) => Kept(buffers, batches, c)
              /\ Pledged(batches', c) => Pledged(batches, c)
              /\ Asked(batches', c) => Asked(batches, c)
              /\ Listed(batches', c) \/ ~capture'[c].stamped
                   => Listed(batches, c) \/ ~capture[c].stamped
    BY <1>1, <1>8
  <2> QED
    BY <2>1, NoMoreCalls DEF FewCalls
<1>12. StampedMeansTried' /\ RewritesTried'
  <2>1. \A b \in batches : \A c \in StampedBy(b) : \E o \in batches' : c \in StampedBy(o)
    BY <1>1
  <2> QED
    BY <1>1, <2>1, StillTried
<1> QED
  BY <1>5, <1>6, <1>9, <1>10, <1>11, <1>12 DEF DistillInv

\* A request has read the row: what it is going to write has a stamp only if the
\* row had one.
LEMMA RewrittenRow ==
    ASSUME NEW row \in CaptureRow, ~row.new, NEW r \in {Carried(row), Replaced, Merged(row)}
    PROVE  r \in CaptureRow /\ ~r.new /\ (r.stamped => row.stamped)
<1>1. CASE r = Carried(row)
  BY <1>1 DEF Carried, CaptureRow
<1>2. CASE r = Replaced
  BY <1>2 DEF Replaced, Fresh, CaptureRow
<1>3. CASE r = Merged(row)
  BY <1>3 DEF Merged
<1> QED
  BY <1>1, <1>2, <1>3

LEMMA ReadCaptureInv ==
    ASSUME DistillInv, NEW c \in Captures, ReadCapture(c)
    PROVE  DistillInv'
<1>1. PICK r \in {Carried(capture[c]), Replaced, Merged(capture[c])} :
         /\ rewrites' = rewrites \cup {[no |-> upsets, of |-> c, row |-> r]}
         /\ ~capture[c].new
         /\ UNCHANGED <<capture, buffers, batches, tries, failed, crossed, erased>>
  BY DEF ReadCapture, distillHistories
<1> DEFINE w == [no |-> upsets, of |-> c, row |-> r]
<1>2. r \in CaptureRow /\ ~r.new /\ (r.stamped => capture[c].stamped)
  <2>1. capture[c] \in CaptureRow
    BY DEF DistillInv, Shape
  <2> QED
    BY <1>1, <2>1, RewrittenRow
<1>3. w.of = c /\ w.row = r /\ rewrites' = rewrites \cup {w}
  BY <1>1
<1> HIDE DEF w
<1>4. Shape' /\ Orderly' /\ OnePromoter' /\ HomesOf(buffers', batches') /\ NewSound' /\ Apace'
  BY <1>1, <1>2, <1>3 DEF DistillInv, Shape, Orderly, OnePromoter, NewSound, Apace
<1>5. FewCalls'
  <2>1. /\ tries' = tries /\ erased' = erased /\ crossed \subseteq crossed'
        /\ \A d \in Captures : capture'[d].stamped = capture[d].stamped
        /\ \A d : /\ Kept(buffers', batches', d) = Kept(buffers, batches, d)
                  /\ Pledged(batches', d) = Pledged(batches, d)
                  /\ Asked(batches', d) = Asked(batches, d)
                  /\ Listed(batches', d) = Listed(batches, d)
    BY <1>1
  <2> QED
    BY <2>1, NoMoreCalls DEF FewCalls
<1>6. \A d \in Captures : Tried(d)' <=> Tried(d)
  BY <1>1 DEF Tried, StampedBy
<1>7. StampedMeansTried'
  BY <1>1 DEF DistillInv, StampedMeansTried, StampedBy
<1>8. RewritesTried'
  <2>1. capture[c].stamped => Tried(c)
    BY DEF DistillInv, StampedMeansTried, Tried
  <2> QED
    BY <1>2, <1>3, <1>6, <2>1 DEF DistillInv, RewritesTried, Shape
<1> QED
  BY <1>4, <1>5, <1>7, <1>8 DEF DistillInv

\* It writes it: a stamp it takes off is counted.
LEMMA WriteOverInv ==
    ASSUME DistillInv, NEW w \in rewrites, WriteOver(w)
    PROVE  DistillInv'
<1> DEFINE c == w.of
<1>1. /\ capture' = [capture EXCEPT ![c] = w.row] /\ rewrites' = rewrites \ {w}
      /\ erased' = [erased EXCEPT ![c] =
                       IF capture[c].stamped /\ ~w.row.stamped THEN @ + 1 ELSE @]
      /\ UNCHANGED <<buffers, batches, tries, failed, crossed>>
  BY DEF WriteOver
<1>2. /\ c \in Captures /\ w.row \in CaptureRow /\ ~w.row.new /\ ~capture[c].new
      /\ w.row.stamped => Tried(c)
      /\ capture \in [Captures -> CaptureRow] /\ erased \in [Captures -> Nat]
  BY DEF DistillInv, Shape, NewSound, RewritesTried
<1> HIDE DEF c
<1>3. /\ capture' \in [Captures -> CaptureRow] /\ capture'[c] = w.row
      /\ \A d \in Captures : d # c => capture'[d] = capture[d] /\ erased'[d] = erased[d]
      /\ erased' \in [Captures -> Nat]
      /\ erased'[c] = IF capture[c].stamped /\ ~w.row.stamped THEN erased[c] + 1 ELSE erased[c]
  BY <1>1, <1>2
<1>4. Shape' /\ Orderly' /\ OnePromoter' /\ HomesOf(buffers', batches')
  BY <1>1, <1>3 DEF DistillInv, Shape, Orderly, OnePromoter
<1>5. NewSound'
  <2>1. ASSUME NEW d \in Captures, capture'[d].new
        PROVE  /\ tries[d] = 0 /\ ~capture'[d].hot /\ ~capture'[d].stamped
               /\ ~Held(buffers, batches, d) /\ \A b \in batches : d \notin b.items
    <3>1. d # c /\ capture'[d] = capture[d]
      BY <1>2, <1>3, <2>1
    <3> QED
      BY <2>1, <3>1 DEF DistillInv, NewSound
  <2>2. \A x \in rewrites' : ~capture'[x.of].new /\ ~x.row.new
    BY <1>1, <1>2, <1>3 DEF DistillInv, NewSound, Shape
  <2> QED
    BY <1>1, <2>1, <2>2 DEF NewSound
<1>6. Apace'
  BY <1>1, <1>2, <1>3 DEF DistillInv, Apace
<1>7. FewCalls'
  <2> SUFFICES ASSUME NEW d \in Captures
               PROVE  /\ tries[d] + Chances(d)' <= 2 + erased'[d]
                      /\ d \notin crossed => tries[d] + LoneChances(d)' <= 1 + erased'[d]
    BY <1>1 DEF FewCalls
  <2> DEFINE k == One(Kept(buffers, batches, d) \/ Pledged(batches, d)) + One(Asked(batches, d))
             s == One(Pledged(batches, d)) + One(Asked(batches, d))
             l == Listed(batches, d) \/ ~capture[d].stamped
             m == Kept(buffers, batches, d) \/ Listed(batches, d) \/ ~capture[d].stamped
             l2 == Listed(batches, d) \/ ~capture'[d].stamped
             m2 == Kept(buffers, batches, d) \/ Listed(batches, d) \/ ~capture'[d].stamped
  <2>1. /\ Chances(d) = k + One(l) /\ Chances(d)' = k + One(l2)
        /\ LoneChances(d) = s + One(m) /\ LoneChances(d)' = s + One(m2)
    BY <1>1 DEF Chances, LoneChances, Kept, Pledged, Asked, Listed, StampedBy
  <2>2. k \in Nat /\ s \in Nat
    BY OneFacts
  <2>3. \/ (l2 => l) /\ (m2 => m) /\ erased'[d] = erased[d]
        \/ erased'[d] = erased[d] + 1
    <3>1. CASE d # c
      BY <1>3, <3>1
    <3>2. CASE d = c /\ capture[c].stamped /\ ~w.row.stamped
      BY <1>3, <3>2
    <3>3. CASE d = c /\ ~(capture[c].stamped /\ ~w.row.stamped)
      BY <1>3, <3>3
    <3> QED
      BY <3>1, <3>2, <3>3
  <2> HIDE DEF k, s, l, m, l2, m2
  <2>4. /\ tries[d] \in Nat /\ erased[d] \in Nat /\ erased'[d] \in Nat
        /\ tries[d] + Chances(d) <= 2 + erased[d]
        /\ d \notin crossed => tries[d] + LoneChances(d) <= 1 + erased[d]
    BY <1>3 DEF DistillInv, Shape, FewCalls
  <2>5. /\ One(l) \in Nat /\ One(m) \in Nat /\ One(l2) \in Nat /\ One(m2) \in Nat
        /\ One(l2) <= 1 /\ One(m2) <= 1
    BY OneFacts
  <2>6. \/ One(l2) <= One(l) /\ One(m2) <= One(m) /\ erased'[d] = erased[d]
        \/ erased'[d] = erased[d] + 1
    BY ONLY <2>3, OneFacts
  <2>7. tries[d] + Chances(d)' <= 2 + erased'[d]
    BY ONLY <2>1, <2>2, <2>4, <2>5, <2>6
  <2>8. ASSUME d \notin crossed PROVE tries[d] + LoneChances(d)' <= 1 + erased'[d]
    <3>1. tries[d] + LoneChances(d) <= 1 + erased[d]
      BY <2>4, <2>8
    <3> QED
      BY ONLY <2>1, <2>2, <2>4, <2>5, <2>6, <3>1
  <2> QED
    BY <2>7, <2>8
<1>8. StampedMeansTried' /\ RewritesTried'
  <2>1. \A d \in Captures : capture'[d].stamped => capture[d].stamped \/ Tried(d)
    BY <1>2, <1>3
  <2>2. \A b \in batches : \A d \in StampedBy(b) : \E o \in batches' : d \in StampedBy(o)
    BY <1>1
  <2> QED
    BY <1>1, <2>1, <2>2, StillTried
<1> QED
  BY <1>4, <1>5, <1>6, <1>7, <1>8 DEF DistillInv

-----------------------------------------------------------------------------
(***************************************************************************)
(* The invariant holds.                                                    *)
(***************************************************************************)
LEMMA InitInv == DistillationInit => DistillInv
<1> SUFFICES ASSUME DistillationInit PROVE DistillInv
  OBVIOUS
<1>1. /\ capture = [c \in Captures |-> Unwritten] /\ buffers = <<>> /\ batches = {}
      /\ tries = [c \in Captures |-> 0] /\ failed = {} /\ rewrites = {}
      /\ crossed = {} /\ erased = [c \in Captures |-> 0]
  BY DEF DistillationInit
<1>2. buffers \in Seq(Buffer) /\ DOMAIN buffers = {}
  BY <1>1
<1>3. \A c \in Captures : /\ capture[c].new /\ ~capture[c].hot /\ ~capture[c].stamped
                          /\ tries[c] = 0 /\ erased[c] = 0
  BY <1>1 DEF Unwritten
<1>4. Shape
  BY <1>1, <1>2 DEF Shape, Unwritten, CaptureRow
<1>5. \A c : /\ ~Held(buffers, batches, c) /\ ~Kept(buffers, batches, c)
             /\ ~Pledged(batches, c) /\ ~Asked(batches, c) /\ ~Listed(batches, c)
  BY <1>1, <1>2 DEF Held, Kept, Pledged, Asked, Listed
<1>6. Orderly /\ OnePromoter /\ Apace /\ RewritesTried
  BY <1>1 DEF Orderly, OnePromoter, Apace, RewritesTried
<1>7. HomesOf(buffers, batches)
  BY <1>1, <1>2 DEF HomesOf, Apart
<1>8. NewSound
  BY <1>1, <1>3, <1>5 DEF NewSound
<1>9. FewCalls
  <2> SUFFICES ASSUME NEW c \in Captures
               PROVE  /\ tries[c] + Chances(c) <= 2 + erased[c]
                      /\ c \notin crossed => tries[c] + LoneChances(c) <= 1 + erased[c]
    BY DEF FewCalls
  <2>1. Chances(c) = 1 /\ LoneChances(c) = 1
    BY <1>3, <1>5 DEF Chances, LoneChances, One
  <2> QED
    BY <1>3, <2>1
<1>10. StampedMeansTried
  BY <1>3 DEF StampedMeansTried
<1> QED
  BY <1>4, <1>6, <1>7, <1>8, <1>9, <1>10 DEF DistillInv

LEMMA NextInv == DistillInv /\ [DistillationNext]_distillationVars => DistillInv'
<1> SUFFICES ASSUME DistillInv, [DistillationNext]_distillationVars PROVE DistillInv'
  OBVIOUS
<1>1. ASSUME NEW c \in Captures, NEW s \in SessionsOf[c], Capture(c, s)
      PROVE  DistillInv'
  <2>1. s \in Sessions \cup {NoSession}
    BY DistillationAssumption
  <2> QED
    BY <1>1, <2>1, CaptureInv
<1>2. ASSUME NEW c \in Captures, HeatUp(c) \/ ReadCapture(c) PROVE DistillInv'
  BY <1>2, HeatUpInv, ReadCaptureInv
<1>3. CASE AgeFlush \/ FinalFlush
  BY <1>3, AgeFlushInv
<1>4. CASE Promote
  BY <1>4, PromoteInv
<1>5. ASSUME NEW b \in batches, BatchStep(b) PROVE DistillInv'
  <2>1. CASE DistillBatch(b)
    BY <2>1, DistillBatchInv
  <2>2. CASE StampNothing(b)
    <3>1. /\ batches' = batches \ {b} /\ StampedBy(b) = {}
          /\ UNCHANGED <<capture, rewrites, tries, crossed, failed, erased, buffers>>
      BY <2>2 DEF StampNothing, Drop, StampedBy, distillHistories
    <3> QED
      BY <3>1, FewerInv
  <2>3. CASE DistillFails(b)
    <3>1. /\ batches' = batches \ {b} /\ UNCHANGED <<capture, rewrites, tries, crossed, erased, buffers>>
          /\ StampedBy(b) = b.done /\ failed' = failed \cup b.done
      BY <2>3 DEF DistillFails, Drop, StampedBy
    <3> QED
      BY <3>1, FewerInv
  <2>4. CASE \/ Acquire(b) \/ RetierDone(b) \/ StampDone(b)
             \/ \E c \in Captures : RetierSource(b, c) \/ StampSource(b, c) \/ StampRefused(b, c)
    BY <2>4, OnwardInv
  <2> QED
    BY <1>5, <2>1, <2>2, <2>3, <2>4 DEF BatchStep
<1>6. CASE Crash
  <2>1. /\ batches' = {} /\ buffers' = <<>> /\ rewrites' = {}
        /\ UNCHANGED <<capture, tries, crossed, erased>>
        /\ failed' = failed \cup UNION {StampedBy(b) : b \in batches}
    BY <1>6 DEF Crash
  <2> QED
    BY <2>1, FewerInv
<1>7. CASE Signal \/ Exit \/ Boot
  <2>1. /\ batches' = batches /\ UNCHANGED <<capture, tries, crossed, failed, erased>>
        /\ rewrites' \subseteq rewrites /\ (buffers' = buffers \/ buffers' = <<>>)
    BY <1>7 DEF Signal, Exit, Boot, distillHistories
  <2> QED
    BY <2>1, FewerInv
<1>8. ASSUME NEW w \in rewrites, WriteOver(w) \/ GiveUpRewrite(w) PROVE DistillInv'
  <2>1. CASE WriteOver(w)
    BY <2>1, WriteOverInv
  <2>2. CASE GiveUpRewrite(w)
    <3>1. /\ rewrites' \subseteq rewrites
          /\ UNCHANGED <<capture, buffers, batches, tries, crossed, failed, erased>>
      BY <2>2 DEF GiveUpRewrite, distillHistories
    <3> QED
      BY <3>1, FewerInv
  <2> QED
    BY <1>8, <2>1, <2>2
<1>9. CASE UNCHANGED distillationVars
  BY <1>9, FewerInv DEF distillationVars
<1> QED
  BY <1>1, <1>2, <1>3, <1>4, <1>5, <1>6, <1>7, <1>8, <1>9 DEF DistillationNext

\* The inductive invariant: one home, the calls there may still be, the takers
\* of every stamp, those on their way included.
THEOREM DistillHolds == DistillationSpec => []DistillInv
  BY InitInv, NextInv, PTL DEF DistillationSpec

\* A capture waits in one buffer or one write-time batch, however captures, ages,
\* evictions, signals and crashes fall together (distillBatcher.mu).
THEOREM CapturesHaveOneHome == DistillationSpec => []OneHome
  BY DistillHolds, InvGivesProperties, PTL

\* No capture reaches the LLM twice, but for the promoter listing it while the
\* write-time path had it in hand, and for the writes over it that took its stamp
\* off (stampPromoted, alreadyPromoted).
THEOREM DistilledAtMostOnce == DistillationSpec => []DistilledOnce
  BY DistillHolds, InvGivesProperties, PTL

\* What a crash, a refused stamp or a lost buffer left undone is not stamped, so
\* that the promoter still finds it (WithDistillBatch).
THEOREM StampAlwaysMeansTried == DistillationSpec => []StampedMeansTried
  BY DistillHolds, InvGivesProperties, PTL

\* The rest of the types: the server, the upsets and the histories.
ServerTyped ==
    /\ server \in {"up", "stopping", "flushed", "down"}
    /\ upsets \in 0 .. MaxUpsets
    /\ rewrites \subseteq Rewrite
    /\ failed \in SUBSET Captures /\ crossed \in SUBSET Captures

LEMMA ServerKept == Shape /\ ServerTyped /\ [DistillationNext]_distillationVars => ServerTyped'
<1> SUFFICES ASSUME Shape, ServerTyped, [DistillationNext]_distillationVars PROVE ServerTyped'
  OBVIOUS
<1>1. \A b \in batches : b.done \in SUBSET Captures /\ StampedBy(b) \in SUBSET Captures
  BY DEF Shape, Batch, StampedBy
<1>2. CASE \/ UNCHANGED distillationVars
           \/ \E c \in Captures : \/ \E s \in SessionsOf[c] : Capture(c, s)
                                  \/ HeatUp(c)
           \/ AgeFlush
           \/ \E w \in rewrites : WriteOver(w) \/ GiveUpRewrite(w)
  BY <1>2 DEF distillationVars, distillHistories, Capture, HeatUp, AgeFlush, WriteOver,
              GiveUpRewrite, ServerTyped
<1>3. ASSUME upsets < MaxUpsets, upsets' = upsets + 1 PROVE upsets' \in 0 .. MaxUpsets
  BY <1>3, DistillationAssumption DEF ServerTyped
<1>4. CASE FinalFlush \/ Signal \/ Exit \/ Boot
  BY <1>3, <1>4 DEF FinalFlush, Signal, Exit, Boot, distillHistories, ServerTyped
<1>5. CASE Promote
  <2>1. crossed' \in SUBSET Captures
    BY <1>5 DEF Promote, ServerTyped
  <2> QED
    BY <1>5, <2>1 DEF Promote, ServerTyped
<1>6. CASE Crash
  <2>1. UNION {StampedBy(b) : b \in batches} \in SUBSET Captures
    BY <1>1
  <2> QED
    BY <1>3, <1>6, <2>1 DEF Crash, ServerTyped
<1>7. ASSUME NEW b \in batches, BatchStep(b) PROVE ServerTyped'
  <2>1. /\ UNCHANGED <<server, upsets, rewrites, crossed>>
        /\ failed' = failed \/ failed' = failed \cup b.done
    BY <1>7 DEF BatchStep, Acquire, RetierDone, StampNothing, StampDone, DistillBatch, DistillFails,
                RetierSource, StampSource, StampRefused, distillHistories
  <2> QED
    BY <1>1, <2>1 DEF ServerTyped
<1>8. ASSUME NEW c \in Captures, ReadCapture(c) PROVE ServerTyped'
  <2>1. PICK r \in {Carried(capture[c]), Replaced, Merged(capture[c])} :
           rewrites' = rewrites \cup {[no |-> upsets, of |-> c, row |-> r]}
    BY <1>8 DEF ReadCapture
  <2>2. r \in CaptureRow
    <3>1. capture[c] \in CaptureRow /\ ~capture[c].new
      BY <1>8 DEF Shape, ReadCapture
    <3> QED
      BY <2>1, <3>1, RewrittenRow
  <2>3. upsets \in Nat
    BY DistillationAssumption DEF ServerTyped
  <2>4. [no |-> upsets, of |-> c, row |-> r] \in Rewrite
    BY <2>2, <2>3 DEF Rewrite
  <2> QED
    BY <1>3, <1>8, <2>1, <2>4 DEF ReadCapture, distillHistories, ServerTyped
<1> QED
  BY <1>2, <1>4, <1>5, <1>6, <1>7, <1>8 DEF DistillationNext

\* Captures, buffers, batches and histories stay within their types; a batch
\* never names what is not a capture.
THEOREM DistillationAlwaysTyped == DistillationSpec => []DistillationTypeOK
<1>1. DistillationInit => ServerTyped
  BY DistillationAssumption DEF DistillationInit, ServerTyped
<1>2. DistillInv => Shape
  BY DEF DistillInv
<1>3. Shape /\ ServerTyped => DistillationTypeOK
  BY DEF Shape, Buffer, ServerTyped, DistillationTypeOK
<1> QED
  BY <1>1, <1>2, <1>3, ServerKept, DistillHolds, PTL DEF DistillationSpec

-----------------------------------------------------------------------------
(***************************************************************************)
(* ConsolidateQueue: a flush returns after the jobs before it and a plain  *)
(* stop leaves none behind, for any number of jobs, flushers and places.   *)
(* Both follow from where a job can be: in the queue once, in the hands of *)
(* the worker, or done; and a sentinel has the jobs accepted before it in  *)
(* front of it or out of the queue.                                        *)
(***************************************************************************)

\* What is in the queue is there once, and is still to be taken.
QueueSound ==
    /\ \A i, k \in DOMAIN chan : chan[i] = chan[k] => i = k
    /\ \A k \in DOMAIN chan :
         /\ chan[k] \in Tasks => jobState[chan[k]] = "queued"
         /\ chan[k] \in Flushers => flush[chan[k]] \in {"waiting", "gave up"}

\* A job is where its state says.
JobsSound ==
    /\ \A j \in Tasks : jobState[j] = "queued" => \E k \in DOMAIN chan : chan[k] = j
    /\ \A j \in Tasks : jobState[j] = "held" => worker.holds = j
    /\ \A j \in Tasks : worker.holds = j => jobState[j] = "held"

\* The waiting senders are distinct and have sent nothing.
BlockedSound ==
    /\ \A i, k \in DOMAIN blocked : blocked[i] = blocked[k] => i = k
    /\ \A k \in DOMAIN blocked : flush[blocked[k]] = "sending"

\* Of the jobs a sentinel follows, those still in the queue are in front of it.
AheadSound ==
    \A k \in DOMAIN chan : chan[k] \in Flushers =>
        \A j \in ahead[chan[k]] :
            jobState[j] \in {"held", "done"} \/ \E i \in 1 .. k - 1 : chan[i] = j

\* A worker that has returned holds nothing.
ReturnedSound == worker.mode \in {"expired", "returned"} => worker.holds = Idle

QueueInv ==
    /\ QueueTypeOK /\ QueueSound /\ JobsSound /\ BlockedSound /\ AheadSound
    /\ ReturnedSound /\ FlushMeansDone /\ AcceptedIsRun

-----------------------------------------------------------------------------
(***************************************************************************)
(* Sequences.                                                              *)
(***************************************************************************)
\* What Append and Tail do to a queue.
LEMMA AppendFacts ==
    ASSUME NEW S, NEW q \in Seq(S), NEW x \in S
    PROVE  /\ Append(q, x) \in Seq(S) /\ Len(Append(q, x)) = Len(q) + 1
           /\ DOMAIN Append(q, x) = 1 .. Len(q) + 1 /\ DOMAIN q = 1 .. Len(q) /\ Len(q) \in Nat
           /\ \A k \in DOMAIN q : Append(q, x)[k] = q[k]
           /\ Append(q, x)[Len(q) + 1] = x
  OBVIOUS

LEMMA TailFacts ==
    ASSUME NEW S, NEW q \in Seq(S), q # <<>>
    PROVE  /\ Tail(q) \in Seq(S) /\ Len(Tail(q)) = Len(q) - 1
           /\ DOMAIN Tail(q) = 1 .. Len(q) - 1 /\ DOMAIN q = 1 .. Len(q)
           /\ Len(q) \in Nat /\ Len(q) >= 1
           /\ Head(q) = q[1] /\ Head(q) \in S
           /\ \A k \in 1 .. Len(q) - 1 : Tail(q)[k] = q[k + 1]
  OBVIOUS

\* Taking a flusher out of the senders that wait keeps the others, in order.
LEMMA WithoutFacts ==
    ASSUME NEW S, NEW q \in Seq(S), NEW f,
           \A i, k \in DOMAIN q : q[i] = q[k] => i = k
    PROVE  /\ Without(q, f) \in Seq(S)
           /\ \A i, k \in DOMAIN Without(q, f) : Without(q, f)[i] = Without(q, f)[k] => i = k
           /\ \A i \in DOMAIN Without(q, f) :
                Without(q, f)[i] # f /\ \E k \in DOMAIN q : q[k] = Without(q, f)[i]
<1>1. CASE \E k \in DOMAIN q : q[k] = f
  <2> DEFINE p == CHOOSE i \in DOMAIN q : q[i] = f
  <2>1. p \in DOMAIN q /\ q[p] = f
    BY <1>1
  <2> HIDE DEF p
  <2> DEFINE w == SubSeq(q, 1, p - 1) \o SubSeq(q, p + 1, Len(q))
  <2>2. Without(q, f) = w
    BY <1>1 DEF Without, p
  <2>3. Len(q) \in Nat /\ p \in 1 .. Len(q) /\ DOMAIN q = 1 .. Len(q)
    BY <2>1
  <2>4. SubSeq(q, 1, p - 1) \in Seq(S) /\ Len(SubSeq(q, 1, p - 1)) = p - 1
        /\ \A k \in 1 .. p - 1 : SubSeq(q, 1, p - 1)[k] = q[k]
    BY <2>3
  <2>5. SubSeq(q, p + 1, Len(q)) \in Seq(S) /\ Len(SubSeq(q, p + 1, Len(q))) = Len(q) - p
        /\ \A k \in 1 .. Len(q) - p : SubSeq(q, p + 1, Len(q))[k] = q[k + p]
    <3>1. \A i \in p + 1 .. Len(q) : q[i] \in S
      BY <2>3
    <3>2. /\ SubSeq(q, p + 1, Len(q)) \in Seq(S)
          /\ Len(SubSeq(q, p + 1, Len(q)))
               = IF p + 1 <= Len(q) THEN Len(q) - (p + 1) + 1 ELSE 0
          /\ \A i \in 1 .. Len(q) - (p + 1) + 1 : SubSeq(q, p + 1, Len(q))[i] = q[p + 1 + i - 1]
      <4>1. p + 1 \in Int /\ Len(q) \in Int
        BY <2>3
      <4> QED
        BY <3>1, <4>1, SubSeqProperties
    <3>3. Len(SubSeq(q, p + 1, Len(q))) = Len(q) - p
      <4>1. Len(SubSeq(q, p + 1, Len(q))) = IF p + 1 <= Len(q) THEN Len(q) - (p + 1) + 1 ELSE 0
        BY ONLY <3>2
      <4>2. CASE p + 1 <= Len(q)
        BY <2>3, <4>1, <4>2
      <4>3. CASE ~(p + 1 <= Len(q))
        <5>1. Len(q) - p = 0
          <6>1. \A l \in Nat : \A i \in 1 .. l : ~(i + 1 <= l) => l - i = 0
            OBVIOUS
          <6> QED
            BY ONLY <2>3, <4>3, <6>1
        <5>2. Len(SubSeq(q, p + 1, Len(q))) = 0
          BY ONLY <4>1, <4>3
        <5> QED
          BY ONLY <5>1, <5>2
      <4> QED
        BY <4>2, <4>3
    <3>4. ASSUME NEW k \in 1 .. Len(q) - p
          PROVE  SubSeq(q, p + 1, Len(q))[k] = q[k + p]
      <4>1. k \in 1 .. Len(q) - (p + 1) + 1 /\ p + 1 + k - 1 = k + p
        BY <2>3
      <4>2. SubSeq(q, p + 1, Len(q))[k] = q[p + 1 + k - 1]
        BY ONLY <3>2, <4>1
      <4> QED
        BY <4>1, <4>2
    <3> QED
      BY <3>2, <3>3, <3>4
  <2>6. w \in Seq(S) /\ Len(w) = Len(q) - 1 /\ DOMAIN w = 1 .. Len(q) - 1
        /\ \A k \in 1 .. Len(q) - 1 : w[k] = IF k < p THEN q[k] ELSE q[k + 1]
    <3>1. /\ w \in Seq(S) /\ Len(w) = p - 1 + (Len(q) - p)
          /\ \A k \in 1 .. p - 1 + (Len(q) - p) :
               w[k] = IF k <= p - 1 THEN SubSeq(q, 1, p - 1)[k]
                      ELSE SubSeq(q, p + 1, Len(q))[k - (p - 1)]
      <4> DEFINE a == SubSeq(q, 1, p - 1)  b == SubSeq(q, p + 1, Len(q))
      <4>1. a \in Seq(S) /\ b \in Seq(S) /\ Len(a) = p - 1 /\ Len(b) = Len(q) - p
        BY ONLY <2>4, <2>5
      <4> HIDE DEF a, b
      <4>2. /\ a \o b \in Seq(S) /\ Len(a \o b) = Len(a) + Len(b)
            /\ \A k \in 1 .. Len(a) + Len(b) :
                 (a \o b)[k] = IF k <= Len(a) THEN a[k] ELSE b[k - Len(a)]
        BY ONLY <4>1, ConcatProperties
      <4> QED
        BY ONLY <4>1, <4>2 DEF a, b
    <3> HIDE DEF w
    <3>2. Len(w) = Len(q) - 1 /\ DOMAIN w = 1 .. Len(q) - 1
      BY <2>3, <3>1
    <3>3. ASSUME NEW k \in 1 .. Len(q) - 1
          PROVE  w[k] = IF k < p THEN q[k] ELSE q[k + 1]
      <4>1. w[k] = IF k <= p - 1 THEN SubSeq(q, 1, p - 1)[k] ELSE SubSeq(q, p + 1, Len(q))[k - (p - 1)]
        BY <2>3, <3>1
      <4>2. CASE k < p
        BY <2>3, <2>4, <4>1, <4>2
      <4>3. CASE ~(k < p)
        <5>1. k - (p - 1) \in 1 .. Len(q) - p /\ k - (p - 1) + p = k + 1
          BY <2>3, <4>3
        <5>2. SubSeq(q, p + 1, Len(q))[k - (p - 1)] = q[k - (p - 1) + p]
          BY ONLY <2>5, <5>1
        <5> QED
          BY <2>3, <4>1, <4>3, <5>1, <5>2
      <4> QED
        BY <4>2, <4>3
    <3> QED
      BY <3>1, <3>2, <3>3
  <2> HIDE DEF w
  <2>7. \A i \in DOMAIN w :
          \/ i \in DOMAIN q /\ i < p /\ w[i] = q[i]
          \/ i + 1 \in DOMAIN q /\ ~(i < p) /\ w[i] = q[i + 1]
    BY ONLY <2>3, <2>6
  <2>8. \A i \in DOMAIN w : i \in Nat
    BY ONLY <2>3, <2>6
  <2>9. ASSUME NEW i \in DOMAIN w, NEW k \in DOMAIN w, w[i] = w[k]
        PROVE  i = k
    BY ONLY <2>3, <2>7, <2>8, <2>9, \A l, m \in DOMAIN q : q[l] = q[m] => l = m
  <2>10. ASSUME NEW i \in DOMAIN w
         PROVE  w[i] # f /\ \E k \in DOMAIN q : q[k] = w[i]
    <3>1. CASE i \in DOMAIN q /\ i < p /\ w[i] = q[i]
      <4>1. i # p
        BY ONLY <2>3, <2>8, <2>10, <3>1
      <4> QED
        BY ONLY <2>1, <3>1, <4>1, \A l, m \in DOMAIN q : q[l] = q[m] => l = m
    <3>2. CASE i + 1 \in DOMAIN q /\ ~(i < p) /\ w[i] = q[i + 1]
      <4>1. i + 1 # p
        BY ONLY <2>3, <2>8, <2>10, <3>2
      <4> QED
        BY ONLY <2>1, <3>2, <4>1, \A l, m \in DOMAIN q : q[l] = q[m] => l = m
    <3> QED
      BY ONLY <2>7, <2>10, <3>1, <3>2
  <2> QED
    BY ONLY <2>2, <2>6, <2>9, <2>10
<1>2. CASE ~\E k \in DOMAIN q : q[k] = f
  BY <1>2 DEF Without
<1> QED
  BY <1>1, <1>2
-----------------------------------------------------------------------------
(***************************************************************************)
(* The worker takes a value.                                               *)
(***************************************************************************)
\* The values behind the first move up; a waiting sender comes last.
LEMMA ReceiveFacts ==
    ASSUME QueueInv, Receive
    PROVE  /\ chan' \in Seq(Tasks \cup Flushers) /\ Len(chan') <= QueueRoom
           /\ blocked' \in Seq(Flushers)
           /\ Len(chan) \in Nat /\ DOMAIN chan = 1 .. Len(chan) /\ Len(chan) >= 1
           /\ Head(chan) = chan[1] /\ chan[1] \in Tasks \cup Flushers
           /\ \A k \in DOMAIN chan' :
                \/ k + 1 \in DOMAIN chan /\ chan'[k] = chan[k + 1]
                \/ blocked # <<>> /\ k = Len(chan) /\ chan'[k] = Head(blocked)
           /\ \A k \in DOMAIN chan : k # 1 => k - 1 \in DOMAIN chan' /\ chan'[k - 1] = chan[k]
           /\ DOMAIN chan' \subseteq 1 .. Len(chan)
           /\ \A i, k \in DOMAIN blocked' : blocked'[i] = blocked'[k] => i = k
           /\ \A k \in DOMAIN blocked' :
                flush[blocked'[k]] = "sending" /\ (blocked # <<>> => blocked'[k] # Head(blocked))
           /\ blocked # <<>> => Head(blocked) \in Flushers /\ flush[Head(blocked)] = "sending"
           /\ ahead' = IF blocked = <<>> THEN ahead ELSE [ahead EXCEPT ![Head(blocked)] = Accepted]
<1> USE DEF QueueInv
<1>1. chan \in Seq(Tasks \cup Flushers) /\ chan # <<>> /\ Len(chan) <= QueueRoom
  BY DEF Receive, QueueTypeOK
<1>2. /\ Tail(chan) \in Seq(Tasks \cup Flushers) /\ Len(Tail(chan)) = Len(chan) - 1
      /\ DOMAIN Tail(chan) = 1 .. Len(chan) - 1 /\ DOMAIN chan = 1 .. Len(chan)
      /\ Len(chan) \in Nat /\ Len(chan) >= 1
      /\ Head(chan) = chan[1] /\ Head(chan) \in Tasks \cup Flushers
      /\ \A k \in 1 .. Len(chan) - 1 : Tail(chan)[k] = chan[k + 1]
  BY <1>1, TailFacts
<1>3. CASE blocked = <<>>
  <2>1. chan' = Tail(chan) /\ blocked' = blocked /\ ahead' = ahead
    BY <1>3 DEF Receive
  <2>2. DOMAIN blocked' = {}
    BY <1>3, <2>1
  <2>3. Len(chan') <= QueueRoom
    BY <1>1, <1>2, <2>1, QueueAssumption
  <2>4. ASSUME NEW k \in DOMAIN chan'
        PROVE  k + 1 \in DOMAIN chan /\ chan'[k] = chan[k + 1]
    BY <1>2, <2>1
  <2>5. ASSUME NEW k \in DOMAIN chan, k # 1
        PROVE  k - 1 \in DOMAIN chan' /\ chan'[k - 1] = chan[k]
    <3>1. k - 1 \in 1 .. Len(chan) - 1 /\ k - 1 + 1 = k
      BY <1>2, <2>5
    <3> QED
      BY <1>2, <2>1, <3>1
  <2>6. /\ chan' \in Seq(Tasks \cup Flushers) /\ DOMAIN chan' \subseteq 1 .. Len(chan)
        /\ blocked' \in Seq(Flushers)
    <3>1. chan' \in Seq(Tasks \cup Flushers)
      BY <1>2, <2>1
    <3>2. DOMAIN chan' = 1 .. Len(chan) - 1
      BY <1>2, <2>1
    <3>3. 1 .. Len(chan) - 1 \subseteq 1 .. Len(chan)
      BY <1>2
    <3>4. blocked' \in Seq(Flushers)
      BY <2>1 DEF QueueTypeOK
    <3> QED
      BY ONLY <3>1, <3>2, <3>3, <3>4
  <2>7. /\ Len(chan) \in Nat /\ DOMAIN chan = 1 .. Len(chan) /\ Len(chan) >= 1
        /\ Head(chan) = chan[1] /\ chan[1] \in Tasks \cup Flushers
    BY <1>2
  <2> QED
    BY ONLY <1>3, <2>1, <2>2, <2>3, <2>4, <2>5, <2>6, <2>7
<1>4. CASE blocked # <<>>
  <2> DEFINE g == Head(blocked)
             t == Tail(chan)
  <2>1. chan' = Append(t, g) /\ blocked' = Tail(blocked) /\ ahead' = [ahead EXCEPT ![g] = Accepted]
    BY <1>4 DEF Receive, Sent
  <2>2. /\ Tail(blocked) \in Seq(Flushers)
        /\ DOMAIN Tail(blocked) = 1 .. Len(blocked) - 1 /\ DOMAIN blocked = 1 .. Len(blocked)
        /\ Len(blocked) \in Nat /\ Len(blocked) >= 1
        /\ g = blocked[1] /\ g \in Flushers
        /\ \A k \in 1 .. Len(blocked) - 1 : Tail(blocked)[k] = blocked[k + 1]
    BY <1>4, TailFacts DEF QueueTypeOK
  <2> HIDE DEF g, t
  <2>3. /\ Append(t, g) \in Seq(Tasks \cup Flushers) /\ Len(Append(t, g)) = Len(t) + 1
        /\ DOMAIN Append(t, g) = 1 .. Len(t) + 1
        /\ \A k \in DOMAIN t : Append(t, g)[k] = t[k]
        /\ Append(t, g)[Len(t) + 1] = g
    <3>1. t \in Seq(Tasks \cup Flushers) /\ g \in Tasks \cup Flushers
      BY <1>2, <2>2 DEF t
    <3> QED
      BY <3>1, AppendFacts
  <2>4. /\ chan' \in Seq(Tasks \cup Flushers)
        /\ Len(chan') <= QueueRoom /\ DOMAIN chan' = 1 .. Len(chan)
    BY <1>1, <1>2, <2>1, <2>3, QueueAssumption DEF t
  <2>5. ASSUME NEW k \in DOMAIN chan'
        PROVE  \/ k + 1 \in DOMAIN chan /\ chan'[k] = chan[k + 1]
               \/ k = Len(chan) /\ chan'[k] = g
    <3>1. CASE k = Len(chan)
      <4>1. Len(t) + 1 = Len(chan)
        BY <1>2 DEF t
      <4> QED
        BY <2>1, <2>3, <3>1, <4>1
    <3>2. CASE k # Len(chan)
      BY <1>2, <2>1, <2>3, <2>4, <3>2 DEF t
    <3> QED
      BY <3>1, <3>2
  <2>6. ASSUME NEW k \in DOMAIN chan, k # 1
        PROVE  k - 1 \in DOMAIN chan' /\ chan'[k - 1] = chan[k]
    <3>1. k - 1 \in 1 .. Len(chan) - 1 /\ k - 1 + 1 = k
      BY <1>2, <2>6
    <3>2. chan'[k - 1] = t[k - 1]
      BY <1>2, <2>1, <2>3, <3>1 DEF t
    <3> QED
      BY <1>2, <2>4, <3>1, <3>2 DEF t
  <2>7. \A i, k \in DOMAIN blocked' : blocked'[i] = blocked'[k] => i = k
    BY <2>1, <2>2 DEF BlockedSound
  <2>8. \A k \in DOMAIN blocked' : flush[blocked'[k]] = "sending" /\ blocked'[k] # g
    BY <2>1, <2>2 DEF BlockedSound
  <2>9. flush[g] = "sending"
    BY <2>2 DEF BlockedSound
  <2>10. Head(chan) = chan[1] /\ chan[1] \in Tasks \cup Flushers
    BY <1>2
  <2>11. ahead' = (IF blocked = <<>> THEN ahead ELSE [ahead EXCEPT ![g] = Accepted])
    BY <1>4, <2>1
  <2>12. blocked' \in Seq(Flushers) /\ g \in Flushers
    BY <2>1, <2>2
  <2>13. Len(chan) \in Nat /\ DOMAIN chan = 1 .. Len(chan) /\ Len(chan) >= 1
    BY <1>2
  <2>14. g = Head(blocked)
    BY DEF g
  <2> QED
    BY ONLY <1>4, <2>4, <2>5, <2>6, <2>7, <2>8, <2>9, <2>10, <2>11, <2>12, <2>13, <2>14
<1> QED
  BY <1>3, <1>4

\* Taking a sentinel, or a job, preserves the invariant.
LEMMA TakeStep ==
    ASSUME QueueInv, TakeSentinel \/ TakeJob
    PROVE  QueueInv'
<1> USE DEF QueueInv
<1> DEFINE h == Head(chan)
           g == Head(blocked)
<1>1. Receiving /\ Receive /\ late' = late
  BY DEF TakeSentinel, TakeJob
<1>2. /\ chan' \in Seq(Tasks \cup Flushers) /\ Len(chan') <= QueueRoom
      /\ blocked' \in Seq(Flushers)
      /\ Len(chan) \in Nat /\ DOMAIN chan = 1 .. Len(chan) /\ Len(chan) >= 1
      /\ h = chan[1] /\ chan[1] \in Tasks \cup Flushers
      /\ \A k \in DOMAIN chan' :
           \/ k + 1 \in DOMAIN chan /\ chan'[k] = chan[k + 1]
           \/ blocked # <<>> /\ k = Len(chan) /\ chan'[k] = g
      /\ \A k \in DOMAIN chan : k # 1 => k - 1 \in DOMAIN chan' /\ chan'[k - 1] = chan[k]
      /\ DOMAIN chan' \subseteq 1 .. Len(chan)
      /\ \A i, k \in DOMAIN blocked' : blocked'[i] = blocked'[k] => i = k
      /\ \A k \in DOMAIN blocked' :
           flush[blocked'[k]] = "sending" /\ (blocked # <<>> => blocked'[k] # g)
      /\ blocked # <<>> => g \in Flushers /\ flush[g] = "sending"
      /\ ahead' = IF blocked = <<>> THEN ahead ELSE [ahead EXCEPT ![g] = Accepted]
  BY <1>1, ReceiveFacts
<1> DEFINE joins(f) == blocked # <<>> /\ f = g
<1> HIDE DEF h, g
<1>3. /\ worker.mode # "returned" /\ worker.mode # "expired" /\ worker.holds = Idle
      /\ \A j \in Tasks : jobState[j] # "held"
  BY <1>1, QueueAssumption DEF Receiving, JobsSound
<1>4. /\ worker'.mode = worker.mode
      /\ worker'.holds = (IF h \in Tasks THEN h ELSE Idle)
      /\ worker' \in [mode : WorkerModes, holds : Tasks \cup {Idle}]
  <2>1. CASE TakeSentinel
    <3>1. worker' = worker /\ h \in Flushers
      BY <2>1 DEF TakeSentinel, h
    <3> QED
      BY <1>3, <3>1, QueueAssumption DEF QueueTypeOK
  <2>2. CASE TakeJob
    <3>1. worker' = [worker EXCEPT !.holds = h] /\ h \in Tasks
      BY <2>2 DEF TakeJob, h
    <3> QED
      BY <3>1 DEF QueueTypeOK
  <2> QED
    BY <2>1, <2>2
<1>5. /\ jobState' \in [Tasks -> {"new", "queued", "dropped", "held", "done"}]
      /\ h \in Tasks => jobState'[h] = "held"
      /\ \A j \in Tasks : j # h => jobState'[j] = jobState[j]
  BY QueueAssumption DEF TakeSentinel, TakeJob, h, QueueTypeOK
<1>6. Moved \in [Flushers -> {"idle", "sending", "waiting", "closed", "gave up"}]
      /\ \A f \in Flushers : Moved[f] = IF joins(f) THEN "waiting" ELSE flush[f]
  BY <1>2 DEF Moved, QueueTypeOK, g
<1>7. /\ flush' \in [Flushers -> {"idle", "sending", "waiting", "closed", "gave up"}]
      /\ \A f \in Flushers : f # h => flush'[f] = IF joins(f) THEN "waiting" ELSE flush[f]
  <2>1. CASE TakeSentinel
    <3>1. flush' = [Moved EXCEPT ![h] = IF @ = "waiting" THEN "closed" ELSE @] /\ h \in Flushers
      BY <2>1 DEF TakeSentinel, Closing, h
    <3> QED
      BY <1>6, <3>1
  <2>2. CASE TakeJob
    <3>1. flush' = Moved
      BY <2>2 DEF TakeJob
    <3> QED
      BY <1>6, <3>1
  <2> QED
    BY <2>1, <2>2
<1>8. 1 \in DOMAIN chan /\ \A k \in DOMAIN chan : chan[k] # h => k # 1
  BY <1>2
<1>9. \A k \in DOMAIN chan : k # 1 => chan[k] # h
  BY <1>2, <1>8 DEF QueueSound
<1>10. \A k \in DOMAIN chan : ~joins(chan[k])
  BY <1>2 DEF QueueSound
<1>11. ahead' \in [Flushers -> SUBSET Tasks]
       /\ \A f \in Flushers : ahead'[f] = IF joins(f) THEN Accepted ELSE ahead[f]
  BY <1>2 DEF QueueTypeOK, Accepted
<1>12. QueueTypeOK'
  BY <1>1, <1>2, <1>4, <1>5, <1>7, <1>11 DEF QueueTypeOK
<1>13. QueueSound'
  <2>1. ASSUME NEW i \in DOMAIN chan', NEW k \in DOMAIN chan', chan'[i] = chan'[k]
        PROVE  i = k
    <3>1. i \in Nat /\ k \in Nat
      BY <1>2
    <3>2. CASE /\ i + 1 \in DOMAIN chan /\ chan'[i] = chan[i + 1]
               /\ k + 1 \in DOMAIN chan /\ chan'[k] = chan[k + 1]
      <4>1. i + 1 = k + 1
        BY <2>1, <3>2 DEF QueueSound
      <4> QED
        BY <3>1, <4>1
    <3> QED
      BY <1>2, <1>10, <2>1, <3>2
  <2>2. ASSUME NEW k \in DOMAIN chan'
        PROVE  /\ chan'[k] \in Tasks => jobState'[chan'[k]] = "queued"
               /\ chan'[k] \in Flushers => flush'[chan'[k]] \in {"waiting", "gave up"}
    <3>1. CASE k + 1 \in DOMAIN chan /\ chan'[k] = chan[k + 1]
      <4>1. k + 1 # 1
        BY <1>2
      <4>2. chan[k + 1] # h /\ ~joins(chan[k + 1])
        BY <1>9, <1>10, <3>1, <4>1
      <4>3. /\ chan[k + 1] \in Tasks => jobState[chan[k + 1]] = "queued"
            /\ chan[k + 1] \in Flushers => flush[chan[k + 1]] \in {"waiting", "gave up"}
        BY ONLY QueueSound, <3>1 DEF QueueSound
      <4> QED
        BY ONLY <1>5, <1>7, <3>1, <4>2, <4>3
    <3>2. CASE blocked # <<>> /\ chan'[k] = g
      <4>1. g \in Flushers /\ g \notin Tasks /\ g # h
        BY <1>2, <1>10, <3>2, QueueAssumption
      <4> QED
        BY <1>7, <3>2, <4>1
    <3> QED
      BY <1>2, <3>1, <3>2
  <2> QED
    BY <2>1, <2>2 DEF QueueSound
<1>14. JobsSound'
  <2>1. ASSUME NEW j \in Tasks, jobState'[j] = "queued"
        PROVE  \E k \in DOMAIN chan' : chan'[k] = j
    <3>1. j # h /\ jobState[j] = "queued"
      BY <1>5, <2>1
    <3>2. PICK k \in DOMAIN chan : chan[k] = j
      BY <3>1 DEF JobsSound
    <3> QED
      BY <1>2, <1>8, <3>1, <3>2
  <2>2. ASSUME NEW j \in Tasks
        PROVE  jobState'[j] = "held" <=> worker'.holds = j
    BY <1>3, <1>4, <1>5, QueueAssumption
  <2> QED
    BY <2>1, <2>2 DEF JobsSound
<1>15. BlockedSound'
  <2>1. ASSUME NEW k \in DOMAIN blocked'
        PROVE  flush'[blocked'[k]] = "sending"
    <3>1. blocked'[k] \in Flushers /\ flush[blocked'[k]] = "sending" /\ ~joins(blocked'[k])
      BY <1>2
    <3>2. blocked'[k] # h
      BY <1>2, <1>8, <3>1 DEF QueueSound
    <3> QED
      BY <1>7, <3>1, <3>2
  <2> QED
    BY <1>2, <2>1 DEF BlockedSound
<1>16. AheadSound'
  <2> SUFFICES ASSUME NEW k \in DOMAIN chan', chan'[k] \in Flushers, NEW j \in ahead'[chan'[k]]
               PROVE  jobState'[j] \in {"held", "done"} \/ \E i \in 1 .. k - 1 : chan'[i] = j
    BY DEF AheadSound
  <2>1. j \in Tasks /\ k \in Nat
    BY <1>2, <1>11
  <2>2. CASE jobState[j] \in {"held", "done"}
    BY <1>5, <2>1, <2>2
  <2>3. CASE j = h
    BY <1>5, <2>1, <2>3
  <2>4. ASSUME j # h, NEW i \in DOMAIN chan, chan[i] = j, i <= k
        PROVE  \E l \in 1 .. k - 1 : chan'[l] = j
    <3>1. i # 1 /\ i - 1 \in 1 .. k - 1
      BY <1>2, <1>8, <2>1, <2>4
    <3> QED
      BY <1>2, <2>4, <3>1
  <2>5. CASE k + 1 \in DOMAIN chan /\ chan'[k] = chan[k + 1]
    <3>1. j \in ahead[chan[k + 1]]
      BY <1>10, <1>11, <2>5
    <3>2. CASE \E i \in 1 .. k : chan[i] = j
      <4>1. PICK i \in 1 .. k : chan[i] = j
        BY <3>2
      <4>2. i \in DOMAIN chan /\ i <= k
        BY <1>2, <2>1, <2>5
      <4> QED
        BY <2>3, <2>4, <4>1, <4>2
    <3>3. PICK n \in DOMAIN chan : n = k + 1
      BY <2>5
    <3>4. jobState[j] \in {"held", "done"} \/ \E i \in 1 .. n - 1 : chan[i] = j
      BY <2>5, <3>1, <3>3 DEF AheadSound
    <3>5. n - 1 = k
      BY <2>1, <3>3
    <3> QED
      BY <2>2, <3>2, <3>4, <3>5
  <2>6. CASE blocked # <<>> /\ k = Len(chan) /\ chan'[k] = g
    <3>1. j \in Accepted
      BY <1>11, <2>6
    <3>2. CASE jobState[j] = "queued"
      <4>1. PICK i \in DOMAIN chan : chan[i] = j
        BY <2>1, <3>2 DEF JobsSound
      <4>2. i <= k
        BY <1>2, <2>6
      <4> QED
        BY <2>3, <2>4, <4>1, <4>2
    <3> QED
      BY <2>2, <3>1, <3>2 DEF Accepted
  <2> QED
    BY <1>2, <2>5, <2>6
<1>17. FlushMeansDone'
  <2> SUFFICES ASSUME NEW f \in Flushers, flush'[f] = "closed", NEW j \in ahead'[f]
               PROVE  jobState'[j] = "done"
    BY DEF FlushMeansDone
  <2>1. j \in Tasks
    BY <1>11
  <2>2. CASE f = h
    <3>1. j \in ahead[chan[1]] /\ chan[1] \in Flushers /\ 1 \in DOMAIN chan
      BY <1>2, <1>10, <1>11, <2>2
    <3>2. jobState[j] = "done"
      BY <1>3, <2>1, <3>1 DEF AheadSound
    <3> QED
      BY <1>5, <2>1, <2>2, <3>2, QueueAssumption
  <2>3. CASE f # h
    <3>1. flush[f] = "closed" /\ j \in ahead[f]
      BY <1>7, <1>11, <2>3
    <3>2. jobState[j] = "done"
      BY <3>1 DEF FlushMeansDone
    <3>3. h \in Tasks => jobState[h] = "queued"
      BY <1>2, <1>8 DEF QueueSound
    <3> QED
      BY <1>5, <2>1, <3>2, <3>3
  <2> QED
    BY <2>2, <2>3
<1>18. ReturnedSound' /\ AcceptedIsRun'
  BY <1>3, <1>4 DEF ReturnedSound, AcceptedIsRun
<1> QED
  BY <1>12, <1>13, <1>14, <1>15, <1>16, <1>17, <1>18
-----------------------------------------------------------------------------
(***************************************************************************)
(* The other steps.                                                        *)
(***************************************************************************)
\* A job joins the queue, or is dropped when there is no room.
LEMMA EnqueueStep ==
    ASSUME QueueInv, NEW j \in Tasks, EnqueueJob(j)
    PROVE  QueueInv'
<1> USE DEF QueueInv
<1>1. /\ jobState[j] = "new"
      /\ jobState' = [jobState EXCEPT ![j] = IF Room THEN "queued" ELSE "dropped"]
      /\ chan' = IF Room THEN Append(chan, j) ELSE chan
      /\ late' = (IF Room /\ worker.mode \in {"expired", "returned"} THEN late \cup {j} ELSE late)
      /\ UNCHANGED <<blocked, worker, flush, ahead>>
  BY DEF EnqueueJob
<1>2. /\ Append(chan, j) \in Seq(Tasks \cup Flushers) /\ Len(Append(chan, j)) = Len(chan) + 1
      /\ DOMAIN Append(chan, j) = 1 .. Len(chan) + 1 /\ DOMAIN chan = 1 .. Len(chan)
      /\ Len(chan) \in Nat
      /\ \A k \in DOMAIN chan : Append(chan, j)[k] = chan[k]
      /\ Append(chan, j)[Len(chan) + 1] = j
  <2>1. chan \in Seq(Tasks \cup Flushers) /\ j \in Tasks \cup Flushers
    BY DEF QueueTypeOK
  <2> QED
    BY <2>1, AppendFacts
<1>3. /\ chan' \in Seq(Tasks \cup Flushers) /\ Len(chan') <= QueueRoom
      /\ \A k \in DOMAIN chan : k \in DOMAIN chan' /\ chan'[k] = chan[k]
      /\ \A k \in DOMAIN chan' : k \in DOMAIN chan \/ (Room /\ k = Len(chan) + 1 /\ chan'[k] = j)
      /\ Room => \E k \in DOMAIN chan' : chan'[k] = j
      /\ DOMAIN chan' \subseteq Nat
  <2>1. CASE Room
    <3>1. Len(chan) + 1 <= QueueRoom
      BY <1>2, <2>1, QueueAssumption DEF Room
    <3>2. Len(chan) + 1 \in 1 .. Len(chan) + 1
      BY <1>2
    <3>3. \A k \in 1 .. Len(chan) + 1 : k \in Nat /\ (k \in 1 .. Len(chan) \/ k = Len(chan) + 1)
      BY <1>2
    <3>4. chan' = Append(chan, j)
      BY <1>1, <2>1
    <3>5. \A k \in 1 .. Len(chan) : k \in 1 .. Len(chan) + 1
      BY <1>2
    <3>6. chan' \in Seq(Tasks \cup Flushers) /\ Len(chan') = Len(chan) + 1
      BY <1>2, <3>4
    <3>7. DOMAIN chan' = 1 .. Len(chan) + 1 /\ DOMAIN chan = 1 .. Len(chan)
          /\ (\A k \in DOMAIN chan : chan'[k] = chan[k]) /\ chan'[Len(chan) + 1] = j
      BY <1>2, <3>4
    <3>8. Len(chan') <= QueueRoom
      BY <3>1, <3>6
    <3> QED
      BY ONLY <2>1, <3>2, <3>3, <3>5, <3>6, <3>7, <3>8
  <2>2. CASE ~Room
    <3>1. chan' = chan /\ DOMAIN chan = 1 .. Len(chan)
      BY <1>1, <1>2, <2>2
    <3>2. 1 .. Len(chan) \subseteq Nat
      BY <1>2
    <3>3. chan \in Seq(Tasks \cup Flushers) /\ Len(chan) <= QueueRoom
      BY DEF QueueTypeOK
    <3> QED
      BY ONLY <2>2, <3>1, <3>2, <3>3
  <2> QED
    BY <2>1, <2>2
<1>4. /\ jobState' \in [Tasks -> {"new", "queued", "dropped", "held", "done"}]
      /\ jobState'[j] = (IF Room THEN "queued" ELSE "dropped")
      /\ \A i \in Tasks : i # j => jobState'[i] = jobState[i]
  BY <1>1 DEF QueueTypeOK
<1>5. \A k \in DOMAIN chan : chan[k] # j
  BY <1>1 DEF QueueSound
<1>6. QueueTypeOK'
  <2>1. late' \subseteq Tasks
    BY <1>1 DEF QueueTypeOK
  <2>2. blocked' = blocked /\ worker' = worker /\ flush' = flush /\ ahead' = ahead
    BY <1>1
  <2> QED
    BY ONLY <1>3, <1>4, <2>1, <2>2, QueueTypeOK DEF QueueTypeOK
<1>7. QueueSound'
  <2>1. \A i, k \in DOMAIN chan' : chan'[i] = chan'[k] => i = k
    BY <1>3, <1>5 DEF QueueSound
  <2>2. ASSUME NEW k \in DOMAIN chan'
        PROVE  /\ chan'[k] \in Tasks => jobState'[chan'[k]] = "queued"
               /\ chan'[k] \in Flushers => flush'[chan'[k]] \in {"waiting", "gave up"}
    <3>1. CASE k \in DOMAIN chan
      BY <1>1, <1>3, <1>4, <1>5, <3>1 DEF QueueSound
    <3>2. CASE Room /\ chan'[k] = j
      BY <1>4, <3>2, QueueAssumption
    <3> QED
      BY <1>3, <3>1, <3>2
  <2> QED
    BY <2>1, <2>2 DEF QueueSound
<1>8. JobsSound'
  <2>1. ASSUME NEW i \in Tasks, jobState'[i] = "queued"
        PROVE  \E k \in DOMAIN chan' : chan'[k] = i
    <3>1. CASE i = j
      BY <1>3, <1>4, <2>1, <3>1
    <3>2. CASE i # j
      BY <1>3, <1>4, <2>1, <3>2 DEF JobsSound
    <3> QED
      BY <3>1, <3>2
  <2>2. ASSUME NEW i \in Tasks
        PROVE  jobState'[i] = "held" <=> worker'.holds = i
    BY <1>1, <1>4 DEF JobsSound
  <2> QED
    BY <2>1, <2>2 DEF JobsSound
<1>9. BlockedSound'
  BY <1>1 DEF BlockedSound
<1>10. AheadSound'
  <2> SUFFICES ASSUME NEW k \in DOMAIN chan', chan'[k] \in Flushers, NEW i \in ahead'[chan'[k]]
               PROVE  jobState'[i] \in {"held", "done"} \/ \E l \in 1 .. k - 1 : chan'[l] = i
    BY DEF AheadSound
  <2>1. k \in DOMAIN chan /\ chan'[k] = chan[k] /\ chan[k] \in Flushers /\ k \in 1 .. Len(chan)
    BY <1>2, <1>3, QueueAssumption
  <2>2. i \in ahead[chan[k]] /\ i \in Tasks
    BY <1>1, <2>1 DEF QueueTypeOK
  <2>3. CASE jobState[i] \in {"held", "done"}
    BY <1>1, <1>4, <2>2, <2>3
  <2>4. CASE \E l \in 1 .. k - 1 : chan[l] = i
    <3>1. PICK l \in 1 .. k - 1 : chan[l] = i
      BY <2>4
    <3>2. l \in DOMAIN chan
      BY <1>2, <2>1
    <3> QED
      BY <1>3, <3>1, <3>2
  <2> QED
    BY <2>1, <2>2, <2>3, <2>4 DEF AheadSound
<1>11. FlushMeansDone'
  <2>1. \A f \in Flushers : ahead[f] \subseteq Tasks
    BY DEF QueueTypeOK
  <2> QED
    BY <1>1, <1>4, <2>1 DEF FlushMeansDone
<1>12. ReturnedSound'
  BY <1>1 DEF ReturnedSound
<1>13. AcceptedIsRun'
  BY <1>1, <1>4 DEF AcceptedIsRun, Accepted
<1> QED
  BY <1>6, <1>7, <1>8, <1>9, <1>10, <1>11, <1>12, <1>13

\* A sentinel joins the queue, or its sender those who wait.
LEMMA SendStep ==
    ASSUME QueueInv, NEW f \in Flushers, SendSentinel(f)
    PROVE  QueueInv'
<1> USE DEF QueueInv
<1>1. flush[f] = "idle" /\ UNCHANGED <<worker, jobState, late>>
  BY DEF SendSentinel
<1>2. (\A k \in DOMAIN chan : chan[k] # f) /\ (\A k \in DOMAIN blocked : blocked[k] # f)
  BY <1>1 DEF QueueSound, BlockedSound
<1>3. ReturnedSound' /\ AcceptedIsRun'
  BY <1>1 DEF ReturnedSound, AcceptedIsRun, Accepted
<1>4. CASE Room
  <2>1. /\ chan' = Append(chan, f) /\ flush' = [flush EXCEPT ![f] = "waiting"]
        /\ ahead' = [ahead EXCEPT ![f] = Accepted] /\ blocked' = blocked
    BY <1>4 DEF SendSentinel, Sent
  <2>2. /\ chan' \in Seq(Tasks \cup Flushers) /\ Len(chan') = Len(chan) + 1
        /\ DOMAIN chan' = 1 .. Len(chan) + 1 /\ DOMAIN chan = 1 .. Len(chan)
        /\ Len(chan) \in Nat
        /\ \A k \in DOMAIN chan : chan'[k] = chan[k]
        /\ chan'[Len(chan) + 1] = f
    <3>1. chan \in Seq(Tasks \cup Flushers) /\ f \in Tasks \cup Flushers
      BY DEF QueueTypeOK
    <3> QED
      BY <2>1, <3>1, AppendFacts
  <2>3. /\ Len(chan') <= QueueRoom
        /\ \A k \in DOMAIN chan : k \in DOMAIN chan'
        /\ \A k \in DOMAIN chan' : k \in DOMAIN chan \/ (k = Len(chan) + 1 /\ chan'[k] = f)
    BY <1>4, <2>2, QueueAssumption DEF Room
  <2>4. /\ flush' \in [Flushers -> {"idle", "sending", "waiting", "closed", "gave up"}]
        /\ flush'[f] = "waiting" /\ \A e \in Flushers : e # f => flush'[e] = flush[e]
    BY <2>1 DEF QueueTypeOK
  <2>5. /\ ahead' \in [Flushers -> SUBSET Tasks]
        /\ ahead'[f] = Accepted /\ \A e \in Flushers : e # f => ahead'[e] = ahead[e]
    BY <2>1 DEF QueueTypeOK, Accepted
  <2>6. QueueTypeOK'
    BY <1>1, <2>1, <2>2, <2>3, <2>4, <2>5 DEF QueueTypeOK
  <2>7. QueueSound'
    <3>0. (\A k \in DOMAIN chan : chan'[k] = chan[k]) /\ chan'[Len(chan) + 1] = f
      BY <2>2
    <3>1. \A i, k \in DOMAIN chan' : chan'[i] = chan'[k] => i = k
      <4>1. \A i, k \in DOMAIN chan : chan[i] = chan[k] => i = k
        BY DEF QueueSound
      <4> QED
        BY ONLY <1>2, <2>3, <3>0, <4>1
    <3>2. ASSUME NEW k \in DOMAIN chan'
          PROVE  /\ chan'[k] \in Tasks => jobState'[chan'[k]] = "queued"
                 /\ chan'[k] \in Flushers => flush'[chan'[k]] \in {"waiting", "gave up"}
      <4>1. CASE k \in DOMAIN chan
        <5>1. /\ chan[k] \in Tasks => jobState[chan[k]] = "queued"
              /\ chan[k] \in Flushers => flush[chan[k]] \in {"waiting", "gave up"}
          BY <4>1 DEF QueueSound
        <5>2. chan'[k] = chan[k] /\ chan[k] # f /\ jobState' = jobState
          BY <1>1, <1>2, <3>0, <4>1
        <5> QED
          BY ONLY <2>4, <5>1, <5>2
      <4>2. CASE chan'[k] = f
        BY <2>4, <4>2, QueueAssumption
      <4> QED
        BY <2>3, <4>1, <4>2
    <3> QED
      BY <3>1, <3>2 DEF QueueSound
  <2>8. JobsSound'
    BY <1>1, <2>2, <2>3 DEF JobsSound
  <2>9. BlockedSound'
    <3>1. \A k \in DOMAIN blocked : blocked[k] \in Flushers
      <4>1. blocked \in Seq(Flushers)
        BY DEF QueueTypeOK
      <4> QED
        BY ONLY <4>1
    <3> QED
      BY <1>2, <2>1, <2>4, <3>1 DEF BlockedSound
  <2>10. AheadSound'
    <3> SUFFICES ASSUME NEW k \in DOMAIN chan', chan'[k] \in Flushers, NEW j \in ahead'[chan'[k]]
                 PROVE  jobState'[j] \in {"held", "done"} \/ \E l \in 1 .. k - 1 : chan'[l] = j
      BY DEF AheadSound
    <3>1. ASSUME NEW l \in DOMAIN chan, l < k, chan[l] = j
          PROVE  \E i \in 1 .. k - 1 : chan'[i] = j
      <4>1. l \in 1 .. k - 1
        BY <2>2, <3>1
      <4> QED
        BY <2>2, <3>1, <4>1
    <3>2. CASE k \in DOMAIN chan
      <4>1. chan'[k] = chan[k] /\ chan[k] # f /\ j \in ahead[chan[k]] /\ k \in 1 .. Len(chan)
        BY <1>2, <2>2, <2>5, <3>2
      <4>2. CASE jobState[j] \in {"held", "done"}
        BY <1>1, <4>2
      <4>3. CASE \E l \in 1 .. k - 1 : chan[l] = j
        <5>1. PICK l \in 1 .. k - 1 : chan[l] = j
          BY <4>3
        <5>2. l \in DOMAIN chan /\ l < k
          BY <2>2, <4>1
        <5> QED
          BY <3>1, <5>1, <5>2
      <4> QED
        BY <3>2, <4>1, <4>2, <4>3 DEF AheadSound
    <3>3. CASE k = Len(chan) + 1 /\ chan'[k] = f
      <4>1. j \in Accepted
        BY <2>5, <3>3
      <4>2. CASE jobState[j] = "queued"
        <5>1. PICK l \in DOMAIN chan : chan[l] = j
          BY <4>1, <4>2 DEF JobsSound, Accepted
        <5>2. l < k
          BY <2>2, <3>3
        <5> QED
          BY <3>1, <5>1, <5>2
      <4> QED
        BY <1>1, <4>1, <4>2 DEF Accepted
    <3> QED
      BY <2>3, <3>2, <3>3
  <2>11. FlushMeansDone'
    BY <1>1, <2>4, <2>5 DEF FlushMeansDone
  <2> QED
    BY <1>3, <2>6, <2>7, <2>8, <2>9, <2>10, <2>11
<1>5. CASE ~Room
  <2>1. /\ blocked' = Append(blocked, f) /\ flush' = [flush EXCEPT ![f] = "sending"]
        /\ UNCHANGED <<chan, ahead>>
    BY <1>5 DEF SendSentinel
  <2>2. /\ blocked' \in Seq(Flushers)
        /\ DOMAIN blocked' = 1 .. Len(blocked) + 1 /\ DOMAIN blocked = 1 .. Len(blocked)
        /\ Len(blocked) \in Nat
        /\ \A k \in DOMAIN blocked : blocked'[k] = blocked[k]
        /\ blocked'[Len(blocked) + 1] = f
    <3>1. blocked \in Seq(Flushers)
      BY DEF QueueTypeOK
    <3> QED
      BY <2>1, <3>1, AppendFacts
  <2>3. \A k \in DOMAIN blocked' : k \in DOMAIN blocked \/ (k = Len(blocked) + 1 /\ blocked'[k] = f)
    BY <2>2
  <2>4. /\ flush' \in [Flushers -> {"idle", "sending", "waiting", "closed", "gave up"}]
        /\ flush'[f] = "sending" /\ \A e \in Flushers : e # f => flush'[e] = flush[e]
    BY <2>1 DEF QueueTypeOK
  <2>5. QueueTypeOK'
    BY <1>1, <2>1, <2>2, <2>4 DEF QueueTypeOK
  <2>6. QueueSound'
    BY <1>1, <1>2, <2>1, <2>4 DEF QueueSound
  <2>7. BlockedSound'
    <3>1. \A k \in DOMAIN blocked : blocked[k] \in Flushers
      <4>1. blocked \in Seq(Flushers)
        BY DEF QueueTypeOK
      <4> QED
        BY ONLY <4>1
    <3>2. \A i, k \in DOMAIN blocked' : blocked'[i] = blocked'[k] => i = k
      BY <1>2, <2>2, <2>3 DEF BlockedSound
    <3>3. ASSUME NEW k \in DOMAIN blocked'
          PROVE  flush'[blocked'[k]] = "sending"
      <4>1. CASE k \in DOMAIN blocked
        <5>1. blocked'[k] = blocked[k] /\ blocked[k] \in Flushers /\ flush[blocked[k]] = "sending"
          BY <2>2, <3>1, <4>1 DEF BlockedSound
        <5> QED
          BY ONLY <2>4, <5>1
      <4>2. CASE blocked'[k] = f
        BY ONLY <2>4, <4>2
      <4> QED
        BY <2>3, <4>1, <4>2
    <3> QED
      BY ONLY <3>2, <3>3 DEF BlockedSound
  <2>8. JobsSound' /\ AheadSound'
    BY <1>1, <2>1 DEF JobsSound, AheadSound
  <2>9. FlushMeansDone'
    BY <1>1, <2>1, <2>4 DEF FlushMeansDone
  <2> QED
    BY <1>3, <2>5, <2>6, <2>7, <2>8, <2>9
<1> QED
  BY <1>4, <1>5
\* A caller gives up; its sentinel, if sent, stays.
LEMMA GiveUpStep ==
    ASSUME QueueInv, NEW f \in Flushers, GiveUp(f)
    PROVE  QueueInv'
<1> USE DEF QueueInv
<1>1. /\ flush[f] \in {"sending", "waiting"} /\ flush' = [flush EXCEPT ![f] = "gave up"]
      /\ blocked' = Without(blocked, f)
      /\ UNCHANGED <<chan, worker, jobState, ahead, late>>
  BY DEF GiveUp
<1>2. /\ flush' \in [Flushers -> {"idle", "sending", "waiting", "closed", "gave up"}]
      /\ flush'[f] = "gave up" /\ \A e \in Flushers : e # f => flush'[e] = flush[e]
  BY <1>1 DEF QueueTypeOK
<1>3. /\ blocked' \in Seq(Flushers)
      /\ \A i, k \in DOMAIN blocked' : blocked'[i] = blocked'[k] => i = k
      /\ \A i \in DOMAIN blocked' :
           blocked'[i] # f /\ \E k \in DOMAIN blocked : blocked[k] = blocked'[i]
  <2>1. blocked \in Seq(Flushers)
    BY DEF QueueTypeOK
  <2>2. \A i, k \in DOMAIN blocked : blocked[i] = blocked[k] => i = k
    BY DEF BlockedSound
  <2> DEFINE w == Without(blocked, f)
  <2>3. /\ w \in Seq(Flushers)
        /\ \A i, k \in DOMAIN w : w[i] = w[k] => i = k
        /\ \A i \in DOMAIN w : w[i] # f /\ \E k \in DOMAIN blocked : blocked[k] = w[i]
    BY ONLY <2>1, <2>2, WithoutFacts
  <2>4. blocked' = w
    BY <1>1
  <2> HIDE DEF w
  <2> QED
    BY ONLY <2>3, <2>4
<1>4. QueueTypeOK'
  BY <1>1, <1>2, <1>3 DEF QueueTypeOK
<1>5. QueueSound'
  BY <1>1, <1>2 DEF QueueSound
<1>6. JobsSound' /\ AheadSound' /\ ReturnedSound' /\ AcceptedIsRun'
  <2>1. JobsSound' /\ ReturnedSound'
    BY <1>1 DEF JobsSound, ReturnedSound
  <2>2. AheadSound'
    <3>1. chan' = chan /\ jobState' = jobState /\ ahead' = ahead
      BY <1>1
    <3> QED
      BY ONLY AheadSound, <3>1 DEF AheadSound
  <2>3. AcceptedIsRun'
    BY <1>1 DEF AcceptedIsRun, Accepted
  <2> QED
    BY <2>1, <2>2, <2>3
<1>7. BlockedSound'
  <2>1. ASSUME NEW i \in DOMAIN blocked'
        PROVE  flush'[blocked'[i]] = "sending"
    <3>1. PICK k \in DOMAIN blocked : blocked[k] = blocked'[i]
      BY <1>3
    <3>2. blocked[k] \in Flushers
      <4>1. blocked \in Seq(Flushers)
        BY DEF QueueTypeOK
      <4> QED
        BY ONLY <4>1
    <3>3. flush[blocked[k]] = "sending" /\ blocked[k] # f
      BY <1>3, <3>1 DEF BlockedSound
    <3> QED
      BY ONLY <1>2, <3>1, <3>2, <3>3
  <2> QED
    BY ONLY <1>3, <2>1 DEF BlockedSound
<1>8. FlushMeansDone'
  BY <1>1, <1>2 DEF FlushMeansDone
<1> QED
  BY <1>4, <1>5, <1>6, <1>7, <1>8

\* The job in hand ends, with the drain's deadline or without.
LEMMA FinishStep ==
    ASSUME QueueInv, FinishJob \/ DrainExpires
    PROVE  QueueInv'
<1> USE DEF QueueInv
<1>1. /\ worker.holds # Idle
      /\ jobState' = [jobState EXCEPT ![worker.holds] = "done"]
      /\ worker' \in [mode : WorkerModes, holds : Tasks \cup {Idle}]
      /\ worker'.holds = Idle
      /\ worker'.mode \in {worker.mode, "expired"}
      /\ UNCHANGED <<chan, blocked, flush, ahead, late>>
  <2>1. CASE FinishJob
    BY <2>1 DEF FinishJob, QueueTypeOK
  <2>2. CASE DrainExpires
    BY <2>2 DEF DrainExpires, QueueTypeOK, WorkerModes
  <2> QED
    BY <2>1, <2>2
<1>2. PICK j \in Tasks : j = worker.holds
  BY <1>1 DEF QueueTypeOK
<1>3. /\ jobState' \in [Tasks -> {"new", "queued", "dropped", "held", "done"}]
      /\ jobState'[j] = "done" /\ \A i \in Tasks : i # j => jobState'[i] = jobState[i]
      /\ jobState[j] = "held"
  BY <1>1, <1>2 DEF QueueTypeOK, JobsSound
<1>4. QueueTypeOK'
  BY <1>1, <1>3 DEF QueueTypeOK
<1>5. QueueSound'
  BY <1>1, <1>3 DEF QueueSound
<1>6. JobsSound'
  <2>1. \A i \in Tasks : jobState'[i] = "queued" => \E k \in DOMAIN chan' : chan'[k] = i
    BY <1>1, <1>3 DEF JobsSound
  <2>2. \A i \in Tasks : jobState'[i] # "held" /\ worker'.holds # i
    BY <1>1, <1>2, <1>3, QueueAssumption DEF JobsSound
  <2> QED
    BY <2>1, <2>2 DEF JobsSound
<1>7. BlockedSound'
  BY <1>1 DEF BlockedSound
<1>8. \A e \in Flushers : ahead[e] \subseteq Tasks
  BY DEF QueueTypeOK
<1>9. AheadSound'
  <2>1. \A i \in Tasks : jobState[i] \in {"held", "done"} => jobState'[i] \in {"held", "done"}
    BY <1>3
  <2> QED
    BY <1>1, <1>8, <2>1 DEF AheadSound
<1>10. FlushMeansDone'
  BY <1>1, <1>3, <1>8 DEF FlushMeansDone
<1>11. ReturnedSound'
  BY <1>1 DEF ReturnedSound
<1>12. AcceptedIsRun'
  BY <1>1 DEF AcceptedIsRun, ReturnedSound
<1> QED
  BY <1>4, <1>5, <1>6, <1>7, <1>9, <1>10, <1>11, <1>12

\* The worker is cancelled, sees it, and leaves an empty queue.
LEMMA StopStep ==
    ASSUME QueueInv, CancelWorker \/ SeeCancel \/ DrainDone
    PROVE  QueueInv'
<1> USE DEF QueueInv
<1>1. /\ UNCHANGED <<chan, blocked, jobState, flush, ahead, late>>
      /\ worker'.holds = worker.holds
      /\ worker' \in [mode : WorkerModes, holds : Tasks \cup {Idle}]
      /\ \/ worker'.mode \in {"cancelled", "draining"}
         \/ worker'.mode = "returned" /\ chan = <<>> /\ worker.holds = Idle
  <2>1. CASE CancelWorker
    BY <2>1 DEF CancelWorker, QueueTypeOK, WorkerModes
  <2>2. CASE SeeCancel
    BY <2>2 DEF SeeCancel, AfterCancel, QueueTypeOK, WorkerModes
  <2>3. CASE DrainDone
    BY <2>3 DEF DrainDone, QueueTypeOK, WorkerModes
  <2> QED
    BY <2>1, <2>2, <2>3
<1>2. QueueTypeOK'
  BY <1>1 DEF QueueTypeOK
<1>3. QueueSound' /\ JobsSound' /\ BlockedSound' /\ AheadSound' /\ FlushMeansDone'
  <2>1. QueueSound'
    BY <1>1 DEF QueueSound
  <2>2. JobsSound'
    BY <1>1 DEF JobsSound
  <2>3. BlockedSound' /\ FlushMeansDone'
    BY <1>1 DEF BlockedSound, FlushMeansDone
  <2>4. AheadSound'
    BY <1>1 DEF AheadSound
  <2> QED
    BY <2>1, <2>2, <2>3, <2>4
<1>4. ReturnedSound'
  BY <1>1 DEF ReturnedSound
<1>5. AcceptedIsRun'
  <2>1. CASE worker'.mode \in {"cancelled", "draining"}
    BY <2>1 DEF AcceptedIsRun
  <2>2. CASE chan = <<>> /\ worker.holds = Idle
    <3>1. \A j \in Tasks : jobState[j] # "queued" /\ jobState[j] # "held"
      <4>1. DOMAIN chan = {}
        BY <2>2
      <4> QED
        BY <2>2, <4>1, QueueAssumption DEF JobsSound
    <3> QED
      BY <1>1, <3>1 DEF AcceptedIsRun, Accepted
  <2> QED
    BY <1>1, <2>1, <2>2
<1> QED
  BY <1>2, <1>3, <1>4, <1>5

-----------------------------------------------------------------------------
(***************************************************************************)
(* Theorems.                                                               *)
(***************************************************************************)
\* The strengthened invariant holds of an idle queue.
LEMMA QueueInitially == QueueInit => QueueInv
<1> SUFFICES ASSUME QueueInit PROVE QueueInv
  OBVIOUS
<1>1. QueueTypeOK
  <2>1. chan \in Seq(Tasks \cup Flushers) /\ Len(chan) <= QueueRoom /\ blocked \in Seq(Flushers)
    BY QueueAssumption DEF QueueInit
  <2> QED
    BY <2>1 DEF QueueInit, QueueTypeOK, WorkerModes
<1>2. QueueSound /\ BlockedSound /\ AheadSound
  BY DEF QueueInit, QueueSound, BlockedSound, AheadSound
<1>3. JobsSound
  BY QueueAssumption DEF QueueInit, JobsSound
<1>4. ReturnedSound /\ FlushMeansDone /\ AcceptedIsRun
  BY DEF QueueInit, ReturnedSound, FlushMeansDone, AcceptedIsRun
<1> QED
  BY <1>1, <1>2, <1>3, <1>4 DEF QueueInv

\* The strengthened invariant is inductive.
LEMMA QueueInductive == QueueInv /\ [QueueNext]_queueVars => QueueInv'
<1>1. ASSUME QueueInv, QueueNext
      PROVE  QueueInv'
  BY <1>1, EnqueueStep, SendStep, GiveUpStep, TakeStep, FinishStep, StopStep
  DEF QueueNext, WorkerMoves
<1>2. ASSUME QueueInv, UNCHANGED queueVars
      PROVE  QueueInv'
  <2> USE DEF QueueInv
  <2>1. UNCHANGED <<chan, blocked, worker, jobState, flush, ahead, late>>
    BY <1>2 DEF queueVars
  <2>2. QueueTypeOK'
    BY <1>2, <2>1 DEF QueueTypeOK
  <2>3. QueueSound'
    BY <1>2, <2>1 DEF QueueSound
  <2>4. JobsSound' /\ BlockedSound'
    BY <1>2, <2>1 DEF JobsSound, BlockedSound
  <2>5. AheadSound'
    BY <1>2, <2>1 DEF AheadSound
  <2>6. ReturnedSound' /\ FlushMeansDone'
    BY <1>2, <2>1 DEF ReturnedSound, FlushMeansDone
  <2>7. AcceptedIsRun'
    BY <1>2, <2>1 DEF AcceptedIsRun, Accepted
  <2> QED
    BY <2>2, <2>3, <2>4, <2>5, <2>6, <2>7
<1> QED
  BY <1>1, <1>2

\* The strengthened invariant holds of every reachable state.
LEMMA QueueInvariant == QueueSpec => []QueueInv
  BY QueueInitially, QueueInductive, PTL DEF QueueSpec

\* The queue never exceeds its capacity and everything keeps its type.
THEOREM QueueAlwaysTyped == QueueSpec => []QueueTypeOK
<1>1. QueueInv => QueueTypeOK
  BY DEF QueueInv
<1> QED
  BY <1>1, QueueInvariant, PTL

\* However many flushers wait for room beside however many writers, a flush that
\* returns has every job accepted before its sentinel behind it
\* (FlushConsolidation).
THEOREM FlushAlwaysMeansDone == QueueSpec => []FlushMeansDone
<1>1. QueueInv => FlushMeansDone
  BY DEF QueueInv
<1> QED
  BY <1>1, QueueInvariant, PTL

\* A worker that drained its queue leaves no job it accepted before behind
\* (StartConsolidator, drainConsolidate).
THEOREM AcceptedIsAlwaysRun == QueueSpec => []AcceptedIsRun
<1>1. QueueInv => AcceptedIsRun
  BY DEF QueueInv
<1> QED
  BY <1>1, QueueInvariant, PTL

-----------------------------------------------------------------------------
(***************************************************************************)
(* Chunks, for any number of rows, texts and handlers, when no two writes  *)
(* carry the same updated_at.  Then a row's id and updated_at tell its     *)
(* text: wherever the pair is found, in the table, in the hands of a       *)
(* writer or on the page of the tick, the text beside it is the same;      *)
(* which is what PutChunks relies on when it compares the pair.            *)
(***************************************************************************)

Entry == [id : Docs, text : DocTexts, upd : Nat]
WalkSteps == {"idle", "list", "row", "put"}

\* The types the argument needs, without the bounds of the instance.
ChunkShape ==
    /\ doc \in [Docs -> [text : DocTexts \cup {NoText}, upd : Nat,
                         chunks : DocTexts \cup {NoText}]]
    /\ docWriter \in [DocWriters -> Entry \cup {NoWrite}]
    /\ instant \in Nat
    /\ walk \in [at : WalkSteps, after : Docs \cup {0}, page : Seq(Entry),
                 done : Nat, scanned : Nat, fails : Nat]
    /\ walk.at \in {"row", "put"} => walk.page # <<>>

\* A row without a text is no row.
NoDocSound == \A d \in Docs : doc[d].text = NoText => doc[d] = NoDoc

\* Where a text is found beside an id and an updated_at.
Stored(d, u, t) == doc[d].text = t /\ doc[d].upd = u
InHands(d, u, t) == \E w \in DocWriters : docWriter[w] = [id |-> d, text |-> t, upd |-> u]
OnPage(d, u, t) == \E k \in DOMAIN walk.page : walk.page[k] = [id |-> d, text |-> t, upd |-> u]
Conveyed(d, u, t) == Stored(d, u, t) \/ InHands(d, u, t) \/ OnPage(d, u, t)

OneText ==
    \A d \in Docs, u \in Nat, t \in DocTexts :
        Conveyed(d, u, t) =>
            /\ u <= instant
            /\ \A s \in DocTexts : Conveyed(d, u, s) => s = t

ChunkInv == ChunkShape /\ NoDocSound /\ OneText /\ ChunksMatchText

-----------------------------------------------------------------------------
(***************************************************************************)
(* Records.                                                                *)
(***************************************************************************)
LEMMA NoDocFacts ==
    /\ NoDoc \in [text : DocTexts \cup {NoText}, upd : Nat, chunks : DocTexts \cup {NoText}]
    /\ NoDoc.text = NoText /\ NoDoc.chunks = NoText /\ NoText \notin DocTexts
  BY ChunkAssumption DEF NoDoc

LEMMA EntryFacts ==
    /\ NoWrite \notin Entry
    /\ \A e \in Entry : e.id \in Docs /\ e.text \in DocTexts /\ e.upd \in Nat
         /\ e = [id |-> e.id, text |-> e.text, upd |-> e.upd]
  BY ChunkAssumption DEF Entry, NoWrite

LEMMA NoWalkFacts ==
    /\ NoWalk \in [at : WalkSteps, after : Docs \cup {0}, page : Seq(Entry),
                   done : Nat, scanned : Nat, fails : Nat]
    /\ NoWalk.at = "idle" /\ NoWalk.page = <<>>
  BY DEF NoWalk, WalkSteps

\* The rest of a page is part of it.
LEMMA PageTail ==
    ASSUME NEW q \in Seq(Entry), q # <<>>
    PROVE  /\ Tail(q) \in Seq(Entry) /\ Head(q) \in Entry
           /\ 1 \in DOMAIN q /\ Head(q) = q[1]
           /\ \A k \in DOMAIN Tail(q) : \E l \in DOMAIN q : Tail(q)[k] = q[l]
           /\ Len(q) # 1 => Tail(q) # <<>>
<1>1. /\ Tail(q) \in Seq(Entry) /\ Head(q) \in Entry /\ Head(q) = q[1]
      /\ Len(q) \in Nat /\ Len(q) >= 1 /\ DOMAIN q = 1 .. Len(q)
      /\ Len(Tail(q)) = Len(q) - 1 /\ DOMAIN Tail(q) = 1 .. Len(q) - 1
      /\ \A k \in 1 .. Len(q) - 1 : Tail(q)[k] = q[k + 1]
  OBVIOUS
<1> DEFINE n == Len(q)  t == Tail(q)
<1> HIDE DEF n, t
<1>2. ASSUME NEW k \in DOMAIN t PROVE \E l \in DOMAIN q : t[k] = q[l]
  <2>1. n \in Nat /\ k \in 1 .. n - 1 /\ DOMAIN q = 1 .. n /\ t[k] = q[k + 1]
    BY <1>1, <1>2 DEF n, t
  <2>2. k + 1 \in 1 .. n
    BY ONLY <2>1
  <2> QED
    BY ONLY <2>1, <2>2
<1>3. ASSUME n # 1 PROVE t # <<>>
  <2>1. Len(t) # 0
    BY <1>1, <1>3 DEF n, t
  <2>2. Len(<<>>) = 0
    OBVIOUS
  <2> QED
    BY ONLY <2>1, <2>2
<1>4. 1 \in DOMAIN q
  BY <1>1
<1> QED
  BY <1>1, <1>2, <1>3, <1>4 DEF n, t

-----------------------------------------------------------------------------
(***************************************************************************)
(* Steps.  What is found after a step was found before, unless a write     *)
(* takes a new updated_at.                                                 *)
(***************************************************************************)
\* Nothing new beside an id and an updated_at keeps one text for each.
LEMMA OneTextKept ==
    ASSUME OneText, instant' = instant,
           \A d \in Docs, u \in Nat, t \in DocTexts : Conveyed(d, u, t)' => Conveyed(d, u, t)
    PROVE  OneText'
<1>1. ASSUME NEW d \in Docs, NEW u \in Nat, NEW t \in DocTexts, Conveyed(d, u, t)'
      PROVE  /\ u <= instant'
             /\ \A s \in DocTexts : Conveyed(d, u, s)' => s = t
  <2>1. Conveyed(d, u, t)
    BY <1>1
  <2>2. u <= instant'
    BY <2>1 DEF OneText
  <2>3. ASSUME NEW s \in DocTexts, Conveyed(d, u, s)' PROVE s = t
    <3>1. Conveyed(d, u, s)
      BY <2>3
    <3> QED
      BY <2>1, <3>1 DEF OneText
  <2> QED
    BY <2>2, <2>3
<1> QED
  BY <1>1 DEF OneText
WalkRecord == [at : WalkSteps, after : Docs \cup {0}, page : Seq(Entry),
               done : Nat, scanned : Nat, fails : Nat]

\* A tick that keeps to its page.
LEMMA WalkKept ==
    ASSUME ChunkInv, UNCHANGED <<doc, docWriter, instant>>, walk' \in WalkRecord,
           walk'.at \in {"row", "put"} => walk'.page # <<>>,
           \A k \in DOMAIN walk'.page : \E l \in DOMAIN walk.page : walk'.page[k] = walk.page[l]
    PROVE  ChunkInv'
<1>1. ChunkShape'
  BY DEF ChunkInv, ChunkShape, WalkRecord
<1>2. NoDocSound' /\ ChunksMatchText'
  BY DEF ChunkInv, NoDocSound, ChunksMatchText
<1>3. ASSUME NEW d \in Docs, NEW u \in Nat, NEW t \in DocTexts, Conveyed(d, u, t)'
      PROVE  Conveyed(d, u, t)
  BY <1>3 DEF Conveyed, Stored, InHands, OnPage
<1>4. OneText'
  BY <1>3, OneTextKept DEF ChunkInv
<1> QED
  BY <1>1, <1>2, <1>4 DEF ChunkInv

\* The step to the next row keeps to the page.
LEMMA PassedFacts ==
    ASSUME ChunkShape, walk.at \in {"row", "put"}, NEW f \in Nat, NEW n \in Nat
    PROVE  /\ Passed(f, n) \in WalkRecord
           /\ Passed(f, n).at \in {"row", "put"} => Passed(f, n).page # <<>>
           /\ \A k \in DOMAIN Passed(f, n).page :
                \E l \in DOMAIN walk.page : Passed(f, n).page[k] = walk.page[l]
<1>1. walk \in WalkRecord /\ walk.page \in Seq(Entry) /\ walk.page # <<>>
  BY DEF ChunkShape, WalkRecord
<1> DEFINE p == Passed(f, n)
<1>2. /\ p.page = Tail(walk.page)
      /\ p.at = (IF Len(walk.page) = 1 THEN "list" ELSE "row")
  BY <1>1 DEF Passed, Row, WalkRecord
<1>3. Head(walk.page) \in Entry /\ Head(walk.page).id \in Docs /\ Tail(walk.page) \in Seq(Entry)
  BY <1>1, PageTail, EntryFacts
<1>4. walk.scanned + 1 \in Nat
  BY <1>1 DEF WalkRecord
<1>5. p \in WalkRecord
  <2> DEFINE q == Tail(walk.page)  d == Head(walk.page).id  m == walk.scanned + 1
             a == IF Len(walk.page) = 1 THEN "list" ELSE "row"
  <2>1. q \in Seq(Entry) /\ d \in Docs \cup {0} /\ m \in Nat /\ a \in WalkSteps
    BY <1>3, <1>4 DEF WalkSteps
  <2>2. p = [walk EXCEPT !.at = a, !.page = q, !.after = d, !.scanned = m, !.fails = f, !.done = n]
    BY DEF Passed, Row
  <2> HIDE DEF q, d, m, a, p
  <2> QED
    BY ONLY <1>1, <2>1, <2>2, f \in Nat, n \in Nat DEF WalkRecord
<1> HIDE DEF p
<1>6. p.at \in {"row", "put"} => p.page # <<>>
  BY <1>1, <1>2, PageTail
<1>7. \A k \in DOMAIN p.page : \E l \in DOMAIN walk.page : p.page[k] = walk.page[l]
  BY <1>1, <1>2, PageTail
<1> QED
  BY <1>5, <1>6, <1>7 DEF p

-----------------------------------------------------------------------------
\* Rows of an earlier release: nothing under way, every updated_at zero.
LEMMA ChunkInitInv == ChunkInit => ChunkInv
<1> SUFFICES ASSUME ChunkInit PROVE ChunkInv
  OBVIOUS
<1>1. ASSUME NEW d \in Docs
      PROVE  /\ doc[d] \in [text : DocTexts \cup {NoText}, upd : Nat,
                            chunks : DocTexts \cup {NoText}]
             /\ doc[d].upd = 0 /\ doc[d].chunks = NoText
             /\ doc[d].text = NoText => doc[d] = NoDoc
  <2>1. PICK t \in DocTexts \cup {NoText} : doc[d] = [NoDoc EXCEPT !.text = t]
    BY DEF ChunkInit
  <2> QED
    BY <2>1 DEF NoDoc
<1>2. doc \in [Docs -> [text : DocTexts \cup {NoText}, upd : Nat, chunks : DocTexts \cup {NoText}]]
  <2>1. doc = [d \in Docs |-> doc[d]]
    BY DEF ChunkInit
  <2> QED
    BY <1>1, <2>1
<1>3. ChunkShape
  BY <1>2, NoWalkFacts DEF ChunkInit, ChunkShape
<1>4. NoDocSound /\ ChunksMatchText
  BY <1>1 DEF NoDocSound, ChunksMatchText
<1>5. ASSUME NEW d \in Docs, NEW u \in Nat, NEW t \in DocTexts, Conveyed(d, u, t)
      PROVE  u = 0 /\ doc[d].text = t
  <2>1. ~InHands(d, u, t)
    <3>1. [id |-> d, text |-> t, upd |-> u] \in Entry
      BY DEF Entry
    <3> QED
      BY <3>1, EntryFacts DEF InHands, ChunkInit
  <2>2. ~OnPage(d, u, t)
    BY NoWalkFacts DEF OnPage, ChunkInit
  <2> QED
    BY <1>1, <1>5, <2>1, <2>2 DEF Conveyed, Stored
<1>6. OneText
  BY <1>5 DEF OneText, ChunkInit
<1> QED
  BY <1>3, <1>4, <1>6 DEF ChunkInv

\* A fresh updated_at was nowhere before.
LEMMA BeginDocWriteInv ==
    ASSUME ChunkInv, SameInstant = FALSE,
           NEW w \in DocWriters, NEW d \in Docs, NEW t \in DocTexts, BeginDocWrite(w, d, t)
    PROVE  ChunkInv'
<1> DEFINE fresh == [id |-> d, text |-> t, upd |-> instant + 1]
<1>1. /\ instant' = instant + 1 /\ UNCHANGED <<doc, walk>>
      /\ docWriter' = [docWriter EXCEPT ![w] = fresh]
      /\ instant \in Nat /\ docWriter \in [DocWriters -> Entry \cup {NoWrite}]
  BY DEF BeginDocWrite, Begins, ChunkInv, ChunkShape
<1>2. fresh \in Entry
  BY <1>1 DEF Entry
<1>3. ChunkShape'
  <2>1. docWriter' \in [DocWriters -> Entry \cup {NoWrite}]
    BY <1>1, <1>2
  <2> QED
    BY <1>1, <2>1 DEF ChunkInv, ChunkShape
<1>4. NoDocSound' /\ ChunksMatchText'
  BY <1>1 DEF ChunkInv, NoDocSound, ChunksMatchText
<1>5. ASSUME NEW e \in Docs, NEW u \in Nat, NEW s \in DocTexts, Conveyed(e, u, s)'
      PROVE  Conveyed(e, u, s) \/ (e = d /\ u = instant + 1 /\ s = t)
  <2>1. CASE InHands(e, u, s)'
    <3>1. PICK v \in DocWriters : docWriter'[v] = [id |-> e, text |-> s, upd |-> u]
      BY <2>1 DEF InHands
    <3>2. CASE v = w
      <4>1. fresh = [id |-> e, text |-> s, upd |-> u]
        BY <1>1, <3>1, <3>2
      <4> QED
        BY <4>1
    <3>3. CASE v # w
      <4>1. docWriter[v] = [id |-> e, text |-> s, upd |-> u]
        BY <1>1, <3>1, <3>3
      <4> QED
        BY <4>1 DEF Conveyed, InHands
    <3> QED
      BY <3>2, <3>3
  <2>2. CASE Stored(e, u, s)' \/ OnPage(e, u, s)'
    BY <1>1, <2>2 DEF Conveyed, Stored, OnPage
  <2> QED
    BY <1>5, <2>1, <2>2 DEF Conveyed
<1>6. OneText'
  <2>1. ASSUME NEW e \in Docs, NEW u \in Nat, NEW s \in DocTexts, Conveyed(e, u, s)'
        PROVE  u <= instant'
    <3>1. u <= instant \/ u = instant + 1
      BY <1>5, <2>1 DEF ChunkInv, OneText
    <3>2. instant' = instant + 1 /\ instant \in Nat
      BY <1>1
    <3> QED
      BY ONLY <3>1, <3>2, u \in Nat
  <2>2. ASSUME NEW e \in Docs, NEW u \in Nat, NEW s \in DocTexts, NEW r \in DocTexts,
               Conveyed(e, u, s)', Conveyed(e, u, r)'
        PROVE  r = s
    <3>1. CASE u = instant + 1
      <4>1. ~(u <= instant)
        BY <1>1, <3>1
      <4>2. ~Conveyed(e, u, s) /\ ~Conveyed(e, u, r)
        BY <4>1 DEF ChunkInv, OneText
      <4> QED
        BY <1>5, <2>2, <4>2
    <3>2. CASE u # instant + 1
      <4>1. Conveyed(e, u, s) /\ Conveyed(e, u, r)
        BY <1>5, <2>2, <3>2
      <4> QED
        BY <4>1 DEF ChunkInv, OneText
    <3> QED
      BY <3>1, <3>2
  <2> QED
    BY <2>1, <2>2 DEF OneText
<1> QED
  BY <1>3, <1>4, <1>6 DEF ChunkInv

\* A row written back carries what the table holds.
LEMMA BeginTouchInv ==
    ASSUME ChunkInv, NEW w \in DocWriters, NEW d \in Docs, BeginTouch(w, d)
    PROVE  ChunkInv'
<1> DEFINE copy == [id |-> d, text |-> doc[d].text, upd |-> doc[d].upd]
<1>1. /\ UNCHANGED <<doc, walk, instant>> /\ docWriter' = [docWriter EXCEPT ![w] = copy]
      /\ docWriter \in [DocWriters -> Entry \cup {NoWrite}]
  BY DEF BeginTouch, Begins, ChunkInv, ChunkShape
<1>2. doc[d].text \in DocTexts /\ doc[d].upd \in Nat
  BY DEF BeginTouch, ChunkInv, ChunkShape, NoDocSound
<1>3. copy \in Entry
  BY <1>2 DEF Entry
<1>4. ChunkShape'
  <2>1. docWriter' \in [DocWriters -> Entry \cup {NoWrite}]
    BY <1>1, <1>3
  <2> QED
    BY <1>1, <2>1 DEF ChunkInv, ChunkShape
<1>5. NoDocSound' /\ ChunksMatchText'
  BY <1>1 DEF ChunkInv, NoDocSound, ChunksMatchText
<1>6. ASSUME NEW e \in Docs, NEW u \in Nat, NEW s \in DocTexts, Conveyed(e, u, s)'
      PROVE  Conveyed(e, u, s)
  <2>1. CASE InHands(e, u, s)'
    <3>1. PICK v \in DocWriters : docWriter'[v] = [id |-> e, text |-> s, upd |-> u]
      BY <2>1 DEF InHands
    <3>2. CASE v = w
      <4>1. copy = [id |-> e, text |-> s, upd |-> u]
        BY <1>1, <3>1, <3>2
      <4> QED
        BY <4>1 DEF Conveyed, Stored
    <3>3. CASE v # w
      <4>1. docWriter[v] = [id |-> e, text |-> s, upd |-> u]
        BY <1>1, <3>1, <3>3
      <4> QED
        BY <4>1 DEF Conveyed, InHands
    <3> QED
      BY <3>2, <3>3
  <2>2. CASE Stored(e, u, s)' \/ OnPage(e, u, s)'
    BY <1>1, <2>2 DEF Conveyed, Stored, OnPage
  <2> QED
    BY <1>6, <2>1, <2>2 DEF Conveyed
<1>7. OneText'
  BY <1>1, <1>6, OneTextKept DEF ChunkInv
<1> QED
  BY <1>4, <1>5, <1>7 DEF ChunkInv
\* The Upsert moves what a handler holds into the table.
LEMMA DocUpsertInv ==
    ASSUME ChunkInv, NEW w \in DocWriters, NEW chunks \in {"nil", "empty"}, DocUpsert(w, chunks)
    PROVE  ChunkInv'
<1> DEFINE write == docWriter[w]  r == Upserted(doc[write.id], write, chunks)
<1>1. /\ UNCHANGED <<walk, instant>> /\ docWriter' = [docWriter EXCEPT ![w] = NoWrite]
      /\ doc' = [doc EXCEPT ![write.id] = r]
      /\ docWriter \in [DocWriters -> Entry \cup {NoWrite}]
      /\ doc \in [Docs -> [text : DocTexts \cup {NoText}, upd : Nat, chunks : DocTexts \cup {NoText}]]
  BY DEF DocUpsert, ChunkInv, ChunkShape
<1>2. write \in Entry
  BY <1>1 DEF DocUpsert
<1>3. /\ write.id \in Docs /\ write.text \in DocTexts /\ write.upd \in Nat
      /\ write = [id |-> write.id, text |-> write.text, upd |-> write.upd]
  BY <1>2, EntryFacts
<1>4. /\ r.text = write.text /\ r.upd = write.upd
      /\ r.chunks \in DocTexts \cup {NoText}
      /\ r.chunks # NoText => r.chunks = doc[write.id].chunks /\ doc[write.id].text = write.text
      /\ r \in [text : DocTexts \cup {NoText}, upd : Nat, chunks : DocTexts \cup {NoText}]
  BY <1>1, <1>3 DEF Upserted
<1> HIDE DEF r, write
<1>5. ChunkShape'
  <2>1. docWriter' \in [DocWriters -> Entry \cup {NoWrite}]
    BY <1>1
  <2>2. doc' \in [Docs -> [text : DocTexts \cup {NoText}, upd : Nat, chunks : DocTexts \cup {NoText}]]
    BY <1>1, <1>4
  <2> QED
    BY <1>1, <2>1, <2>2 DEF ChunkInv, ChunkShape
<1>6. NoDocSound'
  <2>1. ASSUME NEW d \in Docs, doc'[d].text = NoText PROVE doc'[d] = NoDoc
    <3>1. d # write.id
      BY <1>1, <1>3, <1>4, <2>1, NoDocFacts
    <3>2. doc'[d] = doc[d]
      BY <1>1, <3>1
    <3> QED
      BY <2>1, <3>2 DEF ChunkInv, NoDocSound
  <2> QED
    BY <2>1 DEF NoDocSound
<1>7. ChunksMatchText'
  <2>1. ASSUME NEW d \in Docs, doc'[d].chunks # NoText PROVE doc'[d].chunks = doc'[d].text
    <3>1. CASE d = write.id
      <4>1. doc'[d] = r
        BY <1>1, <3>1
      <4> QED
        BY <1>4, <2>1, <3>1, <4>1 DEF ChunkInv, ChunksMatchText
    <3>2. CASE d # write.id
      <4>1. doc'[d] = doc[d]
        BY <1>1, <3>2
      <4> QED
        BY <2>1, <4>1 DEF ChunkInv, ChunksMatchText
    <3> QED
      BY <3>1, <3>2
  <2> QED
    BY <2>1 DEF ChunksMatchText
<1>8. ASSUME NEW e \in Docs, NEW u \in Nat, NEW s \in DocTexts, Conveyed(e, u, s)'
      PROVE  Conveyed(e, u, s)
  <2>1. CASE Stored(e, u, s)'
    <3>1. CASE e = write.id
      <4>1. doc'[e] = r
        BY <1>1, <1>3, <3>1
      <4>2. write.text = s /\ write.upd = u
        BY <1>4, <2>1, <4>1 DEF Stored
      <4>3. docWriter[w] = [id |-> e, text |-> s, upd |-> u]
        BY <1>3, <3>1, <4>2 DEF write
      <4> QED
        BY <4>3 DEF Conveyed, InHands
    <3>2. CASE e # write.id
      <4>1. doc'[e] = doc[e]
        BY <1>1, <3>2
      <4> QED
        BY <2>1, <4>1 DEF Conveyed, Stored
    <3> QED
      BY <3>1, <3>2
  <2>2. CASE InHands(e, u, s)'
    <3>1. PICK v \in DocWriters : docWriter'[v] = [id |-> e, text |-> s, upd |-> u]
      BY <2>2 DEF InHands
    <3>2. [id |-> e, text |-> s, upd |-> u] # NoWrite
      <4>1. [id |-> e, text |-> s, upd |-> u] \in Entry
        BY DEF Entry
      <4> QED
        BY <4>1, EntryFacts
    <3>3. docWriter[v] = [id |-> e, text |-> s, upd |-> u]
      BY <1>1, <3>1, <3>2
    <3> QED
      BY <3>3 DEF Conveyed, InHands
  <2>3. CASE OnPage(e, u, s)'
    BY <1>1, <2>3 DEF Conveyed, OnPage
  <2> QED
    BY <1>8, <2>1, <2>2, <2>3 DEF Conveyed
<1>9. OneText'
  BY <1>1, <1>8, OneTextKept DEF ChunkInv
<1> QED
  BY <1>5, <1>6, <1>7, <1>9 DEF ChunkInv

\* A row's text and updated_at stay, or go with the row.
LEMMA RowsKept ==
    ASSUME ChunkInv, UNCHANGED <<docWriter, instant>>,
           doc' \in [Docs -> [text : DocTexts \cup {NoText}, upd : Nat, chunks : DocTexts \cup {NoText}]],
           \A d \in Docs : doc'[d] = NoDoc \/ (doc'[d].text = doc[d].text /\ doc'[d].upd = doc[d].upd),
           NoDocSound', ChunksMatchText',
           walk' \in WalkRecord,
           walk'.at \in {"row", "put"} => walk'.page # <<>>,
           \A k \in DOMAIN walk'.page : \E l \in DOMAIN walk.page : walk'.page[k] = walk.page[l]
    PROVE  ChunkInv'
<1>1. ChunkShape'
  BY DEF ChunkInv, ChunkShape, WalkRecord
<1>2. ASSUME NEW e \in Docs, NEW u \in Nat, NEW s \in DocTexts, Conveyed(e, u, s)'
      PROVE  Conveyed(e, u, s)
  <2>1. CASE Stored(e, u, s)'
    <3>1. doc'[e] # NoDoc
      BY <2>1, NoDocFacts DEF Stored
    <3> QED
      BY <2>1, <3>1 DEF Conveyed, Stored
  <2>2. CASE InHands(e, u, s)' \/ OnPage(e, u, s)'
    BY <2>2 DEF Conveyed, InHands, OnPage
  <2> QED
    BY <1>2, <2>1, <2>2 DEF Conveyed
<1>3. OneText'
  BY <1>2, OneTextKept DEF ChunkInv
<1> QED
  BY <1>1, <1>3 DEF ChunkInv

LEMMA DeleteDocInv ==
    ASSUME ChunkInv, NEW d \in Docs, DeleteDoc(d)
    PROVE  ChunkInv'
<1>1. /\ UNCHANGED <<docWriter, instant, walk>> /\ doc' = [doc EXCEPT ![d] = NoDoc]
      /\ doc \in [Docs -> [text : DocTexts \cup {NoText}, upd : Nat, chunks : DocTexts \cup {NoText}]]
  BY DEF DeleteDoc, ChunkInv, ChunkShape
<1>2. doc' \in [Docs -> [text : DocTexts \cup {NoText}, upd : Nat, chunks : DocTexts \cup {NoText}]]
  BY <1>1, NoDocFacts
<1>3. \A e \in Docs : doc'[e] = IF e = d THEN NoDoc ELSE doc[e]
  BY <1>1
<1>4. NoDocSound' /\ ChunksMatchText'
  BY <1>3, NoDocFacts DEF ChunkInv, NoDocSound, ChunksMatchText
<1>5. walk' = walk /\ walk \in WalkRecord /\ (walk.at \in {"row", "put"} => walk.page # <<>>)
  BY <1>1 DEF ChunkInv, ChunkShape, WalkRecord
<1>6. \A e \in Docs : doc'[e] = NoDoc \/ (doc'[e].text = doc[e].text /\ doc'[e].upd = doc[e].upd)
  BY <1>3
<1> QED
  BY <1>1, <1>2, <1>4, <1>5, <1>6, RowsKept

\* The row PutChunks finds untouched holds the text its parts were cut from.
LEMMA PutChunksInv ==
    ASSUME ChunkInv, PutChunks
    PROVE  ChunkInv'
<1> DEFINE n == IF Untouched(Row) THEN walk.done + 1 ELSE walk.done
<1>1. /\ UNCHANGED <<docWriter, instant>> /\ walk' = Passed(0, n)
      /\ walk.at \in {"row", "put"} /\ walk.page \in Seq(Entry) /\ walk.page # <<>>
      /\ walk.done \in Nat
      /\ doc \in [Docs -> [text : DocTexts \cup {NoText}, upd : Nat, chunks : DocTexts \cup {NoText}]]
  BY DEF PutChunks, Walks, ChunkInv, ChunkShape
<1>2. n \in Nat /\ 0 \in Nat
  BY <1>1
<1>3. /\ walk' \in WalkRecord
      /\ walk'.at \in {"row", "put"} => walk'.page # <<>>
      /\ \A k \in DOMAIN walk'.page : \E l \in DOMAIN walk.page : walk'.page[k] = walk.page[l]
  <2>1. ChunkShape /\ walk.at \in {"row", "put"}
    BY <1>1 DEF ChunkInv
  <2> HIDE DEF n
  <2> DEFINE p == Passed(0, n)
  <2>2. /\ p \in WalkRecord
        /\ p.at \in {"row", "put"} => p.page # <<>>
        /\ \A k \in DOMAIN p.page : \E l \in DOMAIN walk.page : p.page[k] = walk.page[l]
    BY ONLY <1>2, <2>1, PassedFacts
  <2>3. walk' = p
    BY <1>1
  <2> HIDE DEF p
  <2> QED
    BY ONLY <2>2, <2>3
<1>4. Row \in Entry /\ 1 \in DOMAIN walk.page /\ Row = walk.page[1]
  BY <1>1, PageTail DEF Row
<1>5. /\ Row.id \in Docs /\ Row.text \in DocTexts /\ Row.upd \in Nat
      /\ Row = [id |-> Row.id, text |-> Row.text, upd |-> Row.upd]
  BY <1>4, EntryFacts
<1>6. CASE Untouched(Row)
  <2>1. doc' = [doc EXCEPT ![Row.id].chunks = Row.text]
    BY <1>6 DEF PutChunks
  <2>2. doc[Row.id].text \in DocTexts /\ doc[Row.id].upd = Row.upd
    BY <1>1, <1>5, <1>6 DEF Untouched, ChunkInv, NoDocSound
  <2>3. Conveyed(Row.id, Row.upd, doc[Row.id].text) /\ Conveyed(Row.id, Row.upd, Row.text)
    BY <1>4, <1>5, <2>2 DEF Conveyed, Stored, OnPage
  <2>4. doc[Row.id].text = Row.text
    BY <1>5, <2>2, <2>3 DEF ChunkInv, OneText
  <2>5. ASSUME NEW d \in Docs
        PROVE  /\ doc'[d].text = doc[d].text /\ doc'[d].upd = doc[d].upd
               /\ doc'[d].chunks = IF d = Row.id THEN Row.text ELSE doc[d].chunks
               /\ d # Row.id => doc'[d] = doc[d]
    BY <1>1, <2>1
  <2>6. doc' \in [Docs -> [text : DocTexts \cup {NoText}, upd : Nat, chunks : DocTexts \cup {NoText}]]
    BY <1>1, <1>5, <2>1
  <2>7. NoDocSound'
    <3>1. ASSUME NEW d \in Docs, doc'[d].text = NoText PROVE doc'[d] = NoDoc
      <4>1. d # Row.id
        BY <2>2, <2>5, <3>1, NoDocFacts
      <4> QED
        BY <2>5, <3>1, <4>1 DEF ChunkInv, NoDocSound
    <3> QED
      BY <3>1 DEF NoDocSound
  <2>8. ChunksMatchText'
    BY <2>4, <2>5 DEF ChunkInv, ChunksMatchText
  <2>9. \A e \in Docs : doc'[e] = NoDoc \/ (doc'[e].text = doc[e].text /\ doc'[e].upd = doc[e].upd)
    BY <2>5
  <2> QED
    BY <1>1, <1>3, <2>6, <2>7, <2>8, <2>9, RowsKept
<1>7. CASE ~Untouched(Row)
  <2>1. UNCHANGED doc
    BY <1>7 DEF PutChunks
  <2> QED
    BY <1>1, <1>3, <2>1, WalkKept
<1> QED
  BY <1>6, <1>7
\* A page holds rows of the table.
LEMMA PageFacts ==
    ASSUME ChunkInv, NEW after \in Nat, NEW page \in Pages(after)
    PROVE  /\ page \in Seq(Entry)
           /\ \A k \in DOMAIN page :
                Stored(page[k].id, page[k].upd, page[k].text)
<1> DEFINE n == Cardinality(First(after))
<1>1. First(after) \in SUBSET Docs /\ n \in Nat
  <2>1. First(after) \in SUBSET Docs /\ IsFiniteSet(Docs)
    BY ChunkAssumption DEF First
  <2>2. IsFiniteSet(First(after))
    BY ONLY <2>1, FS_Subset
  <2> QED
    BY <2>1, <2>2, FS_CardinalityType
<1>2. PICK ids \in [1 .. n -> First(after)] :
        page = [k \in DOMAIN ids |->
                  [id |-> ids[k], text |-> doc[ids[k]].text, upd |-> doc[ids[k]].upd]]
  BY DEF Pages
<1> HIDE DEF n
<1>3. DOMAIN page = 1 .. n
  BY <1>2
<1>4. ASSUME NEW k \in 1 .. n
      PROVE  page[k] \in Entry /\ Stored(page[k].id, page[k].upd, page[k].text)
  <2>1. ids[k] \in First(after) /\ ids[k] \in Docs
    BY <1>1, <1>2
  <2>2. doc[ids[k]].text \in DocTexts /\ doc[ids[k]].upd \in Nat
    BY <2>1 DEF First, Unchunked, ChunkInv, ChunkShape
  <2>3. page[k] = [id |-> ids[k], text |-> doc[ids[k]].text, upd |-> doc[ids[k]].upd]
    BY <1>2
  <2> QED
    BY <2>1, <2>2, <2>3 DEF Entry, Stored
<1>5. page \in [1 .. n -> Entry]
  <2>1. page = [k \in 1 .. n |-> page[k]]
    BY <1>2
  <2> QED
    BY <1>4, <2>1
<1>6. page \in Seq(Entry)
  BY ONLY <1>1, <1>5
<1> QED
  BY <1>3, <1>4, <1>6

\* A page listed afresh says nothing the table does not.
LEMMA ListPageInv ==
    ASSUME ChunkInv, ListPage
    PROVE  ChunkInv'
<1>1. /\ UNCHANGED <<doc, docWriter, instant>> /\ walk \in WalkRecord /\ Cursor \in Nat
  BY ChunkAssumption DEF ListPage, Walks, ChunkInv, ChunkShape, WalkRecord, Cursor
<1>2. PICK page \in Pages(Cursor) :
        walk' = (IF walk.done >= ChunkBatch \/ walk.scanned >= ScanCap \/ page = <<>>
                   THEN NoWalk ELSE [walk EXCEPT !.at = "row", !.page = page])
  BY DEF ListPage
<1>3. /\ page \in Seq(Entry)
      /\ \A k \in DOMAIN page : Stored(page[k].id, page[k].upd, page[k].text)
  BY <1>1, PageFacts
<1>4. CASE walk' = NoWalk
  <2>1. walk' \in WalkRecord /\ walk'.at = "idle" /\ walk'.page = <<>>
    BY <1>4, NoWalkFacts DEF WalkRecord
  <2>2. \A k \in DOMAIN walk'.page : \E l \in DOMAIN walk.page : walk'.page[k] = walk.page[l]
    BY <2>1
  <2> QED
    BY <1>1, <2>1, <2>2, WalkKept
<1>5. CASE walk' = [walk EXCEPT !.at = "row", !.page = page] /\ page # <<>>
  <2>1. walk' \in WalkRecord /\ walk'.page = page
    BY <1>1, <1>3, <1>5 DEF WalkRecord, WalkSteps
  <2>2. ChunkShape'
    BY <1>1, <1>5, <2>1 DEF ChunkInv, ChunkShape, WalkRecord
  <2>3. NoDocSound' /\ ChunksMatchText'
    BY <1>1 DEF ChunkInv, NoDocSound, ChunksMatchText
  <2>4. ASSUME NEW e \in Docs, NEW u \in Nat, NEW s \in DocTexts, Conveyed(e, u, s)'
        PROVE  Conveyed(e, u, s)
    <3>1. CASE OnPage(e, u, s)'
      <4>1. PICK k \in DOMAIN page : page[k] = [id |-> e, text |-> s, upd |-> u]
        BY <2>1, <3>1 DEF OnPage
      <4>2. Stored(e, u, s)
        BY <1>3, <4>1
      <4> QED
        BY <4>2 DEF Conveyed
    <3>2. CASE Stored(e, u, s)' \/ InHands(e, u, s)'
      BY <1>1, <3>2 DEF Conveyed, Stored, InHands
    <3> QED
      BY <2>4, <3>1, <3>2 DEF Conveyed
  <2>5. OneText'
    BY <1>1, <2>4, OneTextKept DEF ChunkInv
  <2> QED
    BY <2>2, <2>3, <2>5 DEF ChunkInv
<1> QED
  BY <1>2, <1>4, <1>5

\* The steps of a tick that store nothing and list nothing.
LEMMA PassingInv ==
    ASSUME ChunkInv,
           \/ StartWalk \/ StopWalk \/ Decline \/ EmbedParts \/ EmbedRejected
           \/ AbandonWalk \/ PutFails \/ EmbedderStops \/ EmbedderReturns
    PROVE  ChunkInv'
<1>1. UNCHANGED <<doc, docWriter, instant>>
  BY DEF StartWalk, StopWalk, Decline, EmbedParts, EmbedRejected, AbandonWalk, PutFails,
         EmbedderStops, EmbedderReturns, Walks
<1>2. /\ walk \in WalkRecord /\ walk.fails \in Nat /\ walk.done \in Nat
      /\ walk.at \in {"row", "put"} => walk.page # <<>>
  BY DEF ChunkInv, ChunkShape, WalkRecord
<1>3. CASE walk' = NoWalk
  <2>1. walk' \in WalkRecord /\ walk'.at = "idle" /\ walk'.page = <<>>
    BY <1>3, NoWalkFacts DEF WalkRecord
  <2>2. \A k \in DOMAIN walk'.page : \E l \in DOMAIN walk.page : walk'.page[k] = walk.page[l]
    BY <2>1
  <2> QED
    BY <1>1, <2>1, <2>2, WalkKept
<1>4. CASE walk' = walk
  BY <1>1, <1>2, <1>4, WalkKept
<1>5. ASSUME NEW f \in Nat, walk' = Passed(f, walk.done), walk.at \in {"row", "put"}
      PROVE  ChunkInv'
  BY <1>1, <1>2, <1>5, PassedFacts, WalkKept DEF ChunkInv
<1>6. CASE walk' = [walk EXCEPT !.at = "list"] \/ (EmbedParts /\ walk.at = "row")
  <2>1. CASE walk' = [walk EXCEPT !.at = "list"]
    <3>1. walk' \in WalkRecord /\ walk'.page = walk.page /\ walk'.at = "list"
      BY <1>2, <2>1 DEF WalkRecord, WalkSteps
    <3> QED
      BY <1>1, <3>1, WalkKept
  <2>2. CASE EmbedParts /\ walk.at = "row"
    <3>1. walk' = [walk EXCEPT !.at = "put", !.fails = 0]
      BY <2>2 DEF EmbedParts
    <3>2. walk' \in WalkRecord /\ walk'.page = walk.page
      BY <1>2, <3>1 DEF WalkRecord, WalkSteps
    <3> QED
      BY <1>1, <1>2, <2>2, <3>2, WalkKept
  <2> QED
    BY <1>6, <2>1, <2>2
<1>7. walk.fails + 1 \in Nat /\ 0 \in Nat
  BY <1>2
<1>8. \/ walk' = NoWalk
      \/ walk' = walk
      \/ walk' = [walk EXCEPT !.at = "list"]
      \/ EmbedParts /\ walk.at = "row"
      \/ walk.at \in {"row", "put"}
           /\ (\/ walk' = Passed(walk.fails, walk.done)
               \/ walk' = Passed(walk.fails + 1, walk.done)
               \/ walk' = Passed(0, walk.done))
  BY DEF StartWalk, StopWalk, Decline, EmbedParts, EmbedRejected, AbandonWalk, PutFails,
         EmbedderStops, EmbedderReturns
<1> QED
  BY <1>2, <1>3, <1>4, <1>5, <1>6, <1>7, <1>8

-----------------------------------------------------------------------------
\* One case for each action.
LEMMA ChunkNextInv ==
    ASSUME ChunkInv, SameInstant = FALSE, [ChunkNext]_chunkVars
    PROVE  ChunkInv'
<1>1. ASSUME NEW w \in DocWriters, NEW d \in Docs, NEW t \in DocTexts, BeginDocWrite(w, d, t)
      PROVE  ChunkInv'
  BY <1>1, BeginDocWriteInv
<1>2. ASSUME NEW w \in DocWriters, NEW d \in Docs, BeginTouch(w, d) PROVE ChunkInv'
  BY <1>2, BeginTouchInv
<1>3. ASSUME NEW w \in DocWriters, NEW chunks \in {"nil", "empty"}, DocUpsert(w, chunks)
      PROVE  ChunkInv'
  BY <1>3, DocUpsertInv
<1>4. ASSUME NEW d \in Docs, DeleteDoc(d) PROVE ChunkInv'
  BY <1>4, DeleteDocInv
<1>5. CASE ListPage
  BY <1>5, ListPageInv
<1>6. CASE PutChunks
  BY <1>6, PutChunksInv
<1>7. CASE \/ StartWalk \/ StopWalk \/ Decline \/ EmbedParts \/ EmbedRejected
           \/ AbandonWalk \/ PutFails \/ EmbedderStops \/ EmbedderReturns
  BY <1>7, PassingInv
<1>8. CASE UNCHANGED chunkVars
  <2>1. UNCHANGED <<doc, docWriter, instant, walk>>
    BY <1>8 DEF chunkVars
  <2>2. walk \in WalkRecord /\ (walk.at \in {"row", "put"} => walk.page # <<>>)
    BY DEF ChunkInv, ChunkShape, WalkRecord
  <2> QED
    BY <2>1, <2>2, WalkKept
<1> QED
  BY <1>1, <1>2, <1>3, <1>4, <1>5, <1>6, <1>7, <1>8 DEF ChunkNext, Walk

\* Whatever writes, write-backs, deletions and re-creations land while the parts
\* of a row are being embedded, the chunks in the index are those of the text the
\* row holds, as long as no two writes carry the same updated_at.
THEOREM ChunksAlwaysMatch ==
    ASSUME SameInstant = FALSE
    PROVE  ChunkSpec => []ChunksMatchText
<1>1. ChunkInit => ChunkInv
  BY ChunkInitInv
<1>2. ChunkInv /\ [ChunkNext]_chunkVars => ChunkInv'
  BY ChunkNextInv
<1>3. ChunkInv => ChunksMatchText
  BY DEF ChunkInv
<1> QED
  BY <1>1, <1>2, <1>3, PTL DEF ChunkSpec
-----------------------------------------------------------------------------
(***************************************************************************)
(* The types of Chunks, whether or not two writes may carry the same       *)
(* updated_at.  A write takes at most one instant; a tick that is to put   *)
(* chunks has not had enough; a page is the image of distinct rows, all    *)
(* but the last of which rank below the last one.                          *)
(***************************************************************************)
WalkBox == [at : WalkSteps, after : Docs \cup {0}, page : Seq(Listing),
            done : 0 .. ChunkBatch, scanned : 0 .. ScanCap + 1, fails : 0 .. 1]

RowsBounded ==
    /\ doc \in [Docs -> DocRow] /\ NoDocSound
    /\ docWriter \in [DocWriters -> Listing \cup {NoWrite}]
    /\ instant \in Nat /\ instant <= docWrites
    /\ embedder \in BOOLEAN
    /\ docWrites \in 0 .. MaxDocWrites /\ troubles \in 0 .. MaxTroubles

WalkBounded ==
    /\ walk \in WalkBox
    /\ Len(walk.page) <= ChunkBatch
    /\ walk.at \in {"row", "put"} => walk.page # <<>>
    /\ walk.at = "put" => ~Enough

LEMMA ListingFacts ==
    /\ \A e \in Listing : /\ e.id \in Docs /\ e.text \in DocTexts /\ e.upd \in Instants
                          /\ e # NoWrite
    /\ Instants \in SUBSET Nat /\ NoText \notin DocTexts
    /\ NoDoc \in DocRow /\ NoDoc.text = NoText /\ NoDoc.chunks = NoText /\ NoDoc.upd = 0
<1>1. 0 \notin Docs /\ NoText \notin DocTexts /\ MaxDocWrites \in Nat
  BY ChunkAssumption
<1> QED
  BY <1>1 DEF Listing, NoWrite, NoDoc, DocRow, Instants

LEMMA NoWalkBounded ==
    ASSUME walk' = NoWalk
    PROVE  WalkBounded'
<1>1. ChunkBatch \in Nat /\ ScanCap \in Nat /\ Len(<<>>) = 0 /\ <<>> \in Seq(Listing)
  BY ChunkAssumption
<1>2. NoWalk \in WalkBox
  BY <1>1 DEF NoWalk, WalkBox, WalkSteps
<1>3. NoWalk.at = "idle" /\ NoWalk.page = <<>>
  BY DEF NoWalk
<1> QED
  BY <1>1, <1>2, <1>3 DEF WalkBounded

LEMMA RowsInitially == ChunkInit => RowsBounded
<1> SUFFICES ASSUME ChunkInit PROVE RowsBounded
  OBVIOUS
<1>1. MaxDocWrites \in Nat /\ MaxTroubles \in Nat
  BY ChunkAssumption
<1>2. ASSUME NEW d \in Docs PROVE doc[d] \in DocRow /\ (doc[d].text = NoText => doc[d] = NoDoc)
  <2>1. PICK t \in DocTexts \cup {NoText} : doc[d] = [NoDoc EXCEPT !.text = t]
    BY DEF ChunkInit
  <2> QED
    BY <1>1, <2>1 DEF NoDoc, DocRow, Instants
<1>3. doc \in [Docs -> DocRow]
  <2>1. doc = [d \in Docs |-> doc[d]]
    BY DEF ChunkInit
  <2> QED
    BY <1>2, <2>1
<1> QED
  BY <1>1, <1>2, <1>3 DEF ChunkInit, RowsBounded, NoDocSound

\* A write under way is of an instant given, of a text.
LEMMA BeginBounded ==
    ASSUME RowsBounded, NEW w \in DocWriters, NEW write \in Listing, Begins(w, write),
           instant' \in Nat, instant' <= instant + 1
    PROVE  RowsBounded'
<1>1. docWrites \in Nat /\ docWrites < MaxDocWrites /\ docWrites' = docWrites + 1 /\ MaxDocWrites \in Nat
  BY ChunkAssumption DEF RowsBounded, Begins
<1>2. docWriter' \in [DocWriters -> Listing \cup {NoWrite}]
  BY DEF RowsBounded, Begins
<1>3. docWrites' \in 0 .. MaxDocWrites /\ instant' <= docWrites'
  BY <1>1 DEF RowsBounded
<1> QED
  BY <1>2, <1>3 DEF RowsBounded, NoDocSound, Begins

LEMMA RowsNext == RowsBounded /\ WalkBounded /\ [ChunkNext]_chunkVars => RowsBounded'
<1> SUFFICES ASSUME RowsBounded, WalkBounded, [ChunkNext]_chunkVars PROVE RowsBounded'
  OBVIOUS
<1>0. /\ MaxDocWrites \in Nat /\ MaxTroubles \in Nat /\ instant \in Nat /\ docWrites \in Nat
      /\ instant <= docWrites /\ troubles \in Nat
  BY ChunkAssumption DEF RowsBounded
<1>1. ASSUME NEW w \in DocWriters, NEW d \in Docs, NEW t \in DocTexts, BeginDocWrite(w, d, t)
      PROVE  RowsBounded'
  <2>1. PICK now \in {instant + 1} \cup (IF SameInstant THEN {instant} ELSE {}) :
          instant' = now /\ Begins(w, [id |-> d, text |-> t, upd |-> now])
    BY <1>1 DEF BeginDocWrite
  <2>2. now \in Nat /\ now <= instant + 1 /\ now <= MaxDocWrites
    BY <1>0, <2>1 DEF Begins
  <2>3. [id |-> d, text |-> t, upd |-> now] \in Listing
    BY <2>2 DEF Listing, Instants
  <2> QED
    BY <2>1, <2>2, <2>3, BeginBounded
<1>2. ASSUME NEW w \in DocWriters, NEW d \in Docs, BeginTouch(w, d) PROVE RowsBounded'
  <2>1. doc[d] \in DocRow /\ doc[d].text \in DocTexts
    BY <1>2 DEF BeginTouch, RowsBounded, NoDocSound, DocRow
  <2>2. [id |-> d, text |-> doc[d].text, upd |-> doc[d].upd] \in Listing
    BY <2>1 DEF Listing, DocRow
  <2>3. instant' \in Nat /\ instant' <= instant + 1
    BY <1>0, <1>2 DEF BeginTouch
  <2> QED
    BY <1>2, <2>2, <2>3, BeginBounded DEF BeginTouch
<1>3. ASSUME NEW w \in DocWriters, NEW chunks \in {"nil", "empty"}, DocUpsert(w, chunks)
      PROVE  RowsBounded'
  <2> DEFINE write == docWriter[w]
             r == Upserted(doc[write.id], write, chunks)
  <2>1. write \in Listing
    BY <1>3 DEF DocUpsert, RowsBounded
  <2>2. write.id \in Docs /\ write.text \in DocTexts /\ write.upd \in Instants /\ NoText \notin DocTexts
    BY <2>1, ListingFacts
  <2>3. doc[write.id] \in DocRow
    BY <2>2 DEF RowsBounded
  <2>4. r \in DocRow /\ r.text # NoText
    BY <2>2, <2>3 DEF Upserted, DocRow
  <2>5. /\ doc' = [doc EXCEPT ![write.id] = r] /\ docWriter' = [docWriter EXCEPT ![w] = NoWrite]
        /\ UNCHANGED <<instant, walk, embedder, docWrites, troubles>>
    BY <1>3 DEF DocUpsert
  <2> HIDE DEF r, write
  <2>6. doc' \in [Docs -> DocRow] /\ docWriter' \in [DocWriters -> Listing \cup {NoWrite}]
    BY <2>4, <2>5 DEF RowsBounded
  <2>7. NoDocSound'
    BY <2>2, <2>4, <2>5 DEF RowsBounded, NoDocSound
  <2> QED
    BY <2>5, <2>6, <2>7 DEF RowsBounded
<1>4. ASSUME NEW d \in Docs, DeleteDoc(d) PROVE RowsBounded'
  <2>1. doc' = [doc EXCEPT ![d] = NoDoc]
    BY <1>4 DEF DeleteDoc
  <2>2. doc' \in [Docs -> DocRow] /\ NoDocSound'
    BY <2>1, ListingFacts DEF RowsBounded, NoDocSound
  <2> QED
    BY <1>4, <2>2 DEF DeleteDoc, RowsBounded
<1>5. CASE PutChunks
  <2>1. Row \in Listing
    BY <1>5 DEF PutChunks, WalkBounded, WalkBox, Row
  <2>2. Row.id \in Docs /\ Row.text \in DocTexts /\ doc[Row.id] \in DocRow
    BY <2>1, ListingFacts DEF RowsBounded
  <2> HIDE DEF Row
  <2>3. doc' = doc \/ (doc[Row.id] # NoDoc /\ doc' = [doc EXCEPT ![Row.id].chunks = Row.text])
    BY <1>5 DEF PutChunks, Untouched
  <2>4. doc' \in [Docs -> DocRow]
    BY <2>2, <2>3 DEF RowsBounded, DocRow
  <2>5. NoDocSound'
    <3> SUFFICES ASSUME NEW d \in Docs, doc'[d].text = NoText PROVE doc'[d] = NoDoc
      BY DEF NoDocSound
    <3>1. CASE d = Row.id /\ doc' # doc
      <4>1. doc'[d].text = doc[d].text /\ doc[d] # NoDoc
        BY <3>1, <2>2, <2>3 DEF RowsBounded, DocRow
      <4> QED
        BY <4>1 DEF RowsBounded, NoDocSound
    <3>2. CASE ~(d = Row.id /\ doc' # doc)
      <4>1. doc'[d] = doc[d]
        BY <3>2, <2>2, <2>3 DEF RowsBounded
      <4> QED
        BY <4>1 DEF RowsBounded, NoDocSound
    <3> QED
      BY <3>1, <3>2
  <2> QED
    BY <1>5, <2>4, <2>5 DEF PutChunks, Walks, RowsBounded
<1>6. CASE \/ StartWalk \/ ListPage \/ StopWalk \/ Decline \/ EmbedParts \/ EmbedRejected
  <2>1. UNCHANGED doc /\ Walks
    BY <1>6 DEF StartWalk, ListPage, StopWalk, Decline, EmbedParts, EmbedRejected
  <2> QED
    BY <2>1 DEF Walks, RowsBounded, NoDocSound
<1>7. CASE AbandonWalk \/ PutFails \/ EmbedderStops
  <2>1. UNCHANGED <<doc, docWriter, instant, docWrites>> /\ Trouble
    BY <1>7 DEF AbandonWalk, PutFails, EmbedderStops
  <2>2. troubles' \in 0 .. MaxTroubles
    BY <1>0, <2>1 DEF Trouble
  <2>3. embedder' = embedder \/ embedder' = FALSE
    BY <1>7 DEF AbandonWalk, PutFails, EmbedderStops
  <2>4. embedder' \in BOOLEAN
    BY <2>3 DEF RowsBounded
  <2> QED
    BY <2>1, <2>2, <2>4 DEF RowsBounded, NoDocSound
<1>8. CASE EmbedderReturns \/ UNCHANGED chunkVars
  BY <1>8 DEF EmbedderReturns, chunkVars, RowsBounded, NoDocSound
<1> QED
  BY <1>1, <1>2, <1>3, <1>4, <1>5, <1>6, <1>7, <1>8 DEF ChunkNext, Walk
\* A page is no longer than the batch: its rows but the last rank below the last.
LEMMA PageBounded ==
    ASSUME RowsBounded, NEW after \in Nat, NEW page \in Pages(after)
    PROVE  page \in Seq(Listing) /\ Len(page) <= ChunkBatch
<1> DEFINE todo == {d \in Docs : Unchunked(d) /\ d > after}
           F == First(after)
           n == Cardinality(F)
<1>1. F = {d \in todo : Cardinality({e \in todo : e < d}) < ChunkBatch}
  BY DEF First
<1>2. /\ IsFiniteSet(todo) /\ todo \in SUBSET Docs /\ Docs \in SUBSET Nat
      /\ ChunkBatch \in Nat /\ ChunkBatch >= 1
  <2>1. todo \in SUBSET Docs /\ IsFiniteSet(Docs) /\ Docs \in SUBSET Nat
        /\ ChunkBatch \in Nat /\ ChunkBatch >= 1
    BY ChunkAssumption
  <2> HIDE DEF todo
  <2> QED
    BY <2>1, FS_Subset
<1>3. PICK ids \in [1 .. n -> F] :
        /\ \A j, k \in DOMAIN ids : j < k => ids[j] < ids[k]
        /\ page = [k \in DOMAIN ids |->
                     [id |-> ids[k], text |-> doc[ids[k]].text, upd |-> doc[ids[k]].upd]]
  BY DEF Pages
<1>4. n \in Nat /\ F \in SUBSET todo
  <2> HIDE DEF todo
  <2>1. F \in SUBSET todo
    BY <1>1
  <2>2. IsFiniteSet(F)
    BY <1>2, <2>1, FS_Subset
  <2> QED
    BY <2>1, <2>2, FS_CardinalityType
<1>5. ASSUME NEW d \in todo PROVE doc[d].text \in DocTexts /\ doc[d].upd \in Instants
  BY <1>5 DEF Unchunked, RowsBounded, DocRow
<1> HIDE DEF todo, F, n
<1>6. \A k \in 1 .. n : ids[k] \in F /\ ids[k] \in todo /\ ids[k] \in Docs /\ ids[k] \in Nat
  BY <1>2, <1>3, <1>4
<1>7. page \in Seq(Listing) /\ Len(page) = n
  <2>1. DOMAIN ids = 1 .. n
    BY <1>3
  <2>2. \A k \in 1 .. n :
          [id |-> ids[k], text |-> doc[ids[k]].text, upd |-> doc[ids[k]].upd] \in Listing
    BY <1>5, <1>6 DEF Listing
  <2>3. page \in [1 .. n -> Listing]
    BY <1>3, <2>1, <2>2
  <2> QED
    BY <1>4, <2>3
<1>8. CASE n = 0
  BY <1>2, <1>7, <1>8
<1>9. CASE n # 0
  <2> DEFINE m == ids[n]
             below == {e \in todo : e < m}
             f == [k \in 1 .. n - 1 |-> ids[k]]
  <2>1. n \in 1 .. n /\ n - 1 \in Nat
    BY <1>4, <1>9
  <2>2. Cardinality(below) < ChunkBatch
    BY <1>1, <1>6, <2>1
  <2>3. IsFiniteSet(below) /\ Cardinality(below) \in Nat
    <3>1. below \in SUBSET todo
      OBVIOUS
    <3> HIDE DEF below
    <3>2. IsFiniteSet(below)
      BY <1>2, <3>1, FS_Subset
    <3> QED
      BY <3>2, FS_CardinalityType
  <2>4. \A k \in 1 .. n - 1 : ids[k] \in below
    <3> TAKE k \in 1 .. n - 1
    <3>1. k \in 1 .. n /\ k < n
      BY <1>4
    <3> QED
      BY <1>3, <1>6, <2>1, <3>1
  <2>5. f \in Injection(1 .. n - 1, below)
    <3>1. f \in [1 .. n - 1 -> below]
      BY <2>4
    <3>2. \A j, k \in 1 .. n - 1 : ids[j] = ids[k] => j = k
      <4> TAKE j \in 1 .. n - 1, k \in 1 .. n - 1
      <4>1. j \in 1 .. n /\ k \in 1 .. n /\ j \in Nat /\ k \in Nat
        BY <1>4
      <4> QED
        BY <1>3, <1>6, <4>1
    <3>3. \A k \in 1 .. n - 1 : f[k] = ids[k]
      OBVIOUS
    <3> HIDE DEF f, below
    <3> QED
      BY <3>1, <3>2, <3>3 DEF Injection, IsInjective
  <2>6. IsFiniteSet(1 .. n - 1) /\ Cardinality(1 .. n - 1) = n - 1
    BY <1>4, <1>9, <2>1, FS_Interval
  <2> HIDE DEF below, f
  <2>7. n - 1 <= Cardinality(below)
    BY <2>3, <2>5, <2>6, FS_Injection
  <2> QED
    BY <1>2, <1>4, <1>7, <2>2, <2>3, <2>7
<1> QED
  BY <1>8, <1>9

\* The step to the next row, of a tick that has not had enough.
LEMMA PassedBounded ==
    ASSUME WalkBounded, walk.at \in {"row", "put"}, ~Enough, NEW f \in 0 .. 1, NEW n \in 0 .. ChunkBatch,
           walk' = Passed(f, n)
    PROVE  WalkBounded'
<1> DEFINE q == Tail(walk.page)
           d == Head(walk.page).id
           m == walk.scanned + 1
           a == IF Len(walk.page) = 1 THEN "list" ELSE "row"
<1>1. /\ walk \in WalkBox /\ walk.page \in Seq(Listing) /\ walk.page # <<>>
      /\ Len(walk.page) \in Nat /\ Len(walk.page) <= ChunkBatch
      /\ ChunkBatch \in Nat /\ ScanCap \in Nat
  BY ChunkAssumption DEF WalkBounded, WalkBox
<1>2. /\ q \in Seq(Listing) /\ Len(q) = Len(walk.page) - 1 /\ Len(walk.page) >= 1
      /\ Head(walk.page) \in Listing
  BY <1>1
<1>3. d \in Docs
  BY <1>2 DEF Listing
<1>4. m \in 0 .. ScanCap + 1
  BY <1>1 DEF WalkBox, Enough
<1>5. a \in WalkSteps /\ a # "put" /\ (a = "row" => q # <<>>)
  <2>1. a \in WalkSteps /\ a # "put"
    BY DEF WalkSteps
  <2>2. ASSUME Len(walk.page) # 1 PROVE q # <<>>
    <3>1. Len(q) # 0
      BY ONLY <1>1, <1>2, <2>2
    <3>2. Len(<<>>) = 0
      OBVIOUS
    <3> QED
      BY ONLY <3>1, <3>2
  <2> QED
    BY <2>1, <2>2
<1>6. walk' = [walk EXCEPT !.at = a, !.page = q, !.after = d, !.scanned = m, !.fails = f, !.done = n]
  BY DEF Passed, Row
<1>7. Len(q) <= ChunkBatch
  BY <1>1, <1>2
<1> HIDE DEF a, q, d, m
<1>8. walk' \in WalkBox /\ walk'.at = a /\ walk'.page = q
  BY ONLY <1>1, <1>2, <1>3, <1>4, <1>5, <1>6, f \in 0 .. 1, n \in 0 .. ChunkBatch DEF WalkBox
<1> QED
  BY <1>5, <1>7, <1>8 DEF WalkBounded

LEMMA WalkNext == RowsBounded /\ WalkBounded /\ [ChunkNext]_chunkVars => WalkBounded'
<1> SUFFICES ASSUME RowsBounded, WalkBounded, [ChunkNext]_chunkVars PROVE WalkBounded'
  OBVIOUS
<1>1. /\ walk \in WalkBox /\ walk.done \in 0 .. ChunkBatch /\ walk.fails \in 0 .. 1
      /\ ChunkBatch \in Nat /\ 0 \in 0 .. ChunkBatch /\ walk.done \in Nat
  BY ChunkAssumption DEF WalkBounded, WalkBox
<1>2. CASE walk' = walk
  BY <1>2 DEF WalkBounded, Enough
<1>3. CASE walk' = NoWalk
  BY <1>3, NoWalkBounded
<1>4. CASE StartWalk
  <2>1. walk' = [walk EXCEPT !.at = "list"]
    BY <1>4 DEF StartWalk
  <2>2. walk' \in WalkBox /\ walk'.at = "list" /\ walk'.page = walk.page
    BY <1>1, <2>1 DEF WalkBox, WalkSteps
  <2> QED
    BY <2>2 DEF WalkBounded
<1>5. CASE ListPage
  <2>1. Cursor \in Nat
    <3>1. walk.after \in Docs \cup {0}
      BY <1>1 DEF WalkBox
    <3>2. (\A d \in Docs : d \in Nat) /\ 0 \in Nat
      BY ChunkAssumption
    <3>3. walk.after \in Docs \/ walk.after = 0
      BY <3>1
    <3>4. walk.after \in Nat
      BY <3>2, <3>3, Zenon
    <3> QED
      BY <3>4 DEF Cursor
  <2>2. PICK page \in Pages(Cursor) :
          walk' = (IF walk.done >= ChunkBatch \/ walk.scanned >= ScanCap \/ page = <<>>
                     THEN NoWalk ELSE [walk EXCEPT !.at = "row", !.page = page])
    BY <1>5 DEF ListPage
  <2>3. page \in Seq(Listing) /\ Len(page) <= ChunkBatch
    BY <2>1, PageBounded
  <2>4. CASE walk' = [walk EXCEPT !.at = "row", !.page = page] /\ page # <<>>
    <3>1. walk' \in WalkBox /\ walk'.at = "row" /\ walk'.page = page
      BY <1>1, <2>3, <2>4 DEF WalkBox, WalkSteps
    <3> QED
      BY <2>3, <2>4, <3>1 DEF WalkBounded
  <2> QED
    BY <1>3, <2>2, <2>4
<1>6. CASE EmbedParts
  <2>1. walk' = [walk EXCEPT !.at = "put", !.fails = 0] /\ ~Enough /\ walk.at = "row"
    BY <1>6 DEF EmbedParts
  <2>2. "put" \in WalkSteps /\ 0 \in 0 .. 1
    BY DEF WalkSteps
  <2>3. /\ walk' \in WalkBox /\ walk'.page = walk.page
        /\ walk'.done = walk.done /\ walk'.scanned = walk.scanned
    BY ONLY <1>1, <2>1, <2>2 DEF WalkBox
  <2> QED
    BY <2>1, <2>3 DEF WalkBounded, Enough
<1>7. ASSUME NEW f \in 0 .. 1, NEW n \in 0 .. ChunkBatch, walk' = Passed(f, n),
             walk.at \in {"row", "put"}, ~Enough
      PROVE  WalkBounded'
  BY <1>7, PassedBounded
<1>8. CASE Decline \/ EmbedRejected
  <2>1. \/ walk' = NoWalk
        \/ walk' = Passed(walk.fails, walk.done)
        \/ walk.fails # 1 /\ walk' = Passed(walk.fails + 1, walk.done)
    BY <1>8 DEF Decline, EmbedRejected
  <2>2. walk.at = "row" /\ ~Enough
    BY <1>8 DEF Decline, EmbedRejected
  <2>3. walk.fails # 1 => walk.fails + 1 \in 0 .. 1
    BY <1>1
  <2> QED
    BY <1>1, <1>3, <1>7, <2>1, <2>2, <2>3
<1>9. CASE PutChunks \/ PutFails
  <2>1. walk' = Passed(0, walk.done) \/ walk' = Passed(0, walk.done + 1)
    BY <1>9 DEF PutChunks, PutFails
  <2>2. walk.at = "put" /\ ~Enough
    BY <1>9 DEF PutChunks, PutFails, WalkBounded
  <2>3. walk.done + 1 \in 0 .. ChunkBatch /\ 0 \in 0 .. 1
    BY <1>1, <2>2 DEF Enough
  <2> QED
    BY <1>1, <1>7, <2>1, <2>2, <2>3
<1>10. \/ walk' = walk \/ walk' = NoWalk \/ StartWalk \/ ListPage \/ EmbedParts
       \/ Decline \/ EmbedRejected \/ PutChunks \/ PutFails
  <2>1. CASE \E w \in DocWriters, d \in Docs : \/ \E t \in DocTexts : BeginDocWrite(w, d, t)
                                               \/ BeginTouch(w, d)
    BY <2>1 DEF BeginDocWrite, BeginTouch, Begins
  <2>2. CASE \/ \E w \in DocWriters, chunks \in {"nil", "empty"} : DocUpsert(w, chunks)
             \/ \E d \in Docs : DeleteDoc(d)
    BY <2>2 DEF DocUpsert, DeleteDoc
  <2>3. CASE StopWalk \/ AbandonWalk \/ EmbedderStops \/ EmbedderReturns \/ UNCHANGED chunkVars
    BY <2>3 DEF StopWalk, AbandonWalk, EmbedderStops, EmbedderReturns, chunkVars
  <2> QED
    BY <2>1, <2>2, <2>3 DEF ChunkNext, Walk
<1> QED
  BY <1>2, <1>3, <1>4, <1>5, <1>6, <1>8, <1>9, <1>10

\* A tick lists no more rows at a time, visits no more and chunks no more than it
\* may, whatever is written and fails meanwhile (chunkBackfillBatch,
\* chunkBackfillScanCap), and every row keeps its type.
THEOREM ChunksAlwaysTyped == ChunkSpec => []ChunkTypeOK
<1>1. ChunkInit => RowsBounded /\ WalkBounded
  <2>1. ASSUME ChunkInit PROVE WalkBounded
    <3>1. /\ ChunkBatch \in Nat /\ ScanCap \in Nat /\ Len(<<>>) = 0 /\ <<>> \in Seq(Listing)
          /\ walk = NoWalk
      BY <2>1, ChunkAssumption DEF ChunkInit
    <3>2. walk \in WalkBox /\ walk.at = "idle" /\ walk.page = <<>>
      BY <3>1 DEF NoWalk, WalkBox, WalkSteps
    <3> QED
      BY <3>1, <3>2 DEF WalkBounded
  <2> QED
    BY <2>1, RowsInitially
<1>2. RowsBounded /\ WalkBounded /\ [ChunkNext]_chunkVars => (RowsBounded /\ WalkBounded)'
  BY RowsNext, WalkNext
<1>3. RowsBounded /\ WalkBounded => ChunkTypeOK
  <2> SUFFICES ASSUME RowsBounded, WalkBounded PROVE ChunkTypeOK
    OBVIOUS
  <2>1. instant \in Instants
    BY ChunkAssumption DEF RowsBounded, Instants
  <2>2. /\ walk.at \in WalkSteps /\ walk.after \in Docs \cup {0} /\ walk.page \in Seq(Listing)
        /\ walk.done \in 0 .. ChunkBatch /\ walk.scanned \in 0 .. ScanCap + 1 /\ walk.fails \in 0 .. 1
    BY DEF WalkBounded, WalkBox
  <2> QED
    BY <2>1, <2>2 DEF RowsBounded, WalkBounded, ChunkTypeOK, WalkSteps
<1> QED
  BY <1>1, <1>2, <1>3, PTL DEF ChunkSpec

-----------------------------------------------------------------------------
(***************************************************************************)
(* The composition.  A step of one worker leaves the others where they     *)
(* are, and a worker at rest is in one of its own initial states: whatever *)
(* is proved of a worker holds of the service.                             *)
(***************************************************************************)
LEMMA ServiceSteps ==
    [ServiceNext]_ServiceVars =>
        [DistillationNext]_distillationVars /\ [QueueNext]_queueVars /\ [ChunkNext]_chunkVars
  BY DEF ServiceNext, ServiceVars, distillationVars, queueVars, chunkVars

\* The service runs each of its three workers as specified.
THEOREM ServiceRunsWorkers == ServiceSpec => DistillationSpec /\ QueueSpec /\ ChunkSpec
<1>1. ServiceInit => DistillationInit /\ QueueInit /\ ChunkInit
  BY DEF ServiceInit
<1> QED
  BY <1>1, ServiceSteps, PTL DEF ServiceSpec, DistillationSpec, QueueSpec, ChunkSpec

\* Every variable of the workers keeps its type, for any number of captures,
\* jobs and rows and any sizes of queues, batches and pages.
THEOREM ServiceAlwaysTyped == ServiceSpec => []ServiceTypeOK
<1>1. DistillationTypeOK /\ QueueTypeOK /\ ChunkTypeOK => ServiceTypeOK
  BY DEF ServiceTypeOK
<1> QED
  BY <1>1, ServiceRunsWorkers, DistillationAlwaysTyped, QueueAlwaysTyped, ChunksAlwaysTyped, PTL
=============================================================================
