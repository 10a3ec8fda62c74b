---------------------------- MODULE MemoryProofs ----------------------------
(***************************************************************************)
(* Proofs about what a memory's row keeps: how long it lives (Retention)   *)
(* and what it is believed to be worth (Confidence).  The two share no     *)
(* state.                                                                  *)
(***************************************************************************)
EXTENDS Retention, Confidence, Induction

(***************************************************************************)
(* Retention, for any number of memories, any lifetimes and any            *)
(* interleaving of requests, edits, merges, sweeps and promoter passes.    *)
(*                                                                         *)
(* The properties speak of the table; what threatens them is a row held by *)
(* a writer: the promoter's listing, the draft of an edit or a merge.  So  *)
(* the invariant says of the copies what it says of the rows, relates what *)
(* a recall gave to what each of the writers will put back, and follows a  *)
(* row the sweeper has listed until it is visited.                         *)
(***************************************************************************)

\* A row, stored or copied.
RowSound(r) ==
    /\ r.tier = "none" => r = Blank
    /\ r.tier # "none" /\ r.asked >= 0 => r.exp # Never

DraftSound(i) ==
    /\ drafts[i].kind = "none" => drafts[i] = NoDraft
    /\ drafts[i].kind # "none" => drafts[i].row.tier # "none"
    /\ drafts[i].kind = "merge" => RowSound(drafts[i].row)

SlideSound(i) == slides[i] # NoSlide => slides[i] \in Nat

\* An id no row has had is nowhere.
FreshSound(i) ==
    i \notin used =>
        /\ mem[i] = Blank /\ tick.list[i] = Blank /\ drafts[i] = NoDraft
        /\ slides[i] = NoSlide /\ promise[i].exp = Never /\ forgot[i] = "no"

\* What a recall gave is still there, and what the promoter or a merge will
\* write of a row they read after the recall gives no less.
PromiseSound(i) ==
    promise[i].exp # Never =>
        /\ Here(i)
        /\ promise[i].exp <= clock + promise[i].by
        /\ mem[i].exp = Never \/ promise[i].exp <= mem[i].exp
        /\ tick.at # "idle" /\ i \notin late =>
             /\ promise[i].exp <= tick.now + promise[i].by
             /\ tick.list[i].tier # "none" /\ promise[i].by <= EpisodicTTL
                  => tick.list[i].exp = Never \/ promise[i].exp <= tick.list[i].exp
        /\ drafts[i].kind = "merge" /\ i \notin outdated
             => drafts[i].row.exp = Never \/ promise[i].exp <= drafts[i].row.exp

LeftSound(i) == i \in tick.left => tick.list[i].tier # "none"

GoneSound(i) ==
    forgot[i] = "yes" => mem[i] = Blank /\ tick.list[i] = Blank /\ drafts[i] = NoDraft

\* A row the sweeper holds as a tombstone is one, or gone, or raised since.
TombSound(i) ==
    sweep.at = "tomb" /\ i \in sweep.left =>
        mem[i].sup \/ i \in raised \/ (~Here(i) /\ i \in used)

Item(i) ==
    /\ RowSound(mem[i]) /\ RowSound(tick.list[i]) /\ DraftSound(i) /\ SlideSound(i)
    /\ FreshSound(i) /\ PromiseSound(i) /\ LeftSound(i) /\ GoneSound(i) /\ TombSound(i)

NowSound == sweep.now <= clock /\ tick.now <= clock

RetentionInv == RetentionTypeOK /\ NowSound /\ \A i \in Mems : Item(i)

-----------------------------------------------------------------------------
(***************************************************************************)
(* Types and rows.                                                         *)
(***************************************************************************)
LEMMA TypeFacts ==
    ASSUME RetentionTypeOK, NEW i \in Mems
    PROVE  /\ mem[i] \in MemRow /\ tick.list[i] \in MemRow
           /\ drafts[i] \in Draft /\ drafts[i].row \in MemRow
           /\ slides[i] \in Int /\ promise[i] \in Promise
           /\ promise[i].exp \in Nat \cup {Never} /\ promise[i].by \in Nat
           /\ clock \in Nat /\ sweep.now \in Nat /\ tick.now \in Nat
  BY RetentionAssumption DEF RetentionTypeOK, Times, Draft, Promise

LEMMA BlankFacts ==
    /\ Blank \in MemRow /\ Blank.tier = "none" /\ Blank.acc = 0 /\ ~Blank.sup /\ Blank.exp = Never
    /\ NoDraft \in Draft /\ NoDraft.kind = "none" /\ NoDraft.row = Blank
    /\ NoPromise \in Promise /\ NoPromise.exp = Never /\ RowSound(Blank)
  BY RetentionAssumption
     DEF Blank, MemRow, Lifetimes, DefaultTTL, NoDraft, Draft, NoPromise, Promise, RowSound

LEMMA MemRowFacts ==
    ASSUME NEW r \in MemRow
    PROVE  /\ r.tier \in Tiers \cup {"none"} /\ r.exp \in Nat \cup {Never}
           /\ r.acc \in 0 .. PromoteMinAccess /\ r.acc \in Nat
           /\ r.ttl \in Lifetimes /\ r.sup \in BOOLEAN /\ r.promoted \in BOOLEAN
           /\ r.vto \in Nat \cup {Never} /\ r.asked \in Lifetimes
  BY RetentionAssumption DEF MemRow

\* Every lifetime is one.
LEMMA ExpiryFacts ==
    ASSUME NEW tier, NEW ttl \in Lifetimes, NEW t \in Nat
    PROVE  /\ ttl \in Int /\ TierTTL(tier) \in Nat
           /\ ttl >= 0 => Lifetime(tier, ttl) \in Nat /\ ResolveExpiry(t, tier, ttl) = t + Lifetime(tier, ttl)
           /\ ttl < 0 => ResolveExpiry(t, tier, ttl) = Never
           /\ ResolveExpiry(t, tier, ttl) \in Nat \cup {Never}
           /\ ttl >= 0 => ResolveExpiry(t, tier, ttl) # Never
  BY RetentionAssumption DEF ResolveExpiry, Lifetime, TierTTL, Lifetimes, Never, DefaultTTL

LEMMA SlideFacts == ASSUME NEW r \in MemRow PROVE ReinforceTTL(r) \in Nat
<1> DEFINE l == r.ttl  d == TierTTL(r.tier)
<1>1. l \in Int /\ d \in Nat
  BY MemRowFacts, ExpiryFacts
<1>2. ReinforceTTL(r) = IF l > 0 THEN l ELSE d
  BY DEF ReinforceTTL
<1> HIDE DEF l, d
<1> QED
  BY <1>1, <1>2

\* A row a request gives whole.
LEMMA AsGivenFacts ==
    ASSUME NEW in \in Inputs, clock \in Nat
    PROVE  /\ AsGiven(in) \in MemRow /\ AsGiven(in).tier \in Tiers /\ AsGiven(in).tier # "none"
           /\ ~AsGiven(in).sup /\ RowSound(AsGiven(in))
<1> DEFINE x == ResolveExpiry(clock, in.tier, in.ttl)
           t == IF in.ttl > 0 THEN in.ttl ELSE DefaultTTL
           r == [Blank EXCEPT !.tier = in.tier, !.vto = in.end, !.asked = in.ttl, !.ttl = t, !.exp = x]
<1>1. in.tier \in Tiers /\ in.ttl \in Lifetimes /\ in.end \in Nat \cup {Never}
  BY DEF Inputs
<1>2. x \in Nat \cup {Never} /\ (in.ttl >= 0 => x # Never)
  BY <1>1, ExpiryFacts
<1>3. t \in Lifetimes
  BY <1>1 DEF Lifetimes
<1>4. AsGiven(in) = r
  BY DEF AsGiven
<1> HIDE DEF x, t
<1>5. /\ r \in MemRow /\ r.tier = in.tier /\ r.asked = in.ttl /\ r.exp = x /\ r.sup = FALSE
  <2>1. Blank.sup = FALSE
    BY DEF Blank
  <2> QED
    BY <1>1, <1>2, <1>3, <2>1, BlankFacts DEF MemRow
<1> HIDE DEF r
<1>6. in.tier # "none"
  BY <1>1 DEF Tiers
<1> QED
  BY <1>1, <1>2, <1>4, <1>5, <1>6 DEF RowSound

\* The statement of Reinforce touches the count and the expiry.
LEMMA ReinforcedFacts ==
    ASSUME NEW r \in MemRow, NEW e \in Nat
    PROVE  /\ Reinforced(r, e) \in MemRow
           /\ Reinforced(r, e).tier = r.tier /\ Reinforced(r, e).asked = r.asked
           /\ Reinforced(r, e).sup = r.sup
           /\ Reinforced(r, e).exp = (IF r.exp # Never THEN e ELSE Never)
<1> DEFINE a == IF r.acc < PromoteMinAccess THEN r.acc + 1 ELSE r.acc
           x == IF r.exp # Never THEN e ELSE Never
<1>1. a \in 0 .. PromoteMinAccess /\ x \in Nat \cup {Never}
  BY MemRowFacts, RetentionAssumption
<1>2. Reinforced(r, e) = [r EXCEPT !.acc = a, !.exp = x]
  BY DEF Reinforced, MemRow
<1> HIDE DEF a, x
<1>3. x = IF r.exp # Never THEN e ELSE Never
  BY DEF x
<1> QED
  BY <1>1, <1>2, <1>3 DEF MemRow

\* A retier keeps what the writer asked for and gives an expiry.
LEMMA RetieredFacts ==
    ASSUME NEW r \in MemRow, tick.now \in Nat
    PROVE  /\ Retiered(r) \in MemRow /\ Retiered(r).tier = "episodic"
           /\ Retiered(r).asked = r.asked /\ Retiered(r).exp = tick.now + EpisodicTTL
<1>1. tick.now + EpisodicTTL \in Nat
  BY RetentionAssumption
<1> QED
  BY <1>1 DEF Retiered, MemRow, Tiers

\* What a writer stores of its draft.
LEMMA ResolvedFacts ==
    ASSUME RetentionTypeOK, NEW i \in Mems, DraftSound(i), drafts[i] # NoDraft
    PROVE  /\ Resolved(drafts[i]) \in MemRow /\ Resolved(drafts[i]).tier # "none"
           /\ RowSound(Resolved(drafts[i]))
           /\ drafts[i].kind = "merge" => Resolved(drafts[i]) = drafts[i].row
           /\ drafts[i].kind # "merge" =>
                Resolved(drafts[i]).exp = ResolveExpiry(clock, drafts[i].row.tier, drafts[i].row.asked)
<1> DEFINE d == drafts[i]  x == ResolveExpiry(clock, d.row.tier, d.row.asked)
<1>1. d.kind \in {"edit", "merge"} /\ d.row \in MemRow /\ d.row.tier # "none" /\ clock \in Nat
      /\ d.row.asked \in Lifetimes
  BY TypeFacts, MemRowFacts DEF DraftSound, Draft
<1>2. x \in Nat \cup {Never} /\ (d.row.asked >= 0 => x # Never)
  BY <1>1, ExpiryFacts
<1>3. CASE d.kind = "merge"
  BY <1>1, <1>3 DEF Resolved, DraftSound
<1>4. CASE d.kind = "edit"
  <2>1. Resolved(d) = [d.row EXCEPT !.exp = x]
    BY <1>4 DEF Resolved
  <2> HIDE DEF x
  <2>2. /\ [d.row EXCEPT !.exp = x] \in MemRow /\ [d.row EXCEPT !.exp = x].tier = d.row.tier
        /\ [d.row EXCEPT !.exp = x].exp = x /\ [d.row EXCEPT !.exp = x].asked = d.row.asked
    BY <1>1, <1>2 DEF MemRow
  <2>3. RowSound(Resolved(d)) /\ Resolved(d).exp = x
    BY <1>1, <1>2, <2>1, <2>2 DEF RowSound
  <2> QED
    BY <1>1, <1>4, <2>1, <2>2, <2>3 DEF x
<1> QED
  BY <1>1, <1>3, <1>4

-----------------------------------------------------------------------------
(***************************************************************************)
(* What a step leaves alone.                                               *)
(***************************************************************************)
\* Nothing that concerns the memory j changes, save that time passes, that the
\* sweeper visits it or leaves it, or that the promoter does.
KeptAt(j) ==
    /\ mem'[j] = mem[j] /\ tick'.list[j] = tick.list[j] /\ slides'[j] = slides[j]
    /\ drafts'[j] = drafts[j] /\ promise'[j] = promise[j] /\ forgot'[j] = forgot[j]
    /\ (j \in used <=> j \in used') /\ (j \in late <=> j \in late')
    /\ (j \in outdated <=> j \in outdated')
    /\ tick'.at # "idle" => tick.at # "idle" /\ tick'.now = tick.now
    /\ j \in tick'.left => j \in tick.left
    /\ sweep'.at = "tomb" /\ j \in sweep'.left =>
         sweep.at = "tomb" /\ j \in sweep.left /\ (j \in raised => j \in raised')
    /\ clock' \in Nat /\ clock <= clock'

LEMMA KeptRows ==
    ASSUME RetentionTypeOK, NEW j \in Mems, Item(j), KeptAt(j)
    PROVE  Item(j)'
<1>1. promise[j].exp \in Nat \cup {Never} /\ clock \in Nat /\ promise[j].by \in Nat
  BY TypeFacts
<1>2. RowSound(mem[j])' /\ RowSound(tick.list[j])' /\ DraftSound(j)'
  BY DEF Item, KeptAt, RowSound, DraftSound
<1>3. SlideSound(j)' /\ LeftSound(j)' /\ GoneSound(j)' /\ FreshSound(j)'
  BY DEF Item, KeptAt, SlideSound, LeftSound, GoneSound, FreshSound
<1>4. PromiseSound(j)'
  <2>1. SUFFICES ASSUME promise'[j].exp # Never PROVE PromiseSound(j)'
    BY DEF PromiseSound
  <2>2. promise[j].exp <= clock' + promise[j].by
    BY <1>1, <2>1 DEF Item, KeptAt, PromiseSound, Never
  <2> QED
    BY <2>1, <2>2 DEF Item, KeptAt, PromiseSound, Here
<1>5. TombSound(j)'
  BY DEF Item, KeptAt, TombSound, Here
<1> QED
  BY <1>2, <1>3, <1>4, <1>5 DEF Item

-----------------------------------------------------------------------------
(***************************************************************************)
(* Steps that change no row.                                               *)
(***************************************************************************)
LEMMA ClockStep ==
    ASSUME RetentionInv, ClockTick
    PROVE  RetentionInv'
<1>1. clock \in Nat /\ clock' = clock + 1 /\ clock' \in Times
  BY RetentionAssumption DEF RetentionInv, RetentionTypeOK, ClockTick, Times
<1>2. RetentionTypeOK'
  BY <1>1 DEF RetentionInv, RetentionTypeOK, ClockTick, histories
<1>3. NowSound'
  BY <1>1, RetentionAssumption
     DEF RetentionInv, RetentionTypeOK, NowSound, ClockTick, histories, Times
<1>4. ASSUME NEW j \in Mems PROVE Item(j)'
  <2>1. KeptAt(j)
    BY <1>1 DEF ClockTick, KeptAt, histories
  <2> QED
    BY <2>1, KeptRows DEF RetentionInv
<1> QED
  BY <1>2, <1>3, <1>4 DEF RetentionInv

\* What ListExpired leaves the sweeper with.
LEMMA ListExpiredFacts ==
    ASSUME NEW t \in Times, ListExpired(t)
    PROVE  /\ sweep' \in [at : Stages, now : Times, left : SUBSET Mems, more : BOOLEAN]
           /\ sweep'.at = "purge" /\ sweep'.now = t
<1> DEFINE due == {i \in Mems : Here(i) /\ Expired(mem[i], t)}
<1>1. PICK b \in Batches(due) :
        sweep' = [at |-> "purge", now |-> t, left |-> b, more |-> Cardinality(b) = PurgeBatch]
  BY DEF ListExpired
<1>2. b \in SUBSET Mems
  BY DEF Batches
<1>3. (Cardinality(b) = PurgeBatch) \in BOOLEAN
  OBVIOUS
<1> QED
  BY <1>1, <1>2, <1>3 DEF Stages

\* The sweeper moves on, and no row with it.
LEMMA SweeperStep ==
    ASSUME RetentionInv, SweepBegin \/ PurgeMore \/ CapList \/ TombList \/ SweepFails \/ SweepEnd
    PROVE  RetentionInv'
<1> USE DEF RetentionInv
<1>1. /\ UNCHANGED <<mem, clock, slides, drafts, requests, tick, used, promise, late, outdated, forgot>>
      /\ raised' = raised \/ (raised' = {} /\ sweep'.at # "tomb")
  <2>1. CASE SweepEnd
    BY <2>1 DEF SweepEnd, requestVars, Asleep
  <2>2. CASE ~SweepEnd
    BY <2>2 DEF SweepBegin, PurgeMore, CapList, TombList, SweepFails, requestVars, histories
  <2> QED
    BY <2>1, <2>2
<1>2. sweep \in [at : Stages, now : Times, left : SUBSET Mems, more : BOOLEAN]
      /\ clock \in Times /\ sweep.now <= clock /\ Times \subseteq Nat /\ 0 \in Times
  BY RetentionAssumption DEF RetentionTypeOK, NowSound, Times
<1>3. /\ sweep' \in [at : Stages, now : Times, left : SUBSET Mems, more : BOOLEAN]
      /\ sweep'.now <= clock
      /\ \/ sweep'.at # "tomb"
         \/ sweep'.at = sweep.at /\ sweep'.left \subseteq sweep.left /\ raised' = raised
         \/ sweep'.left \subseteq {i \in Mems : mem[i].sup}
  <2>1. CASE SweepBegin
    BY <1>2, <2>1, ListExpiredFacts DEF SweepBegin
  <2>2. CASE PurgeMore
    BY <1>2, <2>2, ListExpiredFacts DEF PurgeMore
  <2>3. CASE CapList
    <3>1. PICK v \in Excess : sweep' = [sweep EXCEPT !.at = "cap", !.left = v]
      BY <2>3 DEF CapList
    <3>2. v \in SUBSET Mems
      BY DEF Excess
    <3> QED
      BY <1>2, <3>1, <3>2 DEF Stages
  <2>4. CASE TombList
    <3>1. sweep' = [sweep EXCEPT !.at = "tomb", !.left = {i \in Mems : Collectable(i)}]
      BY <2>4 DEF TombList
    <3>2. {i \in Mems : Collectable(i)} \subseteq {i \in Mems : mem[i].sup}
      BY DEF Collectable
    <3> HIDE DEF Collectable
    <3> QED
      BY <1>2, <3>1, <3>2 DEF Stages
  <2>5. CASE SweepFails
    <3>1. sweep' = [sweep EXCEPT !.left = {}, !.more = FALSE] /\ raised' = raised
      BY <2>5 DEF SweepFails, histories
    <3> QED
      BY <1>2, <3>1 DEF Stages
  <2>6. CASE SweepEnd
    <3>1. sweep' = Asleep
      BY <2>6 DEF SweepEnd
    <3>2. 0 <= clock
      BY <1>2
    <3> QED
      BY <1>2, <3>1, <3>2 DEF Asleep, Stages
  <2> QED
    BY <2>1, <2>2, <2>3, <2>4, <2>5, <2>6
<1>4. RetentionTypeOK'
  <2>1. raised' \in SUBSET Mems
    BY <1>1 DEF RetentionTypeOK
  <2> QED
    BY <1>1, <1>3, <2>1 DEF RetentionTypeOK
<1>5. NowSound'
  BY <1>1, <1>3 DEF NowSound
<1>6. ASSUME NEW j \in Mems PROVE Item(j)'
  <2>1. RowSound(mem[j])' /\ RowSound(tick.list[j])' /\ DraftSound(j)' /\ SlideSound(j)'
        /\ FreshSound(j)' /\ PromiseSound(j)' /\ LeftSound(j)' /\ GoneSound(j)'
    BY <1>1 DEF Item, RowSound, DraftSound, SlideSound, FreshSound, PromiseSound, LeftSound,
                GoneSound, Here
  <2>2. TombSound(j)'
    BY <1>1, <1>3 DEF Item, TombSound, Here
  <2> QED
    BY <2>1, <2>2 DEF Item
<1> QED
  BY <1>4, <1>5, <1>6

\* A recall queues a slide, or a slide is dropped.
LEMMA SlideStep ==
    ASSUME RetentionInv, NEW i \in Mems, Recall(i) \/ ReinforceFails(i)
    PROVE  RetentionInv'
<1> USE DEF RetentionInv
<1>1. /\ UNCHANGED <<mem, clock, drafts, sweep, tick, histories>>
      /\ requests' \in 0 .. MaxRequests
  BY RetentionAssumption DEF Recall, ReinforceFails, Request, RetentionTypeOK
<1>2. /\ slides' \in [Mems -> Int] /\ \A j \in Mems : j # i => slides'[j] = slides[j]
      /\ slides'[i] # NoSlide => slides'[i] \in Nat /\ Here(i)
  <2>1. CASE Recall(i)
    <3>1. /\ mem[i] \in MemRow /\ mem[i].tier # "none"
          /\ slides' = [slides EXCEPT ![i] = ReinforceTTL(mem[i])]
      BY <2>1, TypeFacts DEF Recall, Alive
    <3>2. ReinforceTTL(mem[i]) \in Nat
      BY <3>1, SlideFacts
    <3> QED
      BY <3>1, <3>2 DEF RetentionTypeOK, Here
  <2>2. CASE ReinforceFails(i)
    BY <2>2 DEF ReinforceFails, NoSlide, RetentionTypeOK
  <2> QED
    BY <2>1, <2>2
<1>3. Here(i) => i \in used
  BY BlankFacts DEF Item, FreshSound, Here
<1>4. SlideSound(i)' /\ FreshSound(i)'
  <2>1. UNCHANGED <<mem, drafts, tick, used, promise, forgot>>
    BY <1>1 DEF histories
  <2> QED
    BY <1>2, <1>3, <2>1 DEF SlideSound, Item, FreshSound
<1>5. RetentionTypeOK' /\ NowSound'
  BY <1>1, <1>2 DEF RetentionTypeOK, NowSound, histories
<1>6. ASSUME NEW j \in Mems PROVE Item(j)'
  <2>1. RowSound(mem[j])' /\ RowSound(tick.list[j])' /\ DraftSound(j)'
        /\ PromiseSound(j)' /\ LeftSound(j)' /\ GoneSound(j)' /\ TombSound(j)'
    BY <1>1 DEF Item, RowSound, DraftSound, PromiseSound, LeftSound, GoneSound, TombSound, Here,
                histories
  <2>2. SlideSound(j)' /\ FreshSound(j)'
    BY <1>1, <1>2, <1>4 DEF Item, SlideSound, FreshSound, histories
  <2> QED
    BY <2>1, <2>2 DEF Item
<1> QED
  BY <1>5, <1>6

\* The promoter lists, passes over a row, goes on to stamp, ends.
LEMMA PassStep ==
    ASSUME RetentionInv,
           PromoteBegin \/ StampBegin \/ PromoteEnd \/ \E i \in Mems : RetierSkips(i)
    PROVE  RetentionInv'
<1> USE DEF RetentionInv
<1>1. UNCHANGED <<mem, clock, slides, drafts, requests, sweep, used, promise, outdated, raised, forgot>>
  BY DEF PromoteBegin, StampBegin, PromoteEnd, RetierSkips, requestVars, histories
<1>2. /\ tick \in [at : {"idle", "retier", "stamp"}, now : Times,
                   list : [Mems -> MemRow], left : SUBSET Mems]
      /\ clock \in Times /\ tick.now <= clock /\ Times \subseteq Nat /\ 0 \in Times
      /\ late \in SUBSET Mems
  BY RetentionAssumption DEF RetentionTypeOK, NowSound, Times
<1>3. CASE PromoteBegin
  <2> DEFINE l == [i \in Mems |-> IF Alive(mem[i], clock) THEN mem[i] ELSE Blank]
  <2>1. tick' = [at |-> "retier", now |-> clock, list |-> l,
                 left |-> {i \in Mems : l[i].tier = "working" /\ Promotable(l[i])}]
        /\ late' = {}
    BY <1>3 DEF PromoteBegin
  <2>2. \A i \in Mems : l[i] = mem[i] \/ l[i] = Blank
    OBVIOUS
  <2>3. l \in [Mems -> MemRow]
    BY BlankFacts, TypeFacts
  <2>4. \A i \in Mems : mem[i] = Blank => l[i] = Blank
    OBVIOUS
  <2> HIDE DEF l
  <2>5. {i \in Mems : l[i].tier = "working" /\ Promotable(l[i])} \in SUBSET Mems
    OBVIOUS
  <2>6. RetentionTypeOK' /\ NowSound'
    BY <1>1, <1>2, <2>1, <2>3, <2>5 DEF RetentionTypeOK, NowSound
  <2>7. /\ tick'.list = l /\ tick'.now = clock /\ tick'.at # "idle"
        /\ \A i \in tick'.left : l[i].tier = "working"
    BY <2>1
  <2>8. ASSUME NEW j \in Mems PROVE Item(j)'
    <3>1. Item(j)
      OBVIOUS
    <3>2. RowSound(mem[j])' /\ RowSound(tick.list[j])' /\ DraftSound(j)'
      BY <1>1, <2>2, <2>7, <3>1, BlankFacts DEF Item, RowSound, DraftSound
    <3>3. SlideSound(j)' /\ LeftSound(j)' /\ TombSound(j)'
      BY <1>1, <2>7, <3>1 DEF Item, SlideSound, LeftSound, TombSound, Here
    <3>4. GoneSound(j)' /\ FreshSound(j)'
      BY <1>1, <2>4, <2>7, <3>1 DEF Item, GoneSound, FreshSound
    <3>5. PromiseSound(j)'
      <4>1. l[j].tier # "none" => l[j] = mem[j]
        BY <2>2, BlankFacts
      <4> QED
        BY <1>1, <2>7, <3>1, <4>1 DEF Item, PromiseSound, Here
    <3> QED
      BY <3>2, <3>3, <3>4, <3>5 DEF Item
  <2> QED
    BY <2>6, <2>8
<1>4. CASE ~PromoteBegin
  <2>1. late' = late
    BY <1>4 DEF StampBegin, PromoteEnd, RetierSkips, histories
  <2>2. /\ tick' \in [at : {"idle", "retier", "stamp"}, now : Times,
                      list : [Mems -> MemRow], left : SUBSET Mems]
        /\ \/ tick' = Resting
           \/ /\ tick.at # "idle" /\ tick'.list = tick.list /\ tick'.now = tick.now
              /\ \A i \in tick'.left : i \in tick.left \/ Promotable(tick.list[i])
    <3>1. CASE StampBegin
      <4> DEFINE s == {i \in Mems : Promotable(tick.list[i]) /\ ~tick.list[i].promoted}
      <4>1. tick.at = "retier" /\ tick' = [tick EXCEPT !.at = "stamp", !.left = s]
        BY <3>1 DEF StampBegin
      <4>2. s \in SUBSET Mems /\ \A i \in s : Promotable(tick.list[i])
        OBVIOUS
      <4> HIDE DEF s
      <4> QED
        BY <1>2, <4>1, <4>2
    <3>2. CASE PromoteEnd
      <4>1. Resting \in [at : {"idle", "retier", "stamp"}, now : Times,
                         list : [Mems -> MemRow], left : SUBSET Mems]
        BY <1>2, BlankFacts DEF Resting
      <4> QED
        BY <3>2, <4>1 DEF PromoteEnd
    <3>3. CASE \E i \in Mems : RetierSkips(i)
      <4>1. PICK i \in Mems : RetierSkips(i)
        BY <3>3
      <4>2. tick.at = "retier" /\ tick' = [tick EXCEPT !.left = tick.left \ {i}]
        BY <4>1 DEF RetierSkips
      <4> QED
        BY <1>2, <4>2
    <3> QED
      BY <1>4, <3>1, <3>2, <3>3
  <2>3. tick'.now <= clock
    BY <1>2, <2>2 DEF Resting
  <2>4. RetentionTypeOK' /\ NowSound'
    BY <1>1, <2>1, <2>2, <2>3 DEF RetentionTypeOK, NowSound
  <2>5. ASSUME NEW j \in Mems PROVE Item(j)'
    <3>1. Item(j) /\ tick.list[j] \in MemRow /\ tick.list[j].acc \in Nat
      BY TypeFacts, MemRowFacts
    <3>2. tick'.list[j] = tick.list[j] \/ (tick'.list[j] = Blank /\ tick'.at = "idle" /\ tick'.left = {})
      BY <2>2 DEF Resting
    <3>3. RowSound(mem[j])' /\ RowSound(tick.list[j])' /\ DraftSound(j)'
      BY <1>1, <3>1, <3>2, BlankFacts DEF Item, RowSound, DraftSound
    <3>4. SlideSound(j)' /\ TombSound(j)' /\ GoneSound(j)' /\ FreshSound(j)'
      BY <1>1, <3>1, <3>2 DEF Item, SlideSound, TombSound, Here, GoneSound, FreshSound
    <3>5. LeftSound(j)'
      <4>1. Promotable(tick.list[j]) => tick.list[j].tier # "none"
        BY <3>1, BlankFacts, RetentionAssumption DEF Promotable, Item, RowSound
      <4> QED
        BY <2>2, <3>1, <4>1 DEF Item, LeftSound, Resting
    <3>6. PromiseSound(j)'
      BY <1>1, <2>1, <2>2, <3>1 DEF Item, PromiseSound, Here, Resting
    <3> QED
      BY <3>3, <3>4, <3>5, <3>6 DEF Item
  <2> QED
    BY <2>4, <2>5
<1> QED
  BY <1>3, <1>4
-----------------------------------------------------------------------------
(***************************************************************************)
(* Requests that change a row.                                             *)
(***************************************************************************)
LEMMA RememberStep ==
    ASSUME RetentionInv, NEW i \in Mems, NEW in \in Writes, Remember(i, in)
    PROVE  RetentionInv'
<1> USE DEF RetentionInv
<1> DEFINE r == AsGiven(in)
<1>1. /\ i \notin used /\ mem' = [mem EXCEPT ![i] = r] /\ used' = used \cup {i}
      /\ UNCHANGED <<clock, slides, drafts, sweep, tick, promise, late, outdated, raised, forgot>>
      /\ requests' \in 0 .. MaxRequests
  BY RetentionAssumption DEF Remember, Request, RetentionTypeOK
<1>2. mem[i] \in MemRow /\ clock \in Nat /\ Item(i)
  BY TypeFacts
<1>3. mem[i] = Blank /\ tick.list[i] = Blank /\ drafts[i] = NoDraft /\ slides[i] = NoSlide
      /\ promise[i].exp = Never /\ forgot[i] = "no"
  BY <1>1, <1>2 DEF Item, FreshSound
<1>4. r \in MemRow /\ r.tier # "none" /\ RowSound(r)
  BY <1>2, InputAssumption, AsGivenFacts
<1> HIDE DEF r
<1>5. /\ mem' \in [Mems -> MemRow] /\ mem'[i] = r /\ used' \in SUBSET Mems /\ i \in used'
      /\ \A j \in Mems : j # i => mem'[j] = mem[j] /\ (j \in used <=> j \in used')
  BY <1>1, <1>4 DEF RetentionTypeOK
<1>6. RetentionTypeOK' /\ NowSound'
  BY <1>1, <1>5 DEF RetentionTypeOK, NowSound
<1>7. Item(i)'
  <2>1. RowSound(mem[i])' /\ RowSound(tick.list[i])'
    BY <1>1, <1>2, <1>4, <1>5 DEF Item, RowSound
  <2>2. DraftSound(i)' /\ SlideSound(i)' /\ FreshSound(i)' /\ LeftSound(i)'
    BY <1>1, <1>2, <1>5 DEF Item, DraftSound, SlideSound, FreshSound, LeftSound
  <2>3. PromiseSound(i)' /\ GoneSound(i)'
    BY <1>1, <1>3 DEF PromiseSound, GoneSound
  <2>4. TombSound(i)'
    BY <1>1, <1>2, <1>3, <1>5, BlankFacts DEF Item, TombSound
  <2> QED
    BY <2>1, <2>2, <2>3, <2>4 DEF Item
<1>8. ASSUME NEW j \in Mems, j # i PROVE Item(j)'
  <2>1. KeptAt(j)
    BY <1>1, <1>2, <1>5, <1>8 DEF KeptAt
  <2> QED
    BY <2>1, KeptRows
<1> QED
  BY <1>6, <1>7, <1>8

\* The slide a recall queued reaches the row, if it is still there.
LEMMA ReinforceStep ==
    ASSUME RetentionInv, NEW i \in Mems, Reinforce(i)
    PROVE  RetentionInv'
<1> USE DEF RetentionInv
<1>1. /\ slides[i] # NoSlide /\ slides' = [slides EXCEPT ![i] = NoSlide]
      /\ UNCHANGED <<clock, drafts, requests, sweep, tick, used, raised, forgot>>
  BY DEF Reinforce
<1>2. slides' \in [Mems -> Int] /\ slides'[i] = NoSlide
      /\ \A j \in Mems : j # i => slides'[j] = slides[j]
  BY <1>1 DEF RetentionTypeOK, NoSlide
<1>3. mem[i] \in MemRow /\ clock \in Nat /\ Item(i) /\ slides[i] \in Nat /\ i \in used
  BY <1>1, TypeFacts DEF Item, SlideSound, FreshSound
<1>4. CASE Here(i)
  <2> DEFINE r == Reinforced(mem[i], clock + slides[i])
             p == [exp |-> r.exp, by |-> slides[i]]
  <2>1. /\ mem' = [mem EXCEPT ![i] = r] /\ promise' = [promise EXCEPT ![i] = p]
        /\ late' = late \cup {i} /\ outdated' = outdated \cup {i}
    BY <1>4 DEF Reinforce
  <2>2. clock + slides[i] \in Nat
    BY <1>3
  <2>3. /\ r \in MemRow /\ r.tier = mem[i].tier /\ r.asked = mem[i].asked /\ r.sup = mem[i].sup
        /\ r.exp = (IF mem[i].exp # Never THEN clock + slides[i] ELSE Never)
    BY <1>3, <2>2, ReinforcedFacts
  <2> HIDE DEF r
  <2>4. r.exp \in Nat \cup {Never} /\ (r.exp # Never => r.exp <= clock + slides[i])
    BY <1>3, <2>3, MemRowFacts
  <2>5. p \in Promise /\ p.exp = r.exp /\ p.by = slides[i]
    BY <1>3, <2>4 DEF Promise
  <2> HIDE DEF p
  <2>6. /\ mem' \in [Mems -> MemRow] /\ mem'[i] = r
        /\ promise' \in [Mems -> Promise] /\ promise'[i] = p
        /\ late' \in SUBSET Mems /\ outdated' \in SUBSET Mems /\ i \in late' /\ i \in outdated'
        /\ \A j \in Mems : j # i => mem'[j] = mem[j] /\ promise'[j] = promise[j]
    BY <2>1, <2>3, <2>5 DEF RetentionTypeOK
  <2>7. RetentionTypeOK' /\ NowSound'
    BY <1>1, <1>2, <2>6 DEF RetentionTypeOK, NowSound
  <2>8. Item(i)'
    <3>1. RowSound(mem[i])' /\ RowSound(tick.list[i])'
      <4>1. clock + slides[i] # Never
        BY <2>2 DEF Never
      <4>2. RowSound(mem[i])'
        BY <1>3, <1>4, <2>3, <2>6, <4>1 DEF Item, RowSound, Here
      <4>3. RowSound(tick.list[i])'
        BY <1>1, <1>3 DEF Item, RowSound
      <4> QED
        BY <4>2, <4>3
    <3>2. SlideSound(i)' /\ LeftSound(i)' /\ DraftSound(i)' /\ FreshSound(i)'
      BY <1>1, <1>2, <1>3 DEF Item, SlideSound, LeftSound, DraftSound, FreshSound
    <3>3. PromiseSound(i)'
      <4>1. Here(i)' /\ (r.exp = Never \/ r.exp <= r.exp)
        BY <1>4, <2>3, <2>4, <2>6 DEF Here
      <4> QED
        BY <1>1, <2>4, <2>5, <2>6, <4>1 DEF PromiseSound
    <3>4. GoneSound(i)'
      BY <1>1, <1>3, <1>4, BlankFacts DEF Item, GoneSound, Here
    <3>5. TombSound(i)'
      BY <1>1, <1>3, <1>4, <2>3, <2>6 DEF Item, TombSound, Here
    <3> QED
      BY <3>1, <3>2, <3>3, <3>4, <3>5 DEF Item
  <2>9. ASSUME NEW j \in Mems, j # i PROVE Item(j)'
    <3>1. KeptAt(j)
      BY <1>1, <1>2, <1>3, <2>1, <2>6, <2>9 DEF KeptAt
    <3> QED
      BY <3>1, KeptRows
  <2> QED
    BY <2>7, <2>8, <2>9
<1>5. CASE ~Here(i)
  <2>1. UNCHANGED <<mem, promise, late, outdated>>
    BY <1>5 DEF Reinforce
  <2>2. RetentionTypeOK' /\ NowSound'
    BY <1>1, <1>2, <2>1 DEF RetentionTypeOK, NowSound
  <2>3. ASSUME NEW j \in Mems PROVE Item(j)'
    <3>1. RowSound(mem[j])' /\ RowSound(tick.list[j])' /\ DraftSound(j)'
          /\ PromiseSound(j)' /\ LeftSound(j)' /\ GoneSound(j)' /\ TombSound(j)'
      BY <1>1, <2>1 DEF Item, RowSound, DraftSound, PromiseSound, LeftSound, GoneSound, TombSound, Here
    <3>2. SlideSound(j)' /\ FreshSound(j)'
      BY <1>1, <1>2, <2>1 DEF Item, SlideSound, FreshSound
    <3> QED
      BY <3>1, <3>2 DEF Item
  <2> QED
    BY <2>2, <2>3
<1> QED
  BY <1>4, <1>5

\* A successor is given or taken away: neither expiry nor tier changes.
LEMMA LinkStep ==
    ASSUME RetentionInv, NEW i \in Mems, SupersedeMem(i) \/ RestoreMem(i)
    PROVE  RetentionInv'
<1> USE DEF RetentionInv
<1>1. /\ mem[i] \in MemRow /\ clock \in Nat /\ Item(i) /\ mem[i].tier # "none"
      /\ UNCHANGED <<clock, slides, drafts, sweep, tick, used, promise, late, outdated, forgot>>
      /\ requests' \in 0 .. MaxRequests
  <2>1. mem[i] \in MemRow /\ clock \in Nat /\ Item(i)
    BY TypeFacts
  <2>2. CASE SupersedeMem(i)
    BY <2>1, <2>2, RetentionAssumption
       DEF SupersedeMem, Here, Request, RetentionTypeOK, histories
  <2>3. CASE RestoreMem(i)
    <3>1. mem[i].tier # "none"
      BY <2>1, <2>3, BlankFacts DEF RestoreMem, Item, RowSound
    <3> QED
      BY <2>1, <2>3, <3>1, RetentionAssumption DEF RestoreMem, Request, RetentionTypeOK
  <2> QED
    BY <2>2, <2>3
<1>2. PICK r \in MemRow :
        /\ mem' = [mem EXCEPT ![i] = r]
        /\ r.tier = mem[i].tier /\ r.exp = mem[i].exp /\ r.asked = mem[i].asked
        /\ (r.sup /\ raised' = raised) \/ raised' = Raising(i)
  <2>1. CASE SupersedeMem(i)
    <3> DEFINE v == IF mem[i].vto = Never THEN clock ELSE mem[i].vto
               q == [mem[i] EXCEPT !.sup = TRUE, !.vto = v]
    <3>1. v \in Nat \cup {Never}
      BY <1>1, MemRowFacts
    <3>2. mem' = [mem EXCEPT ![i] = q] /\ raised' = raised
      BY <2>1 DEF SupersedeMem, histories, RetentionTypeOK
    <3> HIDE DEF v
    <3>3. q \in MemRow /\ q.sup /\ q.tier = mem[i].tier /\ q.exp = mem[i].exp /\ q.asked = mem[i].asked
      BY <1>1, <3>1 DEF MemRow
    <3> HIDE DEF q
    <3> QED
      BY <3>2, <3>3
  <2>2. CASE RestoreMem(i)
    <3> DEFINE q == [mem[i] EXCEPT !.sup = FALSE, !.vto = Never]
    <3>1. mem' = [mem EXCEPT ![i] = q] /\ raised' = Raising(i)
      BY <2>2 DEF RestoreMem, RetentionTypeOK
    <3>2. q \in MemRow /\ q.tier = mem[i].tier /\ q.exp = mem[i].exp /\ q.asked = mem[i].asked
      BY <1>1 DEF MemRow
    <3> HIDE DEF q
    <3> QED
      BY <3>1, <3>2
  <2> QED
    BY <2>1, <2>2
<1>3. /\ mem' \in [Mems -> MemRow] /\ mem'[i] = r
      /\ \A j \in Mems : j # i => mem'[j] = mem[j]
      /\ raised' \in SUBSET Mems /\ raised \subseteq raised'
      /\ sweep.at = "tomb" /\ i \in sweep.left => r.sup \/ i \in raised'
  BY <1>2 DEF RetentionTypeOK, Raising
<1>4. RetentionTypeOK' /\ NowSound'
  BY <1>1, <1>3 DEF RetentionTypeOK, NowSound
<1>5. Item(i)'
  <2>1. RowSound(mem[i])' /\ RowSound(tick.list[i])'
    BY <1>1, <1>2, <1>3 DEF Item, RowSound
  <2>2. SlideSound(i)' /\ LeftSound(i)' /\ DraftSound(i)'
    BY <1>1 DEF Item, SlideSound, LeftSound, DraftSound
  <2>3. PromiseSound(i)'
    BY <1>1, <1>2, <1>3 DEF Item, PromiseSound, Here
  <2>4. GoneSound(i)' /\ FreshSound(i)'
    BY <1>1, BlankFacts DEF Item, GoneSound, FreshSound
  <2>5. TombSound(i)'
    BY <1>1, <1>3 DEF TombSound
  <2> QED
    BY <2>1, <2>2, <2>3, <2>4, <2>5 DEF Item
<1>6. ASSUME NEW j \in Mems, j # i PROVE Item(j)'
  <2>1. KeptAt(j)
    BY <1>1, <1>3, <1>6 DEF KeptAt
  <2> QED
    BY <2>1, KeptRows
<1> QED
  BY <1>4, <1>5, <1>6

-----------------------------------------------------------------------------
(***************************************************************************)
(* Writers that read a row and write it later.                             *)
(***************************************************************************)
LEMMA ReadStep ==
    ASSUME RetentionInv, NEW i \in Mems, NEW kind \in {"edit", "merge"}, NEW r \in MemRow,
           Read(i, kind, r), r.tier # "none", kind = "merge" => r = mem[i],
           used' = used \cup {i}, Here(i) \/ kind # "merge",
           forgot' = [forgot EXCEPT ![i] = IF @ = "yes" THEN "held" ELSE @]
    PROVE  RetentionInv'
<1> USE DEF RetentionInv
<1> DEFINE d == [kind |-> kind, row |-> r]
           g == IF forgot[i] = "yes" THEN "held" ELSE forgot[i]
<1>1. /\ drafts' = [drafts EXCEPT ![i] = d] /\ outdated' = outdated \ {i}
      /\ UNCHANGED <<mem, clock, slides, sweep, tick, promise, late, raised>>
      /\ requests' \in 0 .. MaxRequests
  BY RetentionAssumption DEF Read, Request, RetentionTypeOK
<1>2. mem[i] \in MemRow /\ clock \in Nat /\ Item(i) /\ forgot[i] \in {"no", "yes", "held"}
  BY TypeFacts DEF RetentionTypeOK
<1>3. d \in Draft /\ d.kind = kind /\ d.row = r
  BY DEF Draft
<1>4. g \in {"no", "held"} /\ forgot' = [forgot EXCEPT ![i] = g]
  BY <1>2
<1> HIDE DEF d, g
<1>5. /\ drafts' \in [Mems -> Draft] /\ drafts'[i] = d /\ outdated' \in SUBSET Mems
      /\ used' \in SUBSET Mems /\ i \in used'
      /\ forgot' \in [Mems -> {"no", "yes", "held"}] /\ forgot'[i] = g
      /\ \A j \in Mems : j # i => /\ drafts'[j] = drafts[j] /\ forgot'[j] = forgot[j]
                                  /\ (j \in used <=> j \in used')
                                  /\ (j \in outdated <=> j \in outdated')
  BY <1>1, <1>3, <1>4 DEF RetentionTypeOK
<1>6. RetentionTypeOK' /\ NowSound'
  BY <1>1, <1>5 DEF RetentionTypeOK, NowSound
<1>7. Item(i)'
  <2>1. RowSound(mem[i])' /\ RowSound(tick.list[i])' /\ SlideSound(i)' /\ LeftSound(i)'
    BY <1>1, <1>2 DEF Item, RowSound, SlideSound, LeftSound
  <2>2. DraftSound(i)'
    BY <1>2, <1>3, <1>5 DEF Item, RowSound, DraftSound
  <2>3. FreshSound(i)' /\ GoneSound(i)'
    BY <1>4, <1>5 DEF FreshSound, GoneSound
  <2>4. PromiseSound(i)'
    BY <1>1, <1>2, <1>3, <1>5 DEF Item, PromiseSound, Here
  <2>5. TombSound(i)'
    BY <1>1, <1>2, <1>5 DEF Item, TombSound, Here
  <2> QED
    BY <2>1, <2>2, <2>3, <2>4, <2>5 DEF Item
<1>8. ASSUME NEW j \in Mems, j # i PROVE Item(j)'
  <2>1. KeptAt(j)
    BY <1>1, <1>2, <1>5, <1>8 DEF KeptAt
  <2> QED
    BY <2>1, KeptRows
<1> QED
  BY <1>6, <1>7, <1>8

LEMMA ReadsStep ==
    ASSUME RetentionInv, NEW i \in Mems,
           \/ \E tier \in Tiers : ReadUpdate(i, tier)
           \/ \E in \in Rewrites : ReadRemember(i, in)
           \/ ReadMerge(i)
    PROVE  RetentionInv'
<1>1. /\ RetentionTypeOK /\ Item(i) /\ mem[i] \in MemRow /\ clock \in Nat /\ used \in SUBSET Mems
      /\ forgot \in [Mems -> {"no", "yes", "held"}]
  BY TypeFacts DEF RetentionInv, RetentionTypeOK
<1>2. Here(i) => i \in used /\ forgot[i] # "yes"
  BY <1>1, BlankFacts DEF Item, FreshSound, GoneSound, Here
<1>3. ASSUME Here(i), UNCHANGED <<used, forgot>>
      PROVE  /\ used' = used \cup {i}
             /\ forgot' = [forgot EXCEPT ![i] = IF @ = "yes" THEN "held" ELSE @]
  BY <1>1, <1>2, <1>3
<1>4. ASSUME NEW tier \in Tiers, ReadUpdate(i, tier) PROVE RetentionInv'
  <2> DEFINE r == [mem[i] EXCEPT !.tier = tier, !.acc = 0, !.sup = FALSE, !.asked = DefaultTTL]
  <2>1. Here(i) /\ UNCHANGED <<used, forgot>> /\ Read(i, "edit", r)
    BY <1>4 DEF ReadUpdate
  <2>2. r \in MemRow /\ r.tier # "none"
    <3>1. DefaultTTL \in Lifetimes /\ 0 \in 0 .. PromoteMinAccess /\ tier # "none"
      BY RetentionAssumption DEF Lifetimes, Tiers
    <3> QED
      BY ONLY <1>1, <3>1 DEF MemRow
  <2> HIDE DEF r
  <2> QED
    BY <1>3, <2>1, <2>2, ReadStep
<1>5. ASSUME NEW in \in Rewrites, ReadRemember(i, in) PROVE RetentionInv'
  <2> DEFINE e == IF in.end = Never THEN mem[i].vto ELSE in.end
             n == [in EXCEPT !.end = e]
  <2>1. /\ Read(i, "edit", AsGiven([in EXCEPT !.end = IF @ = Never THEN mem[i].vto ELSE @]))
        /\ used' = used \cup {i}
        /\ forgot' = [forgot EXCEPT ![i] = IF @ = "yes" THEN "held" ELSE @]
    BY <1>5 DEF ReadRemember
  <2>2. in \in Inputs
    BY InputAssumption
  <2>3. e \in Nat \cup {Never}
    BY <1>1, <2>2, MemRowFacts DEF Inputs
  <2>4. [in EXCEPT !.end = IF @ = Never THEN mem[i].vto ELSE @] = n
    BY <2>2 DEF Inputs
  <2> HIDE DEF e
  <2>5. n \in Inputs
    BY <2>2, <2>3 DEF Inputs
  <2> HIDE DEF n
  <2>6. AsGiven(n) \in MemRow /\ AsGiven(n).tier # "none"
    BY <1>1, <2>5, AsGivenFacts
  <2> QED
    BY <2>1, <2>4, <2>6, ReadStep
<1>6. CASE ReadMerge(i)
  <2>1. Here(i) /\ UNCHANGED <<used, forgot>> /\ Read(i, "merge", mem[i]) /\ mem[i].tier # "none"
    BY <1>6 DEF ReadMerge, Here
  <2> QED
    BY <1>1, <1>3, <2>1, ReadStep
<1> QED
  BY <1>4, <1>5, <1>6

\* A draft given up.
LEMMA DraftFailsStep ==
    ASSUME RetentionInv, NEW i \in Mems, DraftFails(i)
    PROVE  RetentionInv'
<1> USE DEF RetentionInv
<1>1. /\ drafts' = [drafts EXCEPT ![i] = NoDraft]
      /\ UNCHANGED <<mem, clock, slides, requests, sweep, tick, used, promise, late, outdated,
                     raised, forgot>>
  BY DEF DraftFails, histories
<1>2. drafts' \in [Mems -> Draft] /\ drafts'[i] = NoDraft
      /\ \A j \in Mems : j # i => drafts'[j] = drafts[j]
  BY <1>1, BlankFacts DEF RetentionTypeOK
<1>3. RetentionTypeOK' /\ NowSound'
  BY <1>1, <1>2 DEF RetentionTypeOK, NowSound
<1>4. ASSUME NEW j \in Mems PROVE Item(j)'
  <2>1. Item(j) /\ (drafts'[j] = NoDraft \/ drafts'[j] = drafts[j])
    BY <1>2
  <2>2. RowSound(mem[j])' /\ RowSound(tick.list[j])' /\ SlideSound(j)' /\ LeftSound(j)' /\ TombSound(j)'
    BY <1>1, <2>1 DEF Item, RowSound, SlideSound, LeftSound, TombSound, Here
  <2>3. DraftSound(j)' /\ FreshSound(j)' /\ GoneSound(j)'
    BY <1>1, <2>1, BlankFacts DEF Item, DraftSound, RowSound, FreshSound, GoneSound
  <2>4. PromiseSound(j)'
    BY <1>1, <2>1, BlankFacts DEF Item, PromiseSound, Here
  <2> QED
    BY <2>1, <2>2, <2>3, <2>4 DEF Item
<1> QED
  BY <1>3, <1>4

\* A draft written: a recall's gift is void, or what is stored gives no less.
LEMMA GiftKept ==
    ASSUME RetentionInv, NEW i \in Mems, WriteDraft(i)
    PROVE  /\ promise' \in [Mems -> Promise]
           /\ \A j \in Mems : j # i => promise'[j] = promise[j]
           /\ \/ promise'[i] = NoPromise
              \/ /\ promise'[i] = promise[i]
                 /\ promise[i].exp # Never =>
                      \/ Resolved(drafts[i]).exp = Never
                      \/ promise[i].exp <= Resolved(drafts[i]).exp
<1> USE DEF RetentionInv
<1> DEFINE d == drafts[i]  l == Lifetime(d.row.tier, d.row.asked)
<1>1. /\ Item(i) /\ DraftSound(i) /\ d # NoDraft /\ clock \in Nat /\ d.row.asked \in Lifetimes
      /\ d.kind \in {"none", "edit", "merge"} /\ promise[i] \in Promise
      /\ promise[i].exp \in Nat \cup {Never} /\ promise[i].by \in Nat
      /\ promise \in [Mems -> Promise]
  BY TypeFacts, MemRowFacts DEF WriteDraft, Item, RetentionTypeOK, Draft
<1>2. promise' = IF d.kind = "merge" THEN Voided(i, i \in outdated, promise[i].by)
                 ELSE IF d.row.asked < 0 THEN promise ELSE Voided(i, FALSE, l)
  BY DEF WriteDraft
<1>3. PICK keep \in BOOLEAN :
        /\ promise' = IF keep THEN promise ELSE [promise EXCEPT ![i] = NoPromise]
        /\ keep => \/ d.kind = "merge" /\ i \notin outdated
                   \/ d.kind # "merge" /\ (d.row.asked < 0 \/ ~(promise[i].by > l))
  <2>1. CASE d.kind = "merge"
    BY <1>2, <2>1 DEF Voided
  <2>2. CASE d.kind # "merge" /\ d.row.asked < 0
    BY <1>2, <2>2
  <2>3. CASE d.kind # "merge" /\ ~(d.row.asked < 0)
    BY <1>2, <2>3 DEF Voided
  <2> QED
    BY <2>1, <2>2, <2>3
<1>4. /\ promise' \in [Mems -> Promise]
      /\ \A j \in Mems : j # i => promise'[j] = promise[j]
      /\ keep => promise'[i] = promise[i]
      /\ ~keep => promise'[i] = NoPromise
  BY <1>1, <1>3, BlankFacts
<1>5. ASSUME keep, promise[i].exp # Never
      PROVE  Resolved(d).exp = Never \/ promise[i].exp <= Resolved(d).exp
  <2>1. promise[i].exp <= clock + promise[i].by
    BY <1>1, <1>5 DEF Item, PromiseSound
  <2>2. CASE d.kind = "merge" /\ i \notin outdated
    <3>1. Resolved(d) = d.row
      BY <2>2 DEF Resolved
    <3> QED
      BY <1>1, <1>5, <2>2, <3>1 DEF Item, PromiseSound
  <2>3. CASE d.kind # "merge" /\ d.row.asked < 0
    <3>1. Resolved(d).exp = ResolveExpiry(clock, d.row.tier, d.row.asked)
      BY <1>1, <2>3, ResolvedFacts
    <3> QED
      BY <1>1, <2>3, <3>1, ExpiryFacts
  <2>4. CASE d.kind # "merge" /\ ~(d.row.asked < 0) /\ ~(promise[i].by > l)
    <3>1. Resolved(d).exp = ResolveExpiry(clock, d.row.tier, d.row.asked)
      BY <1>1, <2>4, ResolvedFacts
    <3>2. d.row.asked \in Int /\ d.row.asked >= 0
      BY <1>1, <2>4, ExpiryFacts
    <3>3. Resolved(d).exp = clock + l /\ l \in Nat
      BY <1>1, <3>1, <3>2, ExpiryFacts
    <3> DEFINE e == promise[i].exp  b == promise[i].by
    <3>4. e \in Nat /\ b \in Nat /\ clock \in Nat /\ e <= clock + b /\ ~(b > l)
      BY <1>1, <1>5, <2>1, <2>4
    <3> HIDE DEF l, e, b
    <3>5. e <= clock + l
      BY <3>3, <3>4
    <3> QED
      BY <3>3, <3>5 DEF e
  <2> QED
    BY <1>3, <1>5, <2>2, <2>3, <2>4
<1> QED
  BY <1>4, <1>5

LEMMA WriteDraftStep ==
    ASSUME RetentionInv, NEW i \in Mems, WriteDraft(i)
    PROVE  RetentionInv'
<1> USE DEF RetentionInv
<1> DEFINE r == Resolved(drafts[i])
           g == IF forgot[i] = "held" THEN "no" ELSE forgot[i]
<1>1. /\ drafts[i] # NoDraft /\ drafts' = [drafts EXCEPT ![i] = NoDraft]
      /\ mem' = [mem EXCEPT ![i] = r] /\ raised' = Raising(i)
      /\ forgot' = [forgot EXCEPT ![i] = g]
      /\ UNCHANGED <<clock, slides, requests, sweep, tick, used, late, outdated>>
  BY DEF WriteDraft, RetentionTypeOK
<1>2. mem[i] \in MemRow /\ clock \in Nat /\ Item(i) /\ promise[i] \in Promise
      /\ promise[i].exp \in Nat \cup {Never} /\ promise[i].by \in Nat
      /\ forgot[i] \in {"no", "yes", "held"}
  BY TypeFacts DEF RetentionTypeOK
<1>3. r \in MemRow /\ r.tier # "none" /\ RowSound(r)
  BY <1>1, <1>2, ResolvedFacts DEF Item
<1>4. forgot[i] # "yes" /\ i \in used
  BY <1>1, <1>2 DEF Item, GoneSound, FreshSound
<1>5. /\ promise' \in [Mems -> Promise]
      /\ \A j \in Mems : j # i => promise'[j] = promise[j]
      /\ \/ promise'[i] = NoPromise
         \/ /\ promise'[i] = promise[i]
            /\ promise[i].exp # Never => r.exp = Never \/ promise[i].exp <= r.exp
  BY GiftKept
<1> HIDE DEF r
<1>6. g \in {"no", "held"}
  BY <1>2, <1>4
<1> HIDE DEF g
<1>7. /\ mem' \in [Mems -> MemRow] /\ mem'[i] = r
      /\ drafts' \in [Mems -> Draft] /\ drafts'[i] = NoDraft
      /\ forgot' \in [Mems -> {"no", "yes", "held"}] /\ forgot'[i] = g
      /\ \A j \in Mems : j # i => mem'[j] = mem[j] /\ drafts'[j] = drafts[j] /\ forgot'[j] = forgot[j]
      /\ raised' \in SUBSET Mems /\ raised \subseteq raised'
      /\ sweep.at = "tomb" /\ i \in sweep.left => i \in raised'
  BY <1>1, <1>3, <1>6, BlankFacts DEF RetentionTypeOK, Raising
<1>8. RetentionTypeOK' /\ NowSound'
  BY <1>1, <1>5, <1>7 DEF RetentionTypeOK, NowSound
<1>9. Item(i)'
  <2>1. RowSound(mem[i])' /\ RowSound(tick.list[i])' /\ DraftSound(i)'
    BY <1>1, <1>2, <1>3, <1>7, BlankFacts DEF Item, RowSound, DraftSound
  <2>2. SlideSound(i)' /\ LeftSound(i)'
    BY <1>1, <1>2 DEF Item, SlideSound, LeftSound
  <2>3. FreshSound(i)' /\ GoneSound(i)'
    BY <1>1, <1>4, <1>6, <1>7 DEF FreshSound, GoneSound
  <2>4. PromiseSound(i)'
    <3>1. SUFFICES ASSUME promise'[i].exp # Never PROVE PromiseSound(i)'
      BY DEF PromiseSound
    <3>2. promise'[i] = promise[i] /\ (r.exp = Never \/ promise[i].exp <= r.exp)
      BY <1>5, <3>1, BlankFacts
    <3> QED
      BY <1>1, <1>2, <1>3, <1>7, <3>1, <3>2, BlankFacts DEF Item, PromiseSound, Here
  <2>5. TombSound(i)'
    BY <1>1, <1>7 DEF TombSound
  <2> QED
    BY <2>1, <2>2, <2>3, <2>4, <2>5 DEF Item
<1>10. ASSUME NEW j \in Mems, j # i PROVE Item(j)'
  <2>1. KeptAt(j)
    BY <1>1, <1>2, <1>5, <1>7, <1>10 DEF KeptAt
  <2> QED
    BY <2>1, KeptRows
<1> QED
  BY <1>8, <1>9, <1>10

-----------------------------------------------------------------------------
(***************************************************************************)
(* Deletions.                                                              *)
(***************************************************************************)
LEMMA ForgetStep ==
    ASSUME RetentionInv, NEW i \in Mems, ForgetMem(i)
    PROVE  RetentionInv'
<1> USE DEF RetentionInv
<1> DEFINE g == IF Holding(i) THEN "held" ELSE "yes"
<1>1. /\ Here(i) /\ mem' = [mem EXCEPT ![i] = Blank]
      /\ promise' = [promise EXCEPT ![i] = NoPromise]
      /\ forgot' = [forgot EXCEPT ![i] = g]
      /\ UNCHANGED <<clock, slides, drafts, sweep, tick, used, late, outdated, raised>>
      /\ requests' \in 0 .. MaxRequests
  BY RetentionAssumption DEF ForgetMem, Request, RetentionTypeOK
<1>2. Item(i) /\ clock \in Nat /\ i \in used
  BY <1>1, TypeFacts, BlankFacts DEF Item, FreshSound, Here
<1>3. g \in {"no", "yes", "held"} /\ (g = "yes" => tick.list[i] = Blank /\ drafts[i] = NoDraft)
  BY DEF Holding
<1> HIDE DEF g
<1>4. /\ mem' \in [Mems -> MemRow] /\ mem'[i] = Blank
      /\ promise' \in [Mems -> Promise] /\ promise'[i] = NoPromise
      /\ forgot' \in [Mems -> {"no", "yes", "held"}] /\ forgot'[i] = g
      /\ \A j \in Mems : j # i =>
           mem'[j] = mem[j] /\ promise'[j] = promise[j] /\ forgot'[j] = forgot[j]
  BY <1>1, <1>3, BlankFacts DEF RetentionTypeOK
<1>5. RetentionTypeOK' /\ NowSound'
  BY <1>1, <1>4 DEF RetentionTypeOK, NowSound
<1>6. Item(i)'
  <2>1. RowSound(mem[i])' /\ RowSound(tick.list[i])' /\ DraftSound(i)'
    BY <1>1, <1>2, <1>4, BlankFacts DEF Item, RowSound, DraftSound
  <2>2. SlideSound(i)' /\ LeftSound(i)' /\ PromiseSound(i)' /\ FreshSound(i)'
    BY <1>1, <1>2, <1>4, BlankFacts DEF Item, SlideSound, LeftSound, PromiseSound, FreshSound
  <2>3. GoneSound(i)' /\ TombSound(i)'
    BY <1>1, <1>2, <1>3, <1>4, BlankFacts DEF GoneSound, TombSound, Here
  <2> QED
    BY <2>1, <2>2, <2>3 DEF Item
<1>7. ASSUME NEW j \in Mems, j # i PROVE Item(j)'
  <2>1. KeptAt(j)
    BY <1>1, <1>2, <1>4, <1>7 DEF KeptAt
  <2> QED
    BY <2>1, KeptRows
<1> QED
  BY <1>5, <1>6, <1>7

\* The sweeper visits a row it has listed, and may delete it.
LEMMA VisitStep ==
    ASSUME RetentionInv, NEW i \in Mems, PurgeOne(i) \/ CapOne(i) \/ TombOne(i)
    PROVE  RetentionInv'
<1> USE DEF RetentionInv
<1>1. /\ i \in sweep.left /\ sweep' = [sweep EXCEPT !.left = @ \ {i}]
      /\ mem' = [mem EXCEPT ![i] = Blank] \/ mem' = mem
      /\ promise' = IF mem'[i] = Blank THEN [promise EXCEPT ![i] = NoPromise] ELSE promise
      /\ UNCHANGED <<clock, slides, drafts, requests, tick, used, late, outdated, raised, forgot>>
  BY DEF PurgeOne, CapOne, TombOne, Visit, requestVars
<1>2. Item(i) /\ clock \in Nat
      /\ sweep \in [at : Stages, now : Times, left : SUBSET Mems, more : BOOLEAN]
  BY TypeFacts DEF RetentionTypeOK
<1>3. /\ sweep' \in [at : Stages, now : Times, left : SUBSET Mems, more : BOOLEAN]
      /\ sweep'.at = sweep.at /\ sweep'.now = sweep.now /\ sweep'.left = sweep.left \ {i}
  BY <1>1, <1>2
<1>4. /\ mem' \in [Mems -> MemRow] /\ promise' \in [Mems -> Promise]
      /\ \/ mem'[i] = Blank /\ promise'[i].exp = Never
         \/ mem'[i] = mem[i] /\ mem'[i] # Blank /\ promise'[i] = promise[i]
      /\ \A j \in Mems : j # i => mem'[j] = mem[j] /\ promise'[j] = promise[j]
  BY <1>1, BlankFacts DEF RetentionTypeOK
<1>5. RetentionTypeOK' /\ NowSound'
  BY <1>1, <1>3, <1>4 DEF RetentionTypeOK, NowSound
<1>6. Item(i)'
  <2>1. RowSound(mem[i])' /\ RowSound(tick.list[i])' /\ DraftSound(i)'
    BY <1>1, <1>2, <1>4, BlankFacts DEF Item, RowSound, DraftSound
  <2>2. SlideSound(i)' /\ LeftSound(i)' /\ FreshSound(i)'
    BY <1>1, <1>2, <1>4 DEF Item, SlideSound, LeftSound, FreshSound
  <2>3. PromiseSound(i)'
    BY <1>1, <1>2, <1>4 DEF Item, PromiseSound, Here
  <2>4. GoneSound(i)' /\ TombSound(i)'
    BY <1>1, <1>2, <1>3, <1>4 DEF Item, GoneSound, TombSound
  <2> QED
    BY <2>1, <2>2, <2>3, <2>4 DEF Item
<1>7. ASSUME NEW j \in Mems, j # i PROVE Item(j)'
  <2>1. KeptAt(j)
    BY <1>1, <1>2, <1>3, <1>4, <1>7 DEF KeptAt
  <2> QED
    BY <2>1, KeptRows
<1> QED
  BY <1>5, <1>6, <1>7

-----------------------------------------------------------------------------
(***************************************************************************)
(* The promoter writes a listed row back, or the store refuses it.         *)
(***************************************************************************)
\* What the promoter writes is as sound as the copy it has, and gives no less
\* than the last recall it knew of.
LEMMA WrittenFacts ==
    ASSUME RetentionInv, NEW i \in Mems, RetierOne(i) \/ StampOne(i)
    PROVE  \E r \in MemRow, step \in {"retier", "stamp"} :
             /\ WriteListed(i, r, step)
             /\ r.tier # "none" /\ RowSound(r)
             /\ promise[i].exp # Never /\ i \notin late /\ promise[i].by <= EpisodicTTL
                  => r.exp = Never \/ promise[i].exp <= r.exp
<1> USE DEF RetentionInv
<1> DEFINE l == tick.list[i]
<1>1. /\ l \in MemRow /\ tick.now \in Nat /\ Item(i)
      /\ promise[i].exp \in Nat \cup {Never} /\ promise[i].by \in Nat
  BY TypeFacts
<1>2. i \in tick.left /\ tick.at # "idle"
  BY DEF RetierOne, StampOne, WriteListed
<1>3. l.tier # "none" /\ RowSound(l)
  BY <1>1, <1>2 DEF Item, LeftSound
<1>4. promise[i].exp # Never /\ i \notin late =>
        /\ promise[i].exp <= tick.now + promise[i].by
        /\ promise[i].by <= EpisodicTTL => l.exp = Never \/ promise[i].exp <= l.exp
  BY <1>1, <1>2, <1>3 DEF Item, PromiseSound
<1>5. CASE RetierOne(i)
  <2> DEFINE r == Retiered(l)
  <2>1. r \in MemRow /\ r.tier = "episodic" /\ r.exp = tick.now + EpisodicTTL
    BY <1>1, RetieredFacts
  <2>2. WriteListed(i, r, "retier")
    BY <1>5 DEF RetierOne
  <2> HIDE DEF r
  <2>3. r.exp # Never
    BY <1>1, <2>1, RetentionAssumption DEF Never
  <2>4. RowSound(r)
    BY <2>1, <2>3 DEF RowSound
  <2>5. promise[i].exp # Never /\ i \notin late /\ promise[i].by <= EpisodicTTL
          => promise[i].exp <= r.exp
    BY <1>1, <1>4, <2>1, RetentionAssumption
  <2> QED
    BY <2>1, <2>2, <2>4, <2>5
<1>6. CASE StampOne(i)
  <2> DEFINE r == [l EXCEPT !.promoted = TRUE]
  <2>1. r \in MemRow /\ r.tier = l.tier /\ r.asked = l.asked /\ r.exp = l.exp
    BY <1>1 DEF MemRow
  <2>2. WriteListed(i, r, "stamp")
    BY <1>6 DEF StampOne
  <2> HIDE DEF r
  <2>3. RowSound(r)
    BY <1>3, <2>1 DEF RowSound
  <2> QED
    BY <1>3, <1>4, <2>1, <2>2, <2>3
<1> QED
  BY <1>5, <1>6

LEMMA WriteStep ==
    ASSUME RetentionInv, NEW i \in Mems, RetierOne(i) \/ StampOne(i)
    PROVE  RetentionInv'
<1> USE DEF RetentionInv
<1>1. PICK r \in MemRow, step \in {"retier", "stamp"} :
        /\ WriteListed(i, r, step)
        /\ r.tier # "none" /\ RowSound(r)
        /\ promise[i].exp # Never /\ i \notin late /\ promise[i].by <= EpisodicTTL
             => r.exp = Never \/ promise[i].exp <= r.exp
  BY WrittenFacts
<1>2. /\ tick.at = step /\ i \in tick.left
      /\ tick' = [tick EXCEPT !.left = @ \ {i}, !.list[i] = r]
      /\ UNCHANGED <<clock, slides, drafts, requests, sweep, used, late, outdated>>
  BY <1>1 DEF WriteListed, requestVars
<1>3. \/ /\ mem' = [mem EXCEPT ![i] = r]
         /\ promise' = Voided(i, i \in late, EpisodicTTL) /\ raised' = Raising(i)
         /\ forgot' = [forgot EXCEPT ![i] = IF @ = "held" THEN "no" ELSE @]
      \/ UNCHANGED <<mem, promise, raised, forgot>>
  BY <1>1 DEF WriteListed
<1>4. /\ Item(i) /\ clock \in Nat /\ mem[i] \in MemRow
      /\ promise[i].exp \in Nat \cup {Never} /\ promise[i].by \in Nat
      /\ forgot[i] \in {"no", "yes", "held"}
      /\ tick \in [at : {"idle", "retier", "stamp"}, now : Times,
                   list : [Mems -> MemRow], left : SUBSET Mems]
  BY TypeFacts DEF RetentionTypeOK
<1>5. /\ tick' \in [at : {"idle", "retier", "stamp"}, now : Times,
                    list : [Mems -> MemRow], left : SUBSET Mems]
      /\ tick'.at = tick.at /\ tick'.now = tick.now /\ tick'.left = tick.left \ {i}
      /\ tick'.list[i] = r /\ \A j \in Mems : j # i => tick'.list[j] = tick.list[j]
      /\ tick.at # "idle"
  BY <1>2, <1>4
<1>6. forgot[i] # "yes" /\ i \in used
  BY <1>2, <1>4, BlankFacts DEF Item, GoneSound, FreshSound, LeftSound
<1>7. /\ mem' \in [Mems -> MemRow] /\ promise' \in [Mems -> Promise]
      /\ raised' \in SUBSET Mems /\ raised \subseteq raised'
      /\ forgot' \in [Mems -> {"no", "yes", "held"}] /\ forgot'[i] # "yes"
      /\ \A j \in Mems : j # i =>
           mem'[j] = mem[j] /\ promise'[j] = promise[j] /\ forgot'[j] = forgot[j]
      /\ \/ /\ mem'[i] = r
            /\ \/ promise'[i].exp = Never
               \/ promise'[i] = promise[i] /\ i \notin late /\ ~(promise[i].by > EpisodicTTL)
            /\ sweep.at = "tomb" /\ i \in sweep.left => i \in raised'
         \/ mem'[i] = mem[i] /\ promise'[i] = promise[i] /\ raised' = raised
  <2>1. CASE /\ mem' = [mem EXCEPT ![i] = r]
             /\ promise' = Voided(i, i \in late, EpisodicTTL) /\ raised' = Raising(i)
             /\ forgot' = [forgot EXCEPT ![i] = IF @ = "held" THEN "no" ELSE @]
    <3>1. /\ mem' \in [Mems -> MemRow] /\ mem'[i] = r
          /\ \A j \in Mems : j # i => mem'[j] = mem[j]
      BY <2>1 DEF RetentionTypeOK
    <3>2. /\ raised' \in SUBSET Mems /\ raised \subseteq raised'
          /\ sweep.at = "tomb" /\ i \in sweep.left => i \in raised'
      BY <2>1 DEF RetentionTypeOK, Raising
    <3>3. /\ forgot' \in [Mems -> {"no", "yes", "held"}] /\ forgot'[i] # "yes"
          /\ \A j \in Mems : j # i => forgot'[j] = forgot[j]
      BY <1>4, <1>6, <2>1 DEF RetentionTypeOK
    <3>4. promise' = IF i \in late \/ promise[i].by > EpisodicTTL
                       THEN [promise EXCEPT ![i] = NoPromise] ELSE promise
      BY <2>1 DEF Voided
    <3>5. /\ promise' \in [Mems -> Promise]
          /\ \A j \in Mems : j # i => promise'[j] = promise[j]
          /\ \/ promise'[i].exp = Never
             \/ promise'[i] = promise[i] /\ i \notin late /\ ~(promise[i].by > EpisodicTTL)
      BY <3>4, BlankFacts DEF RetentionTypeOK
    <3> QED
      BY <3>1, <3>2, <3>3, <3>5
  <2>2. CASE UNCHANGED <<mem, promise, raised, forgot>>
    BY <1>6, <2>2 DEF RetentionTypeOK
  <2> QED
    BY <1>3, <2>1, <2>2
<1>8. RetentionTypeOK' /\ NowSound'
  BY <1>2, <1>5, <1>7 DEF RetentionTypeOK, NowSound
<1>9. Item(i)'
  <2>1. RowSound(mem[i])' /\ DraftSound(i)'
    BY <1>1, <1>2, <1>4, <1>7 DEF Item, RowSound, DraftSound
  <2>2. RowSound(tick.list[i])'
    BY <1>1, <1>5 DEF RowSound
  <2>3. SlideSound(i)' /\ LeftSound(i)'
    BY <1>2, <1>4, <1>5 DEF Item, SlideSound, LeftSound
  <2>4. PromiseSound(i)'
    <3>1. SUFFICES ASSUME promise'[i].exp # Never PROVE PromiseSound(i)'
      BY DEF PromiseSound
    <3>2. promise'[i] = promise[i] /\ promise[i].exp # Never
      BY <1>7, <3>1
    <3>3. /\ promise[i].exp <= clock + promise[i].by
          /\ mem[i].exp = Never \/ promise[i].exp <= mem[i].exp
          /\ Here(i)
          /\ i \notin late => promise[i].exp <= tick.now + promise[i].by
          /\ drafts[i].kind = "merge" /\ i \notin outdated
               => drafts[i].row.exp = Never \/ promise[i].exp <= drafts[i].row.exp
      BY <1>4, <1>5, <3>2 DEF Item, PromiseSound
    <3>4. promise[i].by <= EpisodicTTL /\ i \notin late => r.exp = Never \/ promise[i].exp <= r.exp
      BY <1>1, <3>2
    <3>5. Here(i)' /\ (mem'[i].exp = Never \/ promise[i].exp <= mem'[i].exp)
      BY <1>1, <1>4, <1>7, <3>1, <3>3, <3>4, RetentionAssumption DEF Here
    <3> QED
      BY <1>2, <1>5, <3>2, <3>3, <3>4, <3>5 DEF PromiseSound
  <2>5. GoneSound(i)' /\ FreshSound(i)'
    BY <1>2, <1>6, <1>7 DEF GoneSound, FreshSound
  <2>6. TombSound(i)'
    BY <1>2, <1>4, <1>7 DEF Item, TombSound, Here
  <2> QED
    BY <2>1, <2>2, <2>3, <2>4, <2>5, <2>6 DEF Item
<1>10. ASSUME NEW j \in Mems, j # i PROVE Item(j)'
  <2>1. KeptAt(j)
    BY <1>2, <1>4, <1>5, <1>7, <1>10 DEF KeptAt
  <2> QED
    BY <2>1, KeptRows
<1> QED
  BY <1>8, <1>9, <1>10
-----------------------------------------------------------------------------
(***************************************************************************)
(* Theorems.                                                               *)
(***************************************************************************)
LEMMA RetentionInitInv == RetentionInit => RetentionInv
<1> SUFFICES ASSUME RetentionInit PROVE RetentionInv
  OBVIOUS
<1>1. 0 \in Times /\ NoSlide \in Int
  BY RetentionAssumption DEF Times, NoSlide
<1>2. /\ Asleep \in [at : Stages, now : Times, left : SUBSET Mems, more : BOOLEAN]
      /\ Resting \in [at : {"idle", "retier", "stamp"}, now : Times,
                      list : [Mems -> MemRow], left : SUBSET Mems]
  BY <1>1, BlankFacts DEF Asleep, Resting, Stages
<1>3. RetentionTypeOK /\ NowSound
  BY <1>1, <1>2, BlankFacts, RetentionAssumption
     DEF RetentionInit, RetentionTypeOK, NowSound, Asleep, Resting
<1>4. ASSUME NEW i \in Mems PROVE Item(i)
  BY BlankFacts DEF RetentionInit, Item, DraftSound, SlideSound, FreshSound, PromiseSound, LeftSound,
                    GoneSound, TombSound, Asleep, Resting
<1> QED
  BY <1>3, <1>4 DEF RetentionInv

LEMMA NextInv == RetentionInv /\ [RetentionNext]_retentionVars => RetentionInv'
<1> SUFFICES ASSUME RetentionInv, [RetentionNext]_retentionVars PROVE RetentionInv'
  OBVIOUS
<1>1. CASE ClockTick
  BY <1>1, ClockStep
<1>2. CASE Sweeping
  BY <1>2, SweeperStep, VisitStep DEF Sweeping
<1>3. CASE Promoting
  BY <1>3, PassStep, WriteStep DEF Promoting
<1>4. ASSUME NEW i \in Mems, Requests(i) PROVE RetentionInv'
  BY <1>4, RememberStep, ReadsStep, WriteDraftStep, DraftFailsStep, SlideStep, ReinforceStep,
     LinkStep, ForgetStep DEF Requests
<1>5. CASE UNCHANGED retentionVars
  BY <1>5 DEF retentionVars, RetentionInv, RetentionTypeOK, NowSound, Item, RowSound, DraftSound,
              SlideSound, FreshSound, PromiseSound, LeftSound, GoneSound, TombSound, Here
<1> QED
  BY <1>1, <1>2, <1>3, <1>4, <1>5 DEF RetentionNext

LEMMA InvAlways == RetentionSpec => []RetentionInv
  BY RetentionInitInv, NextInv, PTL DEF RetentionSpec

\* Every variable keeps its type, for any memories, lifetimes and bounds.
THEOREM RetentionAlwaysTyped == RetentionSpec => []RetentionTypeOK
  BY InvAlways, PTL DEF RetentionInv

\* A short-term row always has an expiry unless the request that wrote it declined
\* one, through every slide, retier, merge and write-back of a copy.
THEOREM ShortTermAlwaysExpires == RetentionSpec => []ShortTermExpires
<1>1. RetentionInv => ShortTermExpires
  BY DEF RetentionInv, Item, RowSound, ShortTermExpires, Here
<1> QED
  BY <1>1, InvAlways, PTL

\* What a recall gave stands until a write gives the row a shorter lifetime, or
\* puts back a copy read before the recall.
THEOREM RecallAlwaysExtends == RetentionSpec => []RecallExtends
<1>1. RetentionInv => RecallExtends
  BY DEF RetentionInv, Item, PromiseSound, RecallExtends
<1> QED
  BY <1>1, InvAlways, PTL

\* A memory forgotten while no promoter pass, edit or merge held a copy of it
\* never comes back, unless a request stores its id anew.
THEOREM ForgottenAlwaysGone == RetentionSpec => []ForgottenStaysGone
<1>1. RetentionInv => ForgottenStaysGone
  BY DEF RetentionInv, Item, GoneSound, ForgottenStaysGone
<1> QED
  BY <1>1, InvAlways, PTL

\* A live memory disappears only on request, over the cap, or as a tombstone
\* raised after the sweeper had listed it: in particular never by the purge.
THEOREM LiveNeverLost == RetentionSpec => LiveLost
<1> DEFINE Lawful == \A i \in Mems : Alive(mem[i], clock) /\ mem'[i] = Blank =>
                       \/ forgot'[i] # "no" \/ sweep.at = "cap" \/ i \in raised
<1>1. ASSUME RetentionInv, [RetentionNext]_retentionVars
      PROVE  [Lawful]_retentionVars
  <2>1. SUFFICES ASSUME NEW i \in Mems, Alive(mem[i], clock), mem'[i] = Blank,
                        retentionVars' # retentionVars
                 PROVE  \/ forgot'[i] # "no" \/ sweep.at = "cap" \/ i \in raised
    OBVIOUS
  <2>2. /\ Item(i) /\ mem[i] \in MemRow /\ mem[i].tier # "none" /\ mem[i] # Blank
        /\ ~mem[i].sup /\ ~Expired(mem[i], clock) /\ clock \in Nat /\ sweep.now \in Nat
        /\ sweep.now <= clock
    BY <1>1, <2>1, TypeFacts, BlankFacts DEF RetentionInv, NowSound, Alive
  <2>3. mem' # mem
    BY <2>1, <2>2
  <2>4. ASSUME NEW j \in Mems, PurgeOne(j) PROVE FALSE
    <3>1. j \in sweep.left /\ sweep.at = "purge"
          /\ mem' = IF StillExpired(j) THEN [mem EXCEPT ![j] = Blank] ELSE mem
      BY <2>4 DEF PurgeOne, Visit
    <3>2. j = i /\ StillExpired(j)
      BY <1>1, <2>1, <2>2, <3>1 DEF RetentionInv, RetentionTypeOK
    <3>3. mem[i].exp # Never /\ mem[i].exp <= sweep.now /\ mem[i].exp \in Nat
      BY <2>2, <3>2, MemRowFacts DEF StillExpired, Expired
    <3> QED
      BY <2>2, <3>3 DEF Expired
  <2>5. ASSUME NEW j \in Mems, TombOne(j) PROVE i \in raised
    <3>1. j \in sweep.left /\ sweep.at = "tomb"
          /\ mem' = IF Here(j) THEN [mem EXCEPT ![j] = Blank] ELSE mem
      BY <2>5 DEF TombOne, Visit
    <3>2. j = i
      BY <1>1, <2>1, <2>2, <3>1 DEF RetentionInv, RetentionTypeOK
    <3> QED
      BY <2>2, <3>1, <3>2 DEF Item, TombSound, Here
  <2>6. ASSUME NEW j \in Mems, CapOne(j) PROVE sweep.at = "cap"
    BY <2>6 DEF CapOne
  <2>7. CASE Sweeping
    BY <2>3, <2>4, <2>5, <2>6, <2>7
       DEF Sweeping, SweepBegin, PurgeMore, CapList, TombList, SweepFails, SweepEnd
  <2>8. CASE Promoting
    <3>1. ASSUME NEW j \in Mems, RetierOne(j) \/ StampOne(j) PROVE FALSE
      <4>1. PICK r \in MemRow, step \in {"retier", "stamp"} : WriteListed(j, r, step) /\ r.tier # "none"
        BY <1>1, <3>1, WrittenFacts
      <4>2. mem' = [mem EXCEPT ![j] = r] \/ mem' = mem
        BY <4>1 DEF WriteListed
      <4> QED
        BY <1>1, <2>1, <2>2, <4>1, <4>2, BlankFacts DEF RetentionInv, RetentionTypeOK
    <3> QED
      BY <2>3, <2>8, <3>1 DEF Promoting, PromoteBegin, StampBegin, PromoteEnd, RetierSkips
  <2>9. ASSUME NEW j \in Mems, Requests(j)
        PROVE  forgot'[i] # "no"
    <3>1. ASSUME NEW in \in Writes, Remember(j, in) PROVE forgot'[i] # "no"
      <4>1. j \notin used /\ mem' = [mem EXCEPT ![j] = AsGiven(in)]
        BY <3>1 DEF Remember
      <4>2. j # i
        BY <2>2, <4>1 DEF Item, FreshSound
      <4> QED
        BY <1>1, <2>1, <2>2, <4>1, <4>2 DEF RetentionInv, RetentionTypeOK
    <3>2. CASE \/ Recall(j) \/ ReinforceFails(j) \/ DraftFails(j) \/ ReadMerge(j)
               \/ \E tier \in Tiers : ReadUpdate(j, tier)
               \/ \E in \in Rewrites : ReadRemember(j, in)
      BY <2>3, <3>2 DEF Recall, ReinforceFails, DraftFails, ReadMerge, ReadUpdate, ReadRemember, Read
    <3>3. CASE Reinforce(j)
      <4>1. CASE UNCHANGED mem
        BY <2>3, <4>1
      <4>2. CASE ~ UNCHANGED mem
        <5>1. /\ slides[j] # NoSlide /\ mem[j] \in MemRow
              /\ mem' = [mem EXCEPT ![j] = Reinforced(mem[j], clock + slides[j])]
          BY <1>1, <3>3, <4>2, TypeFacts DEF Reinforce, RetentionInv
        <5>2. clock + slides[j] \in Nat
          BY <1>1, <2>2, <5>1 DEF RetentionInv, Item, SlideSound
        <5>3. Reinforced(mem[j], clock + slides[j]).tier = mem[j].tier
          BY <5>1, <5>2, ReinforcedFacts
        <5> QED
          BY <1>1, <2>1, <2>2, <5>1, <5>3, BlankFacts DEF RetentionInv, RetentionTypeOK
      <4> QED
        BY <4>1, <4>2
    <3>4. CASE SupersedeMem(j) \/ RestoreMem(j)
      <4>1. PICK b, v : mem' = [mem EXCEPT ![j].sup = b, ![j].vto = v]
        BY <3>4 DEF SupersedeMem, RestoreMem
      <4>2. mem'[i].tier = mem[i].tier
        BY <1>1, <4>1 DEF RetentionInv, RetentionTypeOK, MemRow
      <4> QED
        BY <2>1, <2>2, <4>2, BlankFacts
    <3>5. CASE ForgetMem(j)
      <4>1. mem' = [mem EXCEPT ![j] = Blank]
            /\ forgot' = [forgot EXCEPT ![j] = IF Holding(j) THEN "held" ELSE "yes"]
        BY <3>5 DEF ForgetMem
      <4>2. j = i
        BY <1>1, <2>1, <2>2, <4>1 DEF RetentionInv, RetentionTypeOK
      <4> QED
        BY <1>1, <4>1, <4>2 DEF RetentionInv, RetentionTypeOK
    <3>6. CASE WriteDraft(j)
      <4>1. drafts[j] # NoDraft /\ mem' = [mem EXCEPT ![j] = Resolved(drafts[j])]
        BY <3>6 DEF WriteDraft
      <4>2. Resolved(drafts[j]).tier # "none"
        BY <1>1, <4>1, ResolvedFacts DEF RetentionInv, Item
      <4> QED
        BY <1>1, <2>1, <2>2, <4>1, <4>2, BlankFacts DEF RetentionInv, RetentionTypeOK
    <3> QED
      BY <2>9, <3>1, <3>2, <3>3, <3>4, <3>5, <3>6 DEF Requests
  <2>10. CASE ClockTick
    BY <2>3, <2>10 DEF ClockTick
  <2> QED
    BY <1>1, <2>1, <2>7, <2>8, <2>9, <2>10 DEF RetentionNext
<1> QED
  BY <1>1, InvAlways, PTL DEF RetentionSpec, LiveLost

-----------------------------------------------------------------------------
(***************************************************************************)
(* Confidence, for any facts, jobs and runs of the demoter.  What a fact   *)
(* is worth is bounded by what its independent reports give, as the n-fold *)
(* growth of what callers gave it; the rest follows the job and the pass   *)
(* that hold a copy of the row while it changes under them.                *)
(***************************************************************************)

(***************************************************************************)
(* Division by the cooldown.                                               *)
(***************************************************************************)
LEMMA Quotient ==
    ASSUME NEW a \in Nat, NEW b \in Nat, NEW d \in Nat \ {0}
    PROVE  /\ a \div d \in Nat
           /\ a <= b => a \div d <= b \div d
           /\ a + d <= b => (a \div d) + 1 <= b \div d
<1>1. a \div d \in Nat /\ b \div d \in Nat /\ a % d \in 0 .. d - 1 /\ b % d \in 0 .. d - 1
  OBVIOUS
<1>2. a = d * (a \div d) + (a % d) /\ b = d * (b \div d) + (b % d)
  OBVIOUS
<1>3. ASSUME a <= b PROVE a \div d <= b \div d
  BY <1>1, <1>2, <1>3, SMTT(30)
<1>4. ASSUME a + d <= b PROVE (a \div d) + 1 <= b \div d
  BY <1>1, <1>2, <1>4, SMTT(30)
<1> QED BY <1>1, <1>3, <1>4

(***************************************************************************)
(* GrowN is the n-fold iterate of Grow, and grows with n and with c.       *)
(***************************************************************************)
Percent == 0 .. 100

LEMMA GrowBounds ==
    ASSUME NEW c \in Percent, NEW d \in Percent, c <= d
    PROVE  /\ Grow(c) \in Percent /\ c <= Grow(c)
           /\ Grow(c) <= Grow(d)
BY DEF Grow, Percent

GrowStep == [k \in Nat |-> [x \in Percent |-> Grow(x)]]

LEMMA GrowStepType == /\ GrowStep \in Steps(Percent)
                      /\ \A k \in Nat, x \in Percent : GrowStep[k][x] = Grow(x) /\ Grow(x) \in Percent
<1>1. \A x \in Percent : Grow(x) \in Percent
  BY DEF Percent, Grow
<1> QED BY <1>1 DEF GrowStep, Steps

LEMMA GrowNFunction ==
    ASSUME NEW c \in Percent, NEW n \in Nat
    PROVE  \E g \in [0 .. n -> Percent] : GrowN(c, n) = g[n] /\ Recurses(g, n, c, GrowStep)
<1> DEFINE Rec(g) == g = [k \in 0 .. n |-> IF k = 0 THEN c ELSE Grow(g[k - 1])]
           G == CHOOSE g : Rec(g)
<1>1. PICK h : h \in [0 .. n -> Percent] /\ Recurses(h, n, c, GrowStep)
  BY GrowStepType, RecursionExists
<1>2. ASSUME NEW k \in 0 .. n PROVE h[k] = IF k = 0 THEN c ELSE Grow(h[k - 1])
  <2>1. k # 0 => h[k - 1] \in Percent /\ k \in Nat
    BY <1>1
  <2> QED BY <1>1, <2>1, GrowStepType DEF Recurses
<1>3. Rec(h)
  BY <1>1, <1>2
<1>4. Rec(G)
  <2> HIDE DEF Rec
  <2> QED BY <1>3
<1>5. GrowN(c, n) = G[n]
  BY DEF GrowN
<1> HIDE DEF G
<1>6. \A k \in 0 .. n : G[k] = IF k = 0 THEN c ELSE Grow(G[k - 1])
  BY <1>4
<1> DEFINE T == {k \in Nat : k <= n => G[k] \in Percent}
<1>7. 0 \in T
  BY <1>6
<1>8. ASSUME NEW k \in T PROVE k + 1 \in T
  <2>1. k \in Nat /\ (k + 1 <= n => G[k] \in Percent /\ k + 1 \in 0 .. n /\ (k + 1) - 1 = k /\ k + 1 # 0)
    OBVIOUS
  <2>2. k + 1 <= n => G[k + 1] = Grow(G[k])
    BY <1>6, <2>1
  <2> QED BY <2>1, <2>2, GrowStepType
<1>9. T = Nat
  <2> HIDE DEF T
  <2>1. T \in SUBSET Nat
    BY DEF T
  <2> QED BY <1>7, <1>8, <2>1, InductiveSet
<1>10. G \in [0 .. n -> Percent]
  <2>1. \A k \in 0 .. n : G[k] \in Percent
    BY <1>9
  <2>2. G = [k \in 0 .. n |-> G[k]]
    BY <1>4
  <2> QED BY <2>1, <2>2
<1>11. Recurses(G, n, c, GrowStep)
  <2>1. \A k \in 0 .. n : k # 0 => k \in Nat /\ G[k - 1] \in Percent
    BY <1>10
  <2> QED BY <1>6, <2>1, GrowStepType DEF Recurses
<1> QED BY <1>5, <1>10, <1>11

LEMMA GrowNRecurses ==
    ASSUME NEW c \in Percent, NEW n \in Nat
    PROVE  /\ GrowN(c, n) \in Percent
           /\ GrowN(c, 0) = c
           /\ GrowN(c, n + 1) = Grow(GrowN(c, n))
<1>1. PICK g \in [0 .. n -> Percent] : GrowN(c, n) = g[n] /\ Recurses(g, n, c, GrowStep)
  BY GrowNFunction
<1>2. PICK h \in [0 .. n + 1 -> Percent] : GrowN(c, n + 1) = h[n + 1] /\ Recurses(h, n + 1, c, GrowStep)
  <2>1. n + 1 \in Nat
    OBVIOUS
  <2> QED BY <2>1, GrowNFunction
<1>3. PICK z \in [0 .. 0 -> Percent] : GrowN(c, 0) = z[0] /\ Recurses(z, 0, c, GrowStep)
  BY GrowNFunction
<1>4. GrowN(c, 0) = c
  BY <1>3 DEF Recurses
<1>5. g[n] = h[n]
  <2>1. \A k \in 0 .. n : g[k] = h[k]
    BY <1>1, <1>2, RecursionUnique
  <2> QED BY <2>1
<1>6. h[n + 1] = GrowStep[n + 1][h[n]]
  BY <1>2 DEF Recurses
<1>7. h[n] \in Percent
  OBVIOUS
<1> QED BY <1>1, <1>2, <1>4, <1>5, <1>6, <1>7, GrowStepType

LEMMA GrowNMonotone ==
    ASSUME NEW c \in Percent, NEW n \in Nat, NEW m \in Nat, n <= m
    PROVE  GrowN(c, n) <= GrowN(c, m)
<1> DEFINE T == {k \in Nat : GrowN(c, n) <= GrowN(c, n + k)}
<1>1. 0 \in T
  <2>1. n + 0 = n /\ GrowN(c, n) \in Percent
    BY GrowNRecurses
  <2> QED BY <2>1 DEF Percent
<1>2. ASSUME NEW k \in T PROVE k + 1 \in T
  <2>1. n + k \in Nat /\ k + 1 \in Nat /\ n + (k + 1) = (n + k) + 1
    OBVIOUS
  <2>2. GrowN(c, n + (k + 1)) = Grow(GrowN(c, n + k)) /\ GrowN(c, n + k) \in Percent /\ GrowN(c, n) \in Percent
    <3>1. GrowN(c, n) \in Percent
      BY ONLY GrowNRecurses, c \in Percent, n \in Nat
    <3>2. GrowN(c, n + k) \in Percent /\ GrowN(c, (n + k) + 1) = Grow(GrowN(c, n + k))
      BY ONLY <2>1, GrowNRecurses, c \in Percent
    <3> QED BY ONLY <2>1, <3>1, <3>2
  <2>3. GrowN(c, n + k) <= Grow(GrowN(c, n + k)) /\ Grow(GrowN(c, n + k)) \in Percent
    <3> DEFINE d == GrowN(c, n + k)
    <3>1. d \in Percent /\ d <= d
      BY <2>2 DEF Percent
    <3> HIDE DEF d
    <3>2. d <= Grow(d) /\ Grow(d) \in Percent
      BY ONLY <3>1, GrowBounds
    <3> QED BY ONLY <3>2 DEF d
  <2> QED BY <2>1, <2>2, <2>3 DEF Percent
<1>3. T = Nat
  <2> HIDE DEF T
  <2>1. T \in SUBSET Nat
    BY DEF T
  <2> QED BY <1>1, <1>2, <2>1, InductiveSet
<1>4. m - n \in Nat /\ n + (m - n) = m
  OBVIOUS
<1> QED BY <1>3, <1>4

LEMMA GrowNLarger ==
    ASSUME NEW c \in Percent, NEW d \in Percent, c <= d, NEW n \in Nat
    PROVE  GrowN(c, n) <= GrowN(d, n)
<1> DEFINE T == {k \in Nat : GrowN(c, k) <= GrowN(d, k)}
<1>1. 0 \in T
  BY GrowNRecurses
<1>2. ASSUME NEW k \in T PROVE k + 1 \in T
  <2>1. /\ GrowN(c, k) \in Percent /\ GrowN(d, k) \in Percent
        /\ GrowN(c, k + 1) = Grow(GrowN(c, k)) /\ GrowN(d, k + 1) = Grow(GrowN(d, k))
    BY GrowNRecurses
  <2>2. \A x, y \in Percent : x <= y => Grow(x) <= Grow(y)
    BY GrowBounds
  <2>3. Grow(GrowN(c, k)) <= Grow(GrowN(d, k))
    BY <2>1, <2>2
  <2> QED BY <2>1, <2>3
<1>3. T = Nat
  <2> HIDE DEF T
  <2>1. T \in SUBSET Nat
    BY DEF T
  <2> QED BY <1>1, <1>2, <2>1, InductiveSet
<1> QED BY <1>3

(***************************************************************************)
(* A confidence no more than n growths of v.                               *)
(***************************************************************************)
GrownTo(v, c, n) == c <= GrowN(v, n)

LEMMA EarnedMonotone ==
    ASSUME NEW v \in Percent, NEW w \in Percent, v <= w, NEW c \in Int, NEW d \in Int, d <= c,
           NEW n \in Nat, NEW m \in Nat, n <= m, GrownTo(v, c, n)
    PROVE  GrownTo(w, d, m)
<1>1. GrowN(v, n) \in Percent /\ GrowN(w, n) \in Percent /\ GrowN(w, m) \in Percent
  BY GrowNRecurses
<1>2. GrowN(v, n) <= GrowN(w, n)
  BY GrowNLarger
<1>3. GrowN(w, n) <= GrowN(w, m)
  BY GrowNMonotone
<1> QED BY <1>1, <1>2, <1>3 DEF GrownTo, Percent

LEMMA EarnedGiven ==
    ASSUME NEW v \in Percent, NEW c \in Int, c <= v, NEW n \in Nat
    PROVE  GrownTo(v, c, n)
<1>1. GrowN(v, 0) = v /\ v \in Int /\ 0 \in Nat /\ 0 <= n /\ v <= v
  BY GrowNRecurses DEF Percent
<1>2. GrownTo(v, v, 0)
  BY <1>1 DEF GrownTo
<1> QED BY <1>1, <1>2, EarnedMonotone

LEMMA EarnedGrow ==
    ASSUME NEW v \in Percent, NEW c \in Percent, NEW n \in Nat, GrownTo(v, c, n)
    PROVE  GrownTo(v, Grow(c), n + 1)
<1>1. GrowN(v, n) \in Percent /\ GrowN(v, n + 1) = Grow(GrowN(v, n))
  BY GrowNRecurses
<1>2. Grow(c) <= Grow(GrowN(v, n))
  BY <1>1, GrowBounds DEF GrownTo
<1> QED BY <1>1, <1>2 DEF GrownTo

(***************************************************************************)
(* Reading a tracked durable row never finds more than it stores.          *)
(***************************************************************************)
LEMMA EffectiveBounds ==
    ASSUME NEW r \in FactRow, NEW t \in Nat,
           r.tier = "durable", r.conf # Untracked, r.conf >= ConfFloor
    PROVE  Effective(r, t) \in ConfFloor .. 100 /\ Effective(r, t) <= r.conf
<1> DEFINE age == t - Larger(r.upd, r.last)
<1>1. r.conf \in ConfFloor .. 100 /\ age \in Int
  BY DEF FactRow, Untracked, Days, ConfFloor, Larger
<1>2. Effective(r, t) = Decay(r.conf, age)
  BY DEF Effective
<1>3. Grace \in Nat /\ DecayPerTick \in Nat
  BY ConfidenceAssumption
<1> HIDE DEF age
<1>4. CASE age <= Grace
  BY <1>1, <1>2, <1>3, <1>4 DEF Decay, ConfFloor
<1>5. CASE age > Grace
  <2> DEFINE lost == DecayPerTick * (age - Grace)
  <2>1. lost \in Nat
    BY <1>1, <1>3, <1>5
  <2>2. Effective(r, t) = Larger(ConfFloor, r.conf - lost)
    BY <1>1, <1>2, <1>3, <1>5 DEF Decay
  <2> HIDE DEF lost
  <2> QED BY <1>1, <2>1, <2>2 DEF Larger, ConfFloor
<1> QED BY <1>1, <1>3, <1>4, <1>5

(***************************************************************************)
(* The inductive invariant.  A row, stored or read by a job, is worth no   *)
(* more than its history has earned up to its last update, is never closed *)
(* in the future, and expires if its tier does.  A job's copy is such a    *)
(* row of the same fact, read under the conditions of its kind: this is    *)
(* what lets the job write an absolute value, or the whole row, later.  A  *)
(* copy read after an invalidation is as low as the invalidation left it.  *)
(***************************************************************************)
RowOK(r, v, g, t) ==
    /\ r \in FactRow /\ r.tier # "none" /\ (r.tier = "episodic" <=> r.exp # NoDate)
    /\ r.made <= r.upd /\ r.upd <= t
    /\ r.conf # Untracked => /\ r.conf >= ConfFloor
                             /\ GrownTo(v, r.conf, g + (r.upd - r.made) \div Cooldown)
    /\ r.vto # NoDate => r.vto <= t

LowOK(r, n) == r.bad /\ r.vto # NoDate /\ GrownTo(Ceiling(0), r.conf, n)

CopyOK(c, row, v, g, n, t) ==
    /\ c.step = "reinforced" => c.kind \in {"near", "exact"}
    /\ c.kind # "none" =>
        /\ RowOK(c.seen, v, g, t) /\ row.tier # "none" /\ row.made = c.seen.made
        /\ c.kind \in {"near", "exact", "contradict"} => c.seen.tier = "durable"
        /\ c.kind = "contradict" => c.seen.conf # Untracked
        /\ c.kind = "near" => c.seen.upd + Cooldown <= t
        /\ c.knew => LowOK(c.seen, n)

RowsOK == \A f \in Facts : fact[f] = Nothing \/ RowOK(fact[f], vouched[f], growths[f], day)
JobOK(c) == CopyOK(c, fact[c.of], vouched[c.of], growths[c.of], regrown[c.of], day)
JobsOK == \A j \in Jobs : JobOK(job[j])
MarksOK == \A f \in convicted : LowOK(fact[f], regrown[f])
UsesOK ==
    /\ \A f \in known : fact[f].acc > 0
    /\ \A f \in demoter.left : fact[f].tier # "none" /\ (f \in known => f \in excused)
    /\ ~demoter.on => demoter.left = {}

ConfidenceInv ==
    ConfidenceTypeOK /\ RowsOK /\ JobsOK /\ MarksOK /\ UsesOK

LEMMA RowOKMonotone ==
    ASSUME NEW r, NEW v \in Percent, NEW g \in Nat, NEW t \in Nat, RowOK(r, v, g, t),
           NEW w \in Percent, NEW h \in Nat, NEW u \in Nat, v <= w, g <= h, t <= u
    PROVE  RowOK(r, w, h, u)
<1> DEFINE q == (r.upd - r.made) \div Cooldown
<1>1. r.conf \in Int /\ r.upd \in Nat /\ r.made \in Nat /\ r.vto \in Int /\ r.made <= r.upd
  BY DEF RowOK, FactRow, Untracked, Days, NoDate
<1>2. q \in Nat
  BY <1>1, Quotient, ConfidenceAssumption
<1>3. r.conf # Untracked => GrownTo(w, r.conf, h + q)
  <2> SUFFICES ASSUME r.conf # Untracked PROVE GrownTo(w, r.conf, h + q)
    OBVIOUS
  <2>1. GrownTo(v, r.conf, g + q)
    BY DEF RowOK
  <2> HIDE DEF q
  <2>2. g + q \in Nat /\ h + q \in Nat /\ g + q <= h + q /\ r.conf <= r.conf
    BY <1>1, <1>2
  <2> QED BY <1>1, <2>1, <2>2, EarnedMonotone
<1> QED BY <1>1, <1>3 DEF RowOK

LEMMA LowOKMonotone ==
    ASSUME NEW r, r.conf \in Int, NEW n \in Nat, LowOK(r, n), NEW m \in Nat, n <= m
    PROVE  LowOK(r, m)
<1>1. Ceiling(0) \in Percent /\ Ceiling(0) <= Ceiling(0) /\ r.conf <= r.conf
  BY DEF Ceiling, Percent
<1> QED BY <1>1, EarnedMonotone DEF LowOK

\* What earlier history allowed, later history does.
Later ==
    /\ day' = day
    /\ vouched' \in [Facts -> Percent] /\ growths' \in [Facts -> Nat] /\ regrown' \in [Facts -> Nat]
    /\ \A e \in Facts : vouched[e] <= vouched'[e] /\ growths[e] <= growths'[e]
                        /\ regrown[e] <= regrown'[e]

LEMMA CopyKept ==
    ASSUME NEW c \in JobRow, NEW row, NEW new, row.tier # "none" => new.tier # "none" /\ new.made = row.made,
           NEW v \in Percent, NEW g \in Nat, NEW n \in Nat, NEW t \in Nat, CopyOK(c, row, v, g, n, t),
           NEW w \in Percent, NEW h \in Nat, NEW m \in Nat, NEW u \in Nat,
           v <= w, g <= h, n <= m, t <= u
    PROVE  CopyOK(c, new, w, h, m, u)
<1> SUFFICES ASSUME c.kind # "none" PROVE CopyOK(c, new, w, h, m, u)
  BY DEF CopyOK
<1>1. RowOK(c.seen, v, g, t) /\ c.seen \in FactRow /\ c.seen.conf \in Int /\ c.seen.upd \in Nat
  BY DEF CopyOK, JobRow, FactRow, Untracked, Days
<1>2. RowOK(c.seen, w, h, u)
  BY <1>1, RowOKMonotone
<1>3. c.knew => LowOK(c.seen, m)
  BY <1>1, LowOKMonotone DEF CopyOK
<1>4. c.kind = "near" => c.seen.upd + Cooldown <= u
  BY <1>1, ConfidenceAssumption DEF CopyOK
<1> QED BY <1>2, <1>3, <1>4 DEF CopyOK

(***************************************************************************)
(* A step that writes one row, and may raise its histories, keeps the rows *)
(* and every job's copy sound if the row written is.                       *)
(***************************************************************************)
LEMMA RowWritten ==
    ASSUME ConfidenceInv, NEW f \in Facts, NEW r, Later,
           RowOK(r, vouched'[f], growths'[f], day), r.made = fact[f].made, fact[f].tier # "none",
           fact' = [fact EXCEPT ![f] = r]
    PROVE  /\ fact' \in [Facts -> FactRow] /\ RowsOK'
           /\ \A c \in JobRow : JobOK(c) => JobOK(c)'
<1>1. /\ fact \in [Facts -> FactRow] /\ growths \in [Facts -> Nat] /\ regrown \in [Facts -> Nat]
      /\ vouched \in [Facts -> Percent] /\ day \in Nat
      /\ r \in FactRow /\ r.tier # "none"
  BY DEF ConfidenceInv, ConfidenceTypeOK, Days, RowOK, Percent
<1>2. fact' \in [Facts -> FactRow]
  BY <1>1
<1>3. ASSUME NEW e \in Facts, NEW s, RowOK(s, vouched[e], growths[e], day)
      PROVE  RowOK(s, vouched'[e], growths'[e], day')
  <2>1. /\ vouched[e] \in Percent /\ vouched'[e] \in Percent /\ growths[e] \in Nat /\ growths'[e] \in Nat
        /\ vouched[e] <= vouched'[e] /\ growths[e] <= growths'[e] /\ day <= day' /\ day' \in Nat
    BY <1>1 DEF Later
  <2> QED BY <1>1, <1>3, <2>1, RowOKMonotone
<1>4. RowsOK'
  <2> SUFFICES ASSUME NEW e \in Facts
               PROVE  fact'[e] = Nothing \/ RowOK(fact'[e], vouched'[e], growths'[e], day')
    BY DEF RowsOK
  <2>1. CASE e = f
    BY <1>1, <2>1 DEF Later
  <2>2. CASE e # f
    <3>1. fact'[e] = fact[e] /\ (fact[e] = Nothing \/ RowOK(fact[e], vouched[e], growths[e], day))
      BY <1>1, <2>2 DEF ConfidenceInv, RowsOK
    <3> QED BY <1>3, <3>1
  <2> QED BY <2>1, <2>2
<1>5. ASSUME NEW c \in JobRow, JobOK(c) PROVE JobOK(c)'
  <2> DEFINE e == c.of
  <2>1. e \in Facts
    BY DEF JobRow
  <2> HIDE DEF e
  <2>2. /\ vouched[e] \in Percent /\ vouched'[e] \in Percent /\ growths[e] \in Nat /\ growths'[e] \in Nat
        /\ regrown[e] \in Nat /\ regrown'[e] \in Nat /\ day \in Nat /\ day' \in Nat
        /\ vouched[e] <= vouched'[e] /\ growths[e] <= growths'[e] /\ regrown[e] <= regrown'[e] /\ day <= day'
    BY <1>1, <2>1 DEF Later
  <2>3. fact[e].tier # "none" => fact'[e].tier # "none" /\ fact'[e].made = fact[e].made
    BY <1>1, <2>1
  <2>4. CopyOK(c, fact[e], vouched[e], growths[e], regrown[e], day)
    BY <1>5 DEF JobOK, e
  <2>5. CopyOK(c, fact'[e], vouched'[e], growths'[e], regrown'[e], day')
    BY <2>2, <2>3, <2>4, CopyKept
  <2> QED BY <2>5 DEF JobOK, e
<1> QED BY <1>2, <1>4, <1>5

LEMMA NothingTypes ==
    /\ Nothing \in FactRow /\ NoJob \in JobRow /\ NoJob.kind = "none" /\ Nothing.tier = "none"
    /\ \A row, v, g, n, t : CopyOK(NoJob, row, v, g, n, t)
<1>1. (CHOOSE f \in Facts : TRUE) \in Facts
  BY ConfidenceAssumption
<1>2. Nothing \in FactRow
  BY ConfidenceAssumption DEF Nothing, FactRow, Untracked, Days, NoDate
<1> QED BY <1>1, <1>2 DEF NoJob, JobRow, Nothing, CopyOK

LEMMA StoredRow ==
    ASSUME ConfidenceInv, NEW f \in Facts, fact[f].tier # "none"
    PROVE  RowOK(fact[f], vouched[f], growths[f], day) /\ fact[f] \in FactRow
BY NothingTypes DEF ConfidenceInv, RowsOK, RowOK

\* The counters a job or a write may raise stay in their ranges.
LEMMA UsedRow ==
    ASSUME NEW r \in FactRow, NEW t \in Days
    PROVE  /\ Used(r, t) \in FactRow /\ Used(r, t).acc > 0
           /\ Used(r, t).exp = NoDate <=> r.exp = NoDate
           /\ \A e \in {"tier", "conf", "made", "upd", "vto", "bad"} : Used(r, t)[e] = r[e]
<1>1. r.acc \in Nat /\ r.acc <= MaxUses /\ MaxUses \in Nat \ {0}
  BY ConfidenceAssumption DEF FactRow
<1>2. Smaller(r.acc + 1, MaxUses) \in 0 .. MaxUses /\ Smaller(r.acc + 1, MaxUses) > 0
  BY <1>1 DEF Smaller
<1>3. t + DemotedTTL \in Nat /\ t + DemotedTTL # NoDate
  BY ConfidenceAssumption DEF Days, NoDate
<1> QED BY <1>2, <1>3 DEF Used, FactRow

LEMMA ConfidenceInitInv == ConfidenceInit => ConfidenceInv
<1> SUFFICES ASSUME ConfidenceInit PROVE ConfidenceInv
  OBVIOUS
<1> USE DEF ConfidenceInit
<1>1. ConfidenceTypeOK
  <2>1. 0 \in Days /\ 0 \in 0 .. MaxJobs
    BY ConfidenceAssumption DEF Days
  <2> QED BY <2>1, NothingTypes DEF ConfidenceTypeOK, NoPass
<1>2. RowsOK /\ MarksOK /\ UsesOK
  BY DEF RowsOK, MarksOK, UsesOK, NoPass
<1>3. JobsOK
  BY NothingTypes DEF JobsOK, JobOK
<1> QED BY <1>1, <1>2, <1>3 DEF ConfidenceInv

LEMMA Types ==
    ASSUME ConfidenceInv
    PROVE  /\ fact \in [Facts -> FactRow] /\ day \in Days /\ day \in Nat /\ job \in [Jobs -> JobRow]
           /\ growths \in [Facts -> Nat] /\ regrown \in [Facts -> Nat] /\ vouched \in [Facts -> Percent]
           /\ \A n \in Int : n <= n
           /\ demoter \in [on : BOOLEAN, now : Days, left : SUBSET Facts]
BY DEF ConfidenceInv, ConfidenceTypeOK, Days, Percent

\* A step that leaves the clock and the histories alone.
LEMMA SameHistory ==
    ASSUME ConfidenceInv, UNCHANGED <<day, vouched, growths, regrown>>
    PROVE  Later
BY Types DEF Later, Percent

LEMMA NextDayKeeps ==
    ASSUME ConfidenceInv, NextDay
    PROVE  ConfidenceInv'
<1>1. /\ day \in Nat /\ day' \in Nat /\ day <= day' /\ growths \in [Facts -> Nat]
      /\ regrown \in [Facts -> Nat] /\ vouched \in [Facts -> Percent]
      /\ job \in [Jobs -> JobRow] /\ \A n \in Int : n <= n
      /\ UNCHANGED <<fact, job, demoter, started, growths, vouched, convicted, regrown, known, excused>>
  BY Types DEF NextDay, confHistories
<1>2. ASSUME NEW f \in Facts, NEW r, RowOK(r, vouched[f], growths[f], day)
      PROVE  RowOK(r, vouched[f], growths[f], day')
  <2>1. vouched[f] \in Percent /\ growths[f] \in Nat /\ vouched[f] <= vouched[f] /\ growths[f] <= growths[f]
    BY <1>1 DEF Percent
  <2> QED BY <1>1, <1>2, <2>1, RowOKMonotone
<1>3. ConfidenceTypeOK'
  BY ConfidenceAssumption DEF ConfidenceInv, ConfidenceTypeOK, Days, NextDay, confHistories
<1>4. RowsOK'
  BY <1>1, <1>2 DEF ConfidenceInv, RowsOK
<1>5. JobsOK'
  <2> SUFFICES ASSUME NEW j \in Jobs PROVE JobOK(job[j])'
    BY DEF JobsOK
  <2> DEFINE c == job[j]  e == c.of
  <2>1. c \in JobRow /\ e \in Facts
    BY <1>1 DEF JobRow
  <2>2. CopyOK(c, fact[e], vouched[e], growths[e], regrown[e], day)
    BY DEF ConfidenceInv, JobsOK, JobOK
  <2>3. /\ vouched[e] \in Percent /\ growths[e] \in Nat /\ regrown[e] \in Nat
        /\ vouched[e] <= vouched[e] /\ growths[e] <= growths[e] /\ regrown[e] <= regrown[e]
    BY <1>1, <2>1 DEF Percent
  <2>4. CopyOK(c, fact[e], vouched[e], growths[e], regrown[e], day')
    <3> HIDE DEF c, e
    <3> QED BY <1>1, <2>1, <2>2, <2>3, CopyKept
  <2> QED BY <1>1, <2>4 DEF JobOK
<1>6. MarksOK' /\ UsesOK'
  BY <1>1 DEF ConfidenceInv, MarksOK, UsesOK
<1> QED BY <1>3, <1>4, <1>5, <1>6 DEF ConfidenceInv

LEMMA NewFactKeeps ==
    ASSUME ConfidenceInv, NEW f \in Facts, NEW seed \in Seeds \cup {Untracked}, NewFact(f, seed)
    PROVE  ConfidenceInv'
<1> DEFINE r == [Nothing EXCEPT !.tier = "durable", !.conf = seed,
                                !.made = day, !.upd = day, !.last = day]
<1>1. /\ fact[f] = Nothing /\ fact' = [fact EXCEPT ![f] = r]
      /\ vouched' = [vouched EXCEPT ![f] = Larger(@, seed)]
      /\ UNCHANGED <<day, job, demoter, started, growths, convicted, regrown, known, excused>>
  BY DEF NewFact
<1>2. /\ fact \in [Facts -> FactRow] /\ day \in Days /\ day \in Nat /\ growths \in [Facts -> Nat]
      /\ vouched \in [Facts -> Percent] /\ job \in [Jobs -> JobRow]
      /\ regrown \in [Facts -> Nat] /\ \A n \in Int : n <= n
  BY Types
<1>3. /\ seed \in Int /\ seed \in 0 .. 100 \cup {Untracked} /\ (seed # Untracked => seed >= ConfFloor)
      /\ vouched'[f] \in Percent /\ vouched[f] <= vouched'[f] /\ seed <= vouched'[f]
  <2>1. seed \in ConfFloor .. 100 \/ seed = Untracked
    BY ConfidenceAssumption
  <2>2. vouched[f] \in Percent /\ vouched'[f] = Larger(vouched[f], seed)
    BY <1>1, <1>2
  <2> QED BY <2>1, <2>2 DEF ConfFloor, Untracked, Percent, Larger
<1>4. vouched' \in [Facts -> Percent] /\ \A e \in Facts : vouched[e] <= vouched'[e]
  <2>1. \A e \in Facts : e # f => vouched'[e] = vouched[e] /\ vouched[e] \in Int
    BY <1>1, <1>2 DEF Percent
  <2>2. vouched' = [vouched EXCEPT ![f] = vouched'[f]]
    BY <1>1, <1>2
  <2> QED BY <1>2, <1>3, <2>1, <2>2
<1>5. /\ r \in FactRow /\ r.tier = "durable" /\ r.conf = seed /\ r.made = day /\ r.upd = day
      /\ r.vto = NoDate /\ r.exp = NoDate
  <2>1. r \in FactRow
    BY <1>2, <1>3, NothingTypes DEF FactRow
  <2> QED BY <2>1 DEF Nothing
<1> HIDE DEF r
<1>6. RowOK(r, vouched'[f], growths'[f], day')
  <2>1. (day - day) \div Cooldown \in Nat
    <3>1. day - day = 0
      BY <1>2
    <3> QED BY <3>1, Quotient, ConfidenceAssumption
  <2>2. growths[f] + (day - day) \div Cooldown \in Nat
    BY <1>2, <2>1
  <2>3. GrownTo(vouched'[f], seed, growths[f] + (day - day) \div Cooldown)
    BY <1>3, <2>2, EarnedGiven
  <2> QED BY <1>1, <1>2, <1>3, <1>5, <2>3 DEF RowOK
<1>7. ConfidenceTypeOK'
  BY <1>1, <1>2, <1>4, <1>5 DEF ConfidenceInv, ConfidenceTypeOK, Percent
<1>8. RowsOK'
  <2> SUFFICES ASSUME NEW e \in Facts
               PROVE  fact'[e] = Nothing \/ RowOK(fact'[e], vouched'[e], growths'[e], day')
    BY DEF RowsOK
  <2>1. CASE e = f
    BY <1>1, <1>2, <1>6, <2>1
  <2>2. CASE e # f
    BY <1>1, <1>2, <2>2 DEF ConfidenceInv, RowsOK
  <2> QED BY <2>1, <2>2
<1>9. JobsOK'
  <2> SUFFICES ASSUME NEW j \in Jobs PROVE JobOK(job[j])'
    BY DEF JobsOK
  <2> DEFINE c == job[j]  e == c.of
  <2>1. c \in JobRow /\ e \in Facts /\ CopyOK(c, fact[e], vouched[e], growths[e], regrown[e], day)
    BY <1>2 DEF JobRow, ConfidenceInv, JobsOK, JobOK
  <2> HIDE DEF c
  <2>2. CASE c.kind = "none"
    BY <1>1, <2>1, <2>2 DEF JobOK, CopyOK, c
  <2>3. CASE c.kind # "none"
    <3>1. e # f /\ fact'[e] = fact[e] /\ vouched'[e] = vouched[e]
      BY <1>1, <1>2, <2>1, <2>3, NothingTypes DEF CopyOK
    <3> QED BY <1>1, <2>1, <3>1 DEF JobOK, c
  <2> QED BY <2>2, <2>3
<1>10. MarksOK' /\ UsesOK'
  <2>1. ~fact[f].bad /\ ~(fact[f].acc > 0)
    BY <1>1 DEF Nothing
  <2>2. f \notin convicted /\ f \notin known /\ f \notin demoter.left
    BY <1>1, <2>1, NothingTypes DEF ConfidenceInv, MarksOK, UsesOK, LowOK
  <2> QED BY <1>1, <1>2, <2>2 DEF ConfidenceInv, ConfidenceTypeOK, MarksOK, UsesOK
<1> QED BY <1>7, <1>8, <1>9, <1>10 DEF ConfidenceInv

LEMMA RecallFactKeeps ==
    ASSUME ConfidenceInv, NEW f \in Facts, RecallFact(f)
    PROVE  ConfidenceInv'
<1> DEFINE r == Used(fact[f], day)
<1>1. /\ Current(fact[f], day) /\ fact' = [fact EXCEPT ![f] = r]
      /\ known' = known \cup {f} /\ excused' = excused \cup ({f} \cap demoter.left)
      /\ UNCHANGED <<day, job, demoter, started, growths, vouched, convicted, regrown>>
  BY DEF RecallFact
<1>2. /\ fact \in [Facts -> FactRow] /\ day \in Days /\ job \in [Jobs -> JobRow]
  BY Types
<1>3. RowOK(fact[f], vouched[f], growths[f], day) /\ fact[f].tier # "none"
  BY <1>1, StoredRow DEF Current
<1>4. /\ r \in FactRow /\ r.acc > 0 /\ (r.exp = NoDate <=> fact[f].exp = NoDate)
      /\ r.tier = fact[f].tier /\ r.conf = fact[f].conf /\ r.made = fact[f].made
      /\ r.upd = fact[f].upd /\ r.vto = fact[f].vto /\ r.bad = fact[f].bad
  <2>1. fact[f] \in FactRow
    BY <1>2
  <2> QED BY <1>2, <2>1, UsedRow
<1> HIDE DEF r
<1>5. RowOK(r, vouched'[f], growths'[f], day)
  BY <1>1, <1>3, <1>4 DEF RowOK
<1>6. Later
  BY <1>1, SameHistory
<1>7. fact' \in [Facts -> FactRow] /\ RowsOK' /\ \A c \in JobRow : JobOK(c) => JobOK(c)'
  BY <1>1, <1>3, <1>4, <1>5, <1>6, RowWritten
<1>8. JobsOK'
  <2>1. \A j \in Jobs : job[j] \in JobRow /\ JobOK(job[j]) /\ job'[j] = job[j]
    BY <1>1, <1>2 DEF ConfidenceInv, JobsOK
  <2> QED BY <1>7, <2>1 DEF JobsOK, JobOK
<1>9. ConfidenceTypeOK'
  BY <1>1, <1>7 DEF ConfidenceInv, ConfidenceTypeOK
<1>10. MarksOK' /\ UsesOK'
  BY <1>1, <1>2, <1>4 DEF ConfidenceInv, ConfidenceTypeOK, MarksOK, UsesOK, LowOK
<1> QED BY <1>7, <1>8, <1>9, <1>10 DEF ConfidenceInv

LEMMA StartKeeps ==
    ASSUME ConfidenceInv, NEW j \in Jobs, NEW f \in Facts, NEW row,
           NEW kind \in {"near", "exact", "contradict", "edit", "merge", "rewrite"},
           Start(j, f, kind, row), fact[f].tier # "none",
           row = fact[f] \/ row = [fact[f] EXCEPT !.upd = day],
           kind \in {"near", "exact", "contradict"} => fact[f].tier = "durable",
           kind = "contradict" => fact[f].conf # Untracked,
           kind = "near" => row.upd + Cooldown <= day
    PROVE  ConfidenceInv'
<1> DEFINE c == [kind |-> kind, step |-> "read", of |-> f, seen |-> row, knew |-> f \in convicted]
<1>1. /\ started < MaxJobs /\ started' = started + 1 /\ job' = [job EXCEPT ![j] = c]
      /\ UNCHANGED <<fact, day, demoter, growths, vouched, convicted, regrown, known, excused>>
  BY DEF Start, confHistories
<1>2. /\ fact \in [Facts -> FactRow] /\ job \in [Jobs -> JobRow] /\ started \in 0 .. MaxJobs
      /\ day \in Days /\ day \in Nat /\ growths \in [Facts -> Nat] /\ vouched \in [Facts -> Percent]
  BY Types DEF ConfidenceInv, ConfidenceTypeOK
<1>3. RowOK(fact[f], vouched[f], growths[f], day) /\ fact[f] \in FactRow
  BY StoredRow
<1>4. /\ row \in FactRow /\ row.tier = fact[f].tier /\ row.conf = fact[f].conf /\ row.made = fact[f].made
      /\ row.vto = fact[f].vto /\ row.exp = fact[f].exp /\ row.bad = fact[f].bad
      /\ row.upd = fact[f].upd \/ row.upd = day
  BY <1>2, <1>3 DEF FactRow
<1>5. RowOK(row, vouched[f], growths[f], day)
  <2> DEFINE q == (fact[f].upd - fact[f].made) \div Cooldown
             p == (row.upd - fact[f].made) \div Cooldown
  <2>1. /\ fact[f].upd \in Nat /\ fact[f].made \in Nat /\ row.upd \in Nat /\ fact[f].conf \in Int
        /\ fact[f].made <= fact[f].upd /\ fact[f].upd <= row.upd /\ row.upd <= day
    BY <1>2, <1>3, <1>4 DEF RowOK, FactRow, Days, Untracked
  <2>2. q \in Nat /\ p \in Nat /\ q <= p
    <3>1. /\ fact[f].upd - fact[f].made \in Nat /\ row.upd - fact[f].made \in Nat
          /\ fact[f].upd - fact[f].made <= row.upd - fact[f].made
      BY <2>1
    <3> QED BY <3>1, Quotient, ConfidenceAssumption
  <2>3. fact[f].conf # Untracked => GrownTo(vouched[f], fact[f].conf, growths[f] + q)
    BY <1>3 DEF RowOK
  <2> HIDE DEF q, p
  <2>4. /\ growths[f] + q \in Nat /\ growths[f] + p \in Nat /\ growths[f] + q <= growths[f] + p
        /\ vouched[f] \in Percent /\ vouched[f] <= vouched[f] /\ fact[f].conf <= fact[f].conf
    BY <1>2, <2>1, <2>2 DEF Percent
  <2>5. fact[f].conf # Untracked => GrownTo(vouched[f], fact[f].conf, growths[f] + p)
    BY <2>1, <2>3, <2>4, EarnedMonotone
  <2>6. fact[f].conf # Untracked => GrownTo(vouched[f], row.conf, growths[f] + (row.upd - row.made) \div Cooldown)
    BY <1>4, <2>5 DEF p
  <2> QED BY <1>3, <1>4, <2>1, <2>6 DEF RowOK
<1>6. c \in JobRow
  BY <1>4 DEF JobRow
<1>7. CopyOK(c, fact[f], vouched[f], growths[f], regrown[f], day)
  <2>1. f \in convicted => LowOK(row, regrown[f])
    BY <1>4 DEF ConfidenceInv, MarksOK, LowOK
  <2> QED BY <1>4, <1>5, <2>1 DEF CopyOK
<1>8. JobOK(c) /\ c.of = f
  BY <1>7 DEF JobOK
<1> HIDE DEF c
<1>9. ConfidenceTypeOK'
  BY <1>1, <1>2, <1>6, ConfidenceAssumption DEF ConfidenceInv, ConfidenceTypeOK
<1>10. JobsOK'
  <2> SUFFICES ASSUME NEW i \in Jobs PROVE JobOK(job'[i])
    BY <1>1 DEF JobsOK, JobOK
  <2> QED BY <1>1, <1>2, <1>8 DEF ConfidenceInv, JobsOK
<1>11. RowsOK' /\ MarksOK' /\ UsesOK'
  BY <1>1 DEF ConfidenceInv, RowsOK, MarksOK, UsesOK
<1> QED BY <1>9, <1>10, <1>11 DEF ConfidenceInv

LEMMA StartsKeep ==
    ASSUME ConfidenceInv, NEW j \in Jobs, NEW f \in Facts,
           \/ Restate(j, f) \/ Repeat(j, f) \/ Contradict(j, f)
           \/ BeginEdit(j, f) \/ BeginMerge(j, f) \/ BeginRewrite(j, f)
    PROVE  ConfidenceInv'
<1>1. fact[f] \in FactRow /\ day \in Nat /\ (fact[f] # Nothing => fact[f].tier # "none")
  BY DEF ConfidenceInv, ConfidenceTypeOK, Days, RowsOK, RowOK
<1>2. CASE Restate(j, f)
  <2>1. fact[f].upd + Cooldown <= day
    BY <1>1, <1>2, ConfidenceAssumption DEF Restate, Cooled, FactRow, Days
  <2> QED BY <1>2, <2>1, StartKeeps DEF Restate, Candidate
<1>3. CASE Repeat(j, f)
  BY <1>3, StartKeeps DEF Repeat, Candidate
<1>4. CASE Contradict(j, f)
  BY <1>4, StartKeeps DEF Contradict, Candidate
<1>5. CASE BeginEdit(j, f)
  BY <1>1, <1>5, StartKeeps DEF BeginEdit
<1>6. CASE BeginMerge(j, f)
  BY <1>1, <1>6, StartKeeps DEF BeginMerge
<1>7. CASE BeginRewrite(j, f)
  <2>1. PICK t \in {fact[f].upd, day} : Start(j, f, "rewrite", [fact[f] EXCEPT !.upd = t])
    BY <1>7 DEF BeginRewrite
  <2>2. [fact[f] EXCEPT !.upd = t] = fact[f] \/ [fact[f] EXCEPT !.upd = t] = [fact[f] EXCEPT !.upd = day]
    BY <1>1, <2>1 DEF FactRow
  <2> QED BY <1>1, <1>7, <2>1, <2>2, StartKeeps DEF BeginRewrite
<1> QED BY <1>2, <1>3, <1>4, <1>5, <1>6, <1>7

(***************************************************************************)
(* A job that ends, or moves to its next step, is sound or gone.           *)
(***************************************************************************)
LEMMA JobsAfter ==
    ASSUME ConfidenceInv, NEW j \in Jobs, NEW c \in JobRow,
           CopyOK(c, fact'[c.of], vouched'[c.of], growths'[c.of], regrown'[c.of], day'),
           job' = [job EXCEPT ![j] = c],
           \A d \in JobRow : JobOK(d) => JobOK(d)'
    PROVE  job' \in [Jobs -> JobRow] /\ JobsOK'
<1>1. job \in [Jobs -> JobRow] /\ \A i \in Jobs : job[i] \in JobRow /\ JobOK(job[i])
  BY Types DEF ConfidenceInv, JobsOK
<1>2. ASSUME NEW i \in Jobs PROVE JobOK(job[i])'
  <2>1. CASE i = j
    BY <1>1, <2>1 DEF JobOK
  <2>2. CASE i # j
    <3>1. job'[i] = job[i]
      BY <1>1, <2>2
    <3> DEFINE d == job[i]
    <3>2. /\ d \in JobRow
          /\ CopyOK(d, fact'[d.of], vouched'[d.of], growths'[d.of], regrown'[d.of], day')
      BY <1>1 DEF JobOK
    <3> QED BY <3>1, <3>2 DEF JobOK
  <2> QED BY <2>1, <2>2
<1> QED BY <1>1, <1>2 DEF JobsOK

LEMMA JobEnds ==
    ASSUME ConfidenceInv, NEW j \in Jobs, job' = [job EXCEPT ![j] = NoJob],
           \A d \in JobRow : JobOK(d) => JobOK(d)'
    PROVE  job' \in [Jobs -> JobRow] /\ JobsOK'
BY NothingTypes, JobsAfter

LEMMA JobReinforcesKeeps ==
    ASSUME ConfidenceInv, NEW j \in Jobs, JobReinforces(j)
    PROVE  ConfidenceInv'
<1> DEFINE f == job[j].of
           r == [Used(fact[f], day) EXCEPT !.exp = fact[f].exp]
           c == [job[j] EXCEPT !.step = "reinforced"]
<1>1. /\ job[j].kind \in {"near", "exact"} /\ job' = [job EXCEPT ![j] = c]
      /\ fact' = [fact EXCEPT ![f] = r]
      /\ known' = known \cup {f} /\ excused' = excused \cup ({f} \cap demoter.left)
      /\ UNCHANGED <<day, demoter, started, growths, vouched, convicted, regrown>>
  BY DEF JobReinforces
<1>2. /\ fact \in [Facts -> FactRow] /\ day \in Days /\ job \in [Jobs -> JobRow] /\ f \in Facts
  BY Types DEF JobRow
<1>3. CopyOK(job[j], fact[f], vouched[f], growths[f], regrown[f], day) /\ fact[f].tier # "none"
  BY <1>1 DEF ConfidenceInv, JobsOK, JobOK, CopyOK
<1>4. RowOK(fact[f], vouched[f], growths[f], day) /\ fact[f] \in FactRow
  BY <1>2, <1>3, StoredRow
<1>5. /\ r \in FactRow /\ r.acc > 0 /\ r.exp = fact[f].exp
      /\ r.tier = fact[f].tier /\ r.conf = fact[f].conf /\ r.made = fact[f].made
      /\ r.upd = fact[f].upd /\ r.vto = fact[f].vto /\ r.bad = fact[f].bad
  <2> DEFINE u == Used(fact[f], day)
  <2>1. /\ u \in FactRow /\ u.acc > 0
        /\ u.tier = fact[f].tier /\ u.conf = fact[f].conf /\ u.made = fact[f].made
        /\ u.upd = fact[f].upd /\ u.vto = fact[f].vto /\ u.bad = fact[f].bad
    BY <1>2, <1>4, UsedRow
  <2>2. r = [u EXCEPT !.exp = fact[f].exp] /\ fact[f].exp \in Nat \cup {NoDate}
    BY <1>4 DEF FactRow
  <2> HIDE DEF u, r
  <2> QED BY <2>1, <2>2 DEF FactRow
<1>6. c \in JobRow /\ CopyOK(c, r, vouched[f], growths[f], regrown[f], day) /\ c.of = f
  <2>1. c \in JobRow /\ c.of = f /\ c.kind = job[j].kind /\ c.seen = job[j].seen /\ c.knew = job[j].knew
    BY <1>2 DEF JobRow
  <2> HIDE DEF c
  <2> QED BY <1>1, <1>3, <1>5, <2>1 DEF CopyOK
<1> HIDE DEF r, c
<1>7. RowOK(r, vouched'[f], growths'[f], day)
  BY <1>1, <1>4, <1>5 DEF RowOK
<1>8. Later
  BY <1>1, SameHistory
<1>9. fact' \in [Facts -> FactRow] /\ RowsOK' /\ \A d \in JobRow : JobOK(d) => JobOK(d)'
  BY <1>1, <1>2, <1>3, <1>5, <1>7, <1>8, RowWritten
<1>10. job' \in [Jobs -> JobRow] /\ JobsOK'
  <2>1. fact'[f] = r
    BY <1>1, <1>2
  <2>2. CopyOK(c, fact'[c.of], vouched'[c.of], growths'[c.of], regrown'[c.of], day')
    BY <1>1, <1>6, <2>1
  <2> QED BY <1>1, <1>6, <1>9, <2>2, JobsAfter
<1>11. ConfidenceTypeOK'
  BY <1>1, <1>2, <1>9, <1>10 DEF ConfidenceInv, ConfidenceTypeOK
<1> HIDE DEF f
<1>12. MarksOK' /\ UsesOK'
  BY <1>1, <1>2, <1>5 DEF ConfidenceInv, ConfidenceTypeOK, MarksOK, UsesOK, LowOK
<1> QED BY <1>9, <1>10, <1>11, <1>12 DEF ConfidenceInv

\* One growth of a confidence earned up to an update counts one more growth, or
\* one more cooldown when that long has passed since.
LEMMA CooldownPays ==
    ASSUME NEW v \in Percent, NEW c \in Percent, NEW g \in Nat,
           NEW made \in Nat, NEW upd \in Nat, NEW now \in Nat, made <= upd, upd <= now,
           GrownTo(v, c, g + (upd - made) \div Cooldown)
    PROVE  /\ GrownTo(v, c, g + (now - made) \div Cooldown)
           /\ GrownTo(v, Grow(c), (g + 1) + (now - made) \div Cooldown)
           /\ upd + Cooldown <= now => GrownTo(v, Grow(c), g + (now - made) \div Cooldown)
<1> DEFINE q == (upd - made) \div Cooldown
           p == (now - made) \div Cooldown
<1>1. q \in Nat /\ p \in Nat /\ q <= p /\ (upd + Cooldown <= now => q + 1 <= p)
  <2>1. /\ upd - made \in Nat /\ now - made \in Nat /\ upd - made <= now - made
        /\ upd + Cooldown <= now => (upd - made) + Cooldown <= now - made
    BY ConfidenceAssumption
  <2> QED BY <2>1, Quotient, ConfidenceAssumption
<1> HIDE DEF q, p
<1>2. GrownTo(v, c, g + q)
  BY DEF q
<1>3. /\ g + q \in Nat /\ g + p \in Nat /\ (g + 1) + p \in Nat /\ (g + q) + 1 \in Nat
      /\ g + q <= g + p /\ (g + q) + 1 <= (g + 1) + p
      /\ upd + Cooldown <= now => (g + q) + 1 <= g + p
  BY <1>1
<1>4. v <= v /\ c <= c /\ c \in Int /\ Grow(c) \in Int /\ Grow(c) <= Grow(c)
  BY DEF Percent, Grow
<1>5. GrownTo(v, Grow(c), (g + q) + 1)
  BY <1>2, <1>3, EarnedGrow
<1>6. GrownTo(v, c, g + p)
  BY <1>2, <1>3, <1>4, EarnedMonotone
<1>7. GrownTo(v, Grow(c), (g + 1) + p)
  BY <1>3, <1>4, <1>5, EarnedMonotone
<1>8. upd + Cooldown <= now => GrownTo(v, Grow(c), g + p)
  BY <1>3, <1>4, <1>5, EarnedMonotone
<1> QED BY <1>6, <1>7, <1>8 DEF p

\* What a sound row is worth when it is read is no more than what it earned.
LEMMA RowEarns ==
    ASSUME NEW r, NEW v \in Percent, NEW g \in Nat, NEW t \in Nat, RowOK(r, v, g, t),
           r.tier = "durable", r.conf # Untracked
    PROVE  LET E == Effective(r, t) IN
           /\ r.made \in Nat /\ r.upd \in Nat /\ r.conf \in Percent
           /\ E \in Percent /\ E >= ConfFloor /\ E <= r.conf
           /\ GrownTo(v, E, g + (r.upd - r.made) \div Cooldown)
<1> DEFINE E == Effective(r, t)
           q == (r.upd - r.made) \div Cooldown
<1>1. /\ r.made \in Nat /\ r.upd \in Nat /\ r.conf \in Percent /\ r \in FactRow /\ r.conf >= ConfFloor
      /\ r.made <= r.upd
  BY DEF RowOK, FactRow, Days, Percent
<1>2. E \in Percent /\ E >= ConfFloor /\ E <= r.conf
  BY <1>1, EffectiveBounds DEF Percent, ConfFloor
<1>3. q \in Nat
  <2>1. r.upd - r.made \in Nat
    BY <1>1
  <2> QED BY <2>1, Quotient, ConfidenceAssumption
<1>4. GrownTo(v, r.conf, g + q)
  BY DEF RowOK
<1> HIDE DEF E, q
<1>5. g + q \in Nat /\ g + q <= g + q /\ v <= v /\ r.conf \in Int /\ E \in Int
  BY <1>1, <1>2, <1>3 DEF Percent
<1>6. GrownTo(v, E, g + q)
  BY <1>2, <1>4, <1>5, EarnedMonotone
<1> QED BY <1>1, <1>2, <1>6 DEF E, q

LEMMA JobGrowsKeeps ==
    ASSUME ConfidenceInv, NEW j \in Jobs, JobGrows(j)
    PROVE  ConfidenceInv'
<1> DEFINE f == job[j].of
           seen == job[j].seen
           r == Grown(fact[f], seen)
<1>1. /\ job[j].step = "reinforced" /\ job' = [job EXCEPT ![j] = NoJob]
      /\ UNCHANGED <<day, demoter, started, vouched, convicted, regrown, known, excused>>
  BY DEF JobGrows
<1>2. /\ fact \in [Facts -> FactRow] /\ day \in Days /\ day \in Nat /\ growths \in [Facts -> Nat]
      /\ vouched \in [Facts -> Percent] /\ regrown \in [Facts -> Nat]
      /\ job \in [Jobs -> JobRow] /\ f \in Facts /\ seen \in FactRow /\ \A n \in Int : n <= n
  BY Types DEF JobRow
<1>3. /\ CopyOK(job[j], fact[f], vouched[f], growths[f], regrown[f], day)
      /\ job[j].kind \in {"near", "exact"}
  BY <1>1 DEF ConfidenceInv, JobsOK, JobOK, CopyOK
<1>4. /\ RowOK(fact[f], vouched[f], growths[f], day) /\ fact[f].tier # "none" /\ fact[f].made = seen.made
      /\ RowOK(seen, vouched[f], growths[f], day) /\ seen.tier = "durable"
      /\ job[j].kind = "near" => seen.upd + Cooldown <= day
  BY <1>2, <1>3, StoredRow DEF CopyOK
<1>5. CASE seen.conf # Untracked /\ Open(fact[f])
  <2> DEFINE E == Effective(seen, day)
             g == IF job[j].kind = "exact" THEN growths[f] + 1 ELSE growths[f]
             p == (day - seen.made) \div Cooldown
  <2>1. /\ fact' = [fact EXCEPT ![f] = r] /\ growths' = [growths EXCEPT ![f] = g]
    BY <1>5 DEF JobGrows
  <2>2. /\ growths' \in [Facts -> Nat] /\ growths'[f] = g /\ \A e \in Facts : growths[e] <= growths'[e]
    BY <1>2, <2>1
  <2>3. Later
    BY <1>1, <1>2, <2>2 DEF Later, Percent
  <2>4. /\ E \in Percent /\ E >= ConfFloor
        /\ GrownTo(vouched[f], E, growths[f] + (seen.upd - seen.made) \div Cooldown)
        /\ seen.made \in Nat /\ seen.upd \in Nat /\ seen.made <= seen.upd /\ seen.upd <= day
        /\ vouched[f] \in Percent /\ growths[f] \in Nat
    <3>1. vouched[f] \in Percent /\ growths[f] \in Nat
      BY <1>2
    <3> QED BY <1>2, <1>4, <1>5, <3>1, RowEarns DEF RowOK
  <2> HIDE DEF E
  <2>5. GrownTo(vouched[f], Grow(E), g + p)
    <3>1. /\ GrownTo(vouched[f], Grow(E), (growths[f] + 1) + p)
          /\ seen.upd + Cooldown <= day => GrownTo(vouched[f], Grow(E), growths[f] + p)
      BY <1>2, <2>4, CooldownPays
    <3> QED BY <1>3, <1>4, <3>1
  <2> HIDE DEF g
  <2>6. Grow(E) \in Percent /\ Grow(E) >= ConfFloor
    BY <2>4 DEF Grow, Percent, ConfFloor
  <2>7. /\ r \in FactRow /\ r.conf = Grow(E) /\ r.upd = day
        /\ r.tier = fact[f].tier /\ r.made = fact[f].made /\ r.exp = fact[f].exp
        /\ r.vto = fact[f].vto /\ r.bad = fact[f].bad /\ r.acc = fact[f].acc
    <3>1. r = [fact[f] EXCEPT !.conf = Grow(E), !.upd = day] /\ fact[f] \in FactRow
      BY <1>2 DEF Grown, E
    <3> HIDE DEF r
    <3> QED BY <1>2, <2>6, <3>1 DEF FactRow, Percent
  <2> HIDE DEF r
  <2>8. RowOK(r, vouched'[f], growths'[f], day)
    <3>1. r.conf >= ConfFloor /\ r.made <= r.upd /\ r.upd <= day
      BY <1>2, <1>4, <2>4, <2>6, <2>7
    <3>2. GrownTo(vouched'[f], r.conf, growths'[f] + (r.upd - r.made) \div Cooldown)
      BY <1>1, <1>4, <2>2, <2>5, <2>7 DEF p
    <3> QED BY <1>4, <2>7, <3>1, <3>2 DEF RowOK
  <2>9. fact' \in [Facts -> FactRow] /\ RowsOK' /\ \A d \in JobRow : JobOK(d) => JobOK(d)'
    BY <1>2, <1>4, <2>1, <2>3, <2>7, <2>8, RowWritten
  <2>10. job' \in [Jobs -> JobRow] /\ JobsOK'
    BY <1>1, <2>9, JobEnds
  <2>11. ConfidenceTypeOK'
    BY <1>1, <2>2, <2>9, <2>10 DEF ConfidenceInv, ConfidenceTypeOK
  <2>12. f \notin convicted
    <3>1. fact[f].vto = NoDate \/ fact[f].vto > day
      BY <1>5 DEF Open
    <3>2. fact[f].vto \in Int /\ (fact[f].vto # NoDate => fact[f].vto <= day)
      BY <1>2, <1>4 DEF RowOK, FactRow, NoDate, Days
    <3> QED BY <1>2, <3>1, <3>2 DEF ConfidenceInv, MarksOK, LowOK
  <2> HIDE DEF f
  <2>13. MarksOK' /\ UsesOK'
    BY <1>1, <1>2, <2>1, <2>7, <2>12 DEF ConfidenceInv, ConfidenceTypeOK, MarksOK, UsesOK
  <2> QED BY <2>9, <2>10, <2>11, <2>13 DEF ConfidenceInv
<1>6. CASE ~(seen.conf # Untracked /\ Open(fact[f]))
  <2>1. UNCHANGED <<fact, growths>>
    BY <1>6 DEF JobGrows
  <2>2. \A d \in JobRow : JobOK(d) => JobOK(d)'
    BY <1>1, <2>1 DEF JobOK
  <2>3. job' \in [Jobs -> JobRow] /\ JobsOK'
    BY <1>1, <2>2, JobEnds
  <2> QED BY <1>1, <2>1, <2>3
          DEF ConfidenceInv, ConfidenceTypeOK, RowsOK, MarksOK, UsesOK
<1> QED BY <1>5, <1>6

LEMMA JobInvalidatesKeeps ==
    ASSUME ConfidenceInv, NEW j \in Jobs, JobInvalidates(j)
    PROVE  ConfidenceInv'
<1> DEFINE f == job[j].of
           seen == job[j].seen
           E == Effective(seen, day)
           low == Smaller(E, Ceiling(seen.acc))
           r == [fact[f] EXCEPT !.conf = low, !.upd = day, !.bad = TRUE,
                                !.vto = IF @ = NoDate THEN day ELSE @]
           p == (day - seen.made) \div Cooldown
<1>1. /\ job[j].kind = "contradict" /\ job' = [job EXCEPT ![j] = NoJob]
      /\ convicted' = convicted \cup {f}
      /\ UNCHANGED <<day, demoter, started, growths, vouched, regrown, known, excused>>
  BY DEF JobInvalidates
<1>2. /\ fact \in [Facts -> FactRow] /\ day \in Days /\ day \in Nat /\ growths \in [Facts -> Nat]
      /\ vouched \in [Facts -> Percent] /\ regrown \in [Facts -> Nat]
      /\ job \in [Jobs -> JobRow] /\ f \in Facts /\ seen \in FactRow /\ \A n \in Int : n <= n
  BY Types DEF JobRow
<1>3. fact' = [fact EXCEPT ![f] = r]
  BY <1>2 DEF JobInvalidates
<1>4. CopyOK(job[j], fact[f], vouched[f], growths[f], regrown[f], day)
  BY DEF ConfidenceInv, JobsOK, JobOK
<1>5. /\ RowOK(fact[f], vouched[f], growths[f], day) /\ fact[f].tier # "none" /\ fact[f].made = seen.made
      /\ RowOK(seen, vouched[f], growths[f], day) /\ seen.tier = "durable" /\ seen.conf # Untracked
  BY <1>1, <1>2, <1>4, StoredRow DEF CopyOK
<1>6. /\ E \in Percent /\ E >= ConfFloor
      /\ GrownTo(vouched[f], E, growths[f] + (seen.upd - seen.made) \div Cooldown)
      /\ seen.made \in Nat /\ seen.upd \in Nat /\ seen.made <= seen.upd /\ seen.upd <= day
      /\ vouched[f] \in Percent /\ growths[f] \in Nat
  <2>1. vouched[f] \in Percent /\ growths[f] \in Nat
    BY <1>2
  <2> QED BY <1>2, <1>5, <2>1, RowEarns DEF RowOK
<1> HIDE DEF E
<1>7. GrownTo(vouched[f], E, growths[f] + p) /\ p \in Nat
  <2>1. GrownTo(vouched[f], E, growths[f] + p)
    BY <1>2, <1>6, CooldownPays
  <2>2. day - seen.made \in Nat
    BY <1>2, <1>6
  <2> QED BY <2>1, <2>2, Quotient, ConfidenceAssumption
<1>8. low \in Percent /\ low \in Int /\ low >= ConfFloor /\ low <= E /\ low <= Ceiling(0) /\ Ceiling(0) \in Percent
  <2>1. seen.acc \in Nat
    BY <1>2 DEF FactRow
  <2>2. Ceiling(seen.acc) \in 15 .. 36 /\ Ceiling(0) = 36
    BY <2>1 DEF Ceiling
  <2> QED BY <1>6, <2>2 DEF Smaller, Percent, ConfFloor
<1> HIDE DEF low
<1>9. GrownTo(vouched[f], low, growths[f] + p) /\ GrownTo(Ceiling(0), low, regrown[f])
  <2> HIDE DEF p
  <2>1. /\ growths[f] + p \in Nat /\ growths[f] + p <= growths[f] + p /\ vouched[f] <= vouched[f]
        /\ E \in Int /\ regrown[f] \in Nat
    BY <1>2, <1>6, <1>7 DEF Percent
  <2>2. GrownTo(vouched[f], low, growths[f] + p)
    <3> DEFINE v == vouched[f]  n == growths[f] + p
    <3>1. /\ v \in Percent /\ v <= v /\ n \in Nat /\ n <= n /\ E \in Int /\ low \in Int /\ low <= E
          /\ GrownTo(v, E, n)
      BY <1>6, <1>7, <1>8, <2>1
    <3> HIDE DEF v, n
    <3>2. GrownTo(v, low, n)
      BY <3>1, EarnedMonotone
    <3> QED BY <3>2 DEF v, n
  <2>3. GrownTo(Ceiling(0), low, regrown[f])
    BY <1>8, <2>1, EarnedGiven
  <2> QED BY <2>2, <2>3
<1> HIDE DEF p
<1>10. /\ r \in FactRow /\ r.conf = low /\ r.upd = day /\ r.bad
       /\ r.vto \in Nat /\ r.vto # NoDate /\ r.vto <= day
       /\ r.tier = fact[f].tier /\ r.made = fact[f].made /\ r.exp = fact[f].exp /\ r.acc = fact[f].acc
  <2>1. fact[f] \in FactRow /\ fact[f].vto \in Days \cup {NoDate} /\ (fact[f].vto # NoDate => fact[f].vto <= day)
    BY <1>2, <1>5 DEF RowOK, FactRow
  <2>2. \A d \in Days : d \in Nat /\ d # NoDate
    BY DEF Days, NoDate
  <2> DEFINE d == IF fact[f].vto = NoDate THEN day ELSE fact[f].vto
  <2>3. d \in Days /\ d \in Nat /\ d # NoDate /\ d <= day
    <3>1. d \in Days /\ d <= day
      <4>1. CASE fact[f].vto = NoDate
        BY <1>2, <4>1
      <4>2. CASE fact[f].vto # NoDate
        BY <2>1, <4>2
      <4> QED BY <4>1, <4>2
    <3> HIDE DEF d
    <3> QED BY <2>2, <3>1
  <2>4. r = [fact[f] EXCEPT !.conf = low, !.upd = day, !.bad = TRUE, !.vto = d]
    BY <2>1
  <2> HIDE DEF d, r
  <2>5. low \in 0 .. 100
    BY <1>8 DEF Percent
  <2>6. /\ r \in FactRow /\ r.conf = low /\ r.upd = day /\ r.bad /\ r.vto = d
        /\ r.tier = fact[f].tier /\ r.made = fact[f].made /\ r.exp = fact[f].exp /\ r.acc = fact[f].acc
    BY ONLY <1>2, <2>1, <2>3, <2>4, <2>5 DEF FactRow
  <2> QED BY <2>3, <2>6
<1> HIDE DEF r
<1>11. RowOK(r, vouched'[f], growths'[f], day)
  <2>1. r.conf >= ConfFloor /\ r.made <= r.upd /\ r.upd <= day
    BY <1>2, <1>5, <1>6, <1>8, <1>10
  <2>2. GrownTo(vouched'[f], r.conf, growths'[f] + (r.upd - r.made) \div Cooldown)
    BY <1>1, <1>5, <1>9, <1>10 DEF p
  <2> QED BY <1>5, <1>10, <2>1, <2>2 DEF RowOK
<1>12. Later
  BY <1>1, SameHistory
<1>13. fact' \in [Facts -> FactRow] /\ RowsOK' /\ \A d \in JobRow : JobOK(d) => JobOK(d)'
  BY <1>2, <1>3, <1>5, <1>10, <1>11, <1>12, RowWritten
<1>14. job' \in [Jobs -> JobRow] /\ JobsOK'
  BY <1>1, <1>13, JobEnds
<1>15. ConfidenceTypeOK'
  BY <1>1, <1>2, <1>13, <1>14 DEF ConfidenceInv, ConfidenceTypeOK
<1>16. LowOK(r, regrown[f])
  BY <1>9, <1>10 DEF LowOK
<1> HIDE DEF f
<1>17. MarksOK' /\ UsesOK'
  BY <1>1, <1>2, <1>3, <1>10, <1>16 DEF ConfidenceInv, ConfidenceTypeOK, MarksOK, UsesOK
<1> QED BY <1>13, <1>14, <1>15, <1>17 DEF ConfidenceInv

(***************************************************************************)
(* A row written back whole: sound by itself, and as low as before when    *)
(* the copy had seen the invalidation.                                     *)
(***************************************************************************)
LEMMA WriteBackKeeps ==
    ASSUME ConfidenceInv, NEW j \in Jobs, NEW r, NEW ov \in BOOLEAN, WriteBack(j, r, ov), Later,
           job[j].kind # "none", RowOK(r, vouched'[job[j].of], growths'[job[j].of], day),
           r.made = job[j].seen.made,
           job[j].knew /\ ~ov => LowOK(r, regrown'[job[j].of])
    PROVE  ConfidenceInv'
<1> DEFINE f == job[j].of
<1>1. /\ job' = [job EXCEPT ![j] = NoJob] /\ fact' = [fact EXCEPT ![f] = r]
      /\ convicted' = IF job[j].knew /\ ~ov THEN convicted ELSE convicted \ {f}
      /\ known' = IF r.acc = 0 THEN known \ {f} ELSE known
      /\ UNCHANGED <<day, demoter, started, excused>>
  BY DEF WriteBack
<1>2. /\ fact \in [Facts -> FactRow] /\ job \in [Jobs -> JobRow] /\ f \in Facts
      /\ regrown \in [Facts -> Nat]
  BY Types DEF JobRow
<1>3. fact[f].tier # "none" /\ fact[f].made = job[j].seen.made
  BY DEF ConfidenceInv, JobsOK, JobOK, CopyOK
<1>4. r \in FactRow /\ r.tier # "none" /\ r.acc \in Nat
  BY DEF RowOK, FactRow
<1>5. fact' \in [Facts -> FactRow] /\ RowsOK' /\ \A d \in JobRow : JobOK(d) => JobOK(d)'
  BY <1>1, <1>2, <1>3, RowWritten
<1>6. job' \in [Jobs -> JobRow] /\ JobsOK'
  BY <1>1, <1>5, JobEnds
<1>7. ConfidenceTypeOK'
  BY <1>1, <1>5, <1>6 DEF ConfidenceInv, ConfidenceTypeOK, Later, Percent
<1>8. MarksOK'
  <2> SUFFICES ASSUME NEW e \in convicted' PROVE LowOK(fact'[e], regrown'[e])
    BY DEF MarksOK
  <2>1. e \in convicted /\ e \in Facts /\ LowOK(fact[e], regrown[e])
    BY <1>1 DEF ConfidenceInv, ConfidenceTypeOK, MarksOK
  <2>2. CASE e = f
    <3>1. job[j].knew /\ ~ov
      BY <1>1, <2>2
    <3> QED BY <1>1, <1>2, <2>2, <3>1
  <2>3. CASE e # f
    <3>1. fact'[e] = fact[e] /\ fact[e].conf \in Int
      BY <1>1, <1>2, <2>1, <2>3 DEF FactRow, Untracked
    <3>2. regrown[e] \in Nat /\ regrown'[e] \in Nat /\ regrown[e] <= regrown'[e]
      BY <1>2, <2>1 DEF Later
    <3> QED BY <2>1, <3>1, <3>2, LowOKMonotone
  <2> QED BY <2>2, <2>3
<1> HIDE DEF f
<1>9. UsesOK'
  BY <1>1, <1>2, <1>4 DEF ConfidenceInv, ConfidenceTypeOK, UsesOK
<1> QED BY <1>5, <1>6, <1>7, <1>8, <1>9 DEF ConfidenceInv

\* What every step that writes a copy back starts from.
LEMMA HeldCopy ==
    ASSUME ConfidenceInv, NEW j \in Jobs, job[j].kind # "none"
    PROVE  /\ job[j].of \in Facts /\ job[j].seen \in FactRow /\ job[j].knew \in BOOLEAN
           /\ RowOK(job[j].seen, vouched[job[j].of], growths[job[j].of], day)
           /\ job[j].knew => LowOK(job[j].seen, regrown[job[j].of])
           /\ vouched[job[j].of] \in Percent /\ growths[job[j].of] \in Nat /\ regrown[job[j].of] \in Nat
<1>1. job[j] \in JobRow /\ job[j].of \in Facts /\ job[j].seen \in FactRow /\ job[j].knew \in BOOLEAN
  BY Types DEF JobRow
<1>2. vouched[job[j].of] \in Percent /\ growths[job[j].of] \in Nat /\ regrown[job[j].of] \in Nat
  BY <1>1, Types
<1>3. CopyOK(job[j], fact[job[j].of], vouched[job[j].of], growths[job[j].of], regrown[job[j].of], day)
  BY DEF ConfidenceInv, JobsOK, JobOK
<1> QED BY <1>1, <1>2, <1>3 DEF CopyOK

LEMMA JobEditsKeeps ==
    ASSUME ConfidenceInv, NEW j \in Jobs, NEW tier \in {"durable", "episodic"}, NEW whole \in BOOLEAN,
           NEW given \in Given \cup {Untracked}, JobEdits(j, tier, given, whole)
    PROVE  ConfidenceInv'
<1> DEFINE f == job[j].of
           old == job[j].seen
           r == Edited(old, tier, given, whole)
           ov == whole \/ given # Untracked
           v == vouched[f]
           w == Larger(v, Clamped(given))
           p == (day - old.made) \div Cooldown
<1>1. /\ job[j].kind = "edit" /\ WriteBack(j, r, ov)
      /\ vouched' = [vouched EXCEPT ![f] = w] /\ UNCHANGED <<growths, regrown>> /\ day' = day
  BY DEF JobEdits, WriteBack
<1>2. /\ f \in Facts /\ old \in FactRow /\ RowOK(old, v, growths[f], day)
      /\ job[j].knew => LowOK(old, regrown[f])
      /\ v \in Percent /\ growths[f] \in Nat /\ regrown[f] \in Nat
  BY <1>1, HeldCopy
<1>3. /\ day \in Days /\ day \in Nat /\ vouched \in [Facts -> Percent] /\ growths \in [Facts -> Nat]
      /\ regrown \in [Facts -> Nat] /\ \A n \in Int : n <= n
  BY Types
<1>4. /\ given \in Int /\ Clamped(given) \in 10 .. 70
      /\ \A c \in Percent : Clamped(c) \in 10 .. 70 /\ (Clamped(c) <= c \/ Clamped(c) = 10)
  <2>1. given \in Int
    BY ConfidenceAssumption DEF Untracked
  <2> QED BY <2>1 DEF Clamped, Larger, Smaller, Percent
<1>5. w \in Percent /\ v <= w /\ Clamped(given) <= w
  <2> DEFINE x == Clamped(given)
  <2>1. x \in 10 .. 70 /\ v \in 0 .. 100 /\ w = IF v > x THEN v ELSE x
    BY <1>2, <1>4 DEF Larger, Percent
  <2> HIDE DEF x, v, w
  <2>2. w \in Percent /\ v <= w /\ x <= w
    BY <2>1 DEF Percent
  <2> QED BY <2>2 DEF x
<1> HIDE DEF w
<1>6. Later
  <2>1. vouched' \in [Facts -> Percent] /\ \A e \in Facts : vouched[e] <= vouched'[e]
    <3>1. \A e \in Facts : vouched[e] \in Int /\ vouched'[e] = IF e = f THEN w ELSE vouched[e]
      BY <1>1, <1>3 DEF Percent
    <3> QED BY <1>1, <1>3, <1>5, <3>1
  <2> QED BY <1>1, <1>3, <2>1 DEF Later
<1>7. vouched'[f] = w /\ growths'[f] = growths[f] /\ regrown'[f] = regrown[f]
  BY <1>1, <1>2, <1>3
<1>8. /\ old.made \in Nat /\ old.upd \in Nat /\ old.made <= old.upd /\ old.upd <= day
      /\ old.conf \in Percent \cup {Untracked} /\ old.vto \in Int /\ old.tier # "none"
      /\ old.conf # Untracked => old.conf >= ConfFloor
      /\ old.conf # Untracked => GrownTo(v, old.conf, growths[f] + (old.upd - old.made) \div Cooldown)
  BY <1>2 DEF RowOK, FactRow, Days, Percent, NoDate
<1>9. /\ r \in FactRow /\ r.tier = tier /\ r.upd = day /\ r.made = old.made /\ r.vto = old.vto
      /\ r.bad = (old.bad /\ ~whole) /\ (tier = "episodic" <=> r.exp # NoDate)
      /\ \/ r.conf = Untracked
         \/ given # Untracked /\ r.conf = Clamped(given)
         \/ whole /\ r.conf = old.conf
         \/ old.conf # Untracked /\ r.conf = Clamped(old.conf)
  <2> DEFINE cf == CASE tier = "episodic" -> Untracked
                     [] tier # "episodic" /\ given # Untracked -> Clamped(given)
                     [] OTHER -> IF whole \/ old.conf = Untracked THEN old.conf ELSE Clamped(old.conf)
             ex == IF tier = "episodic" THEN day + DemotedTTL ELSE NoDate
             bd == old.bad /\ ~whole
  <2>1. /\ cf \in 0 .. 100 \cup {Untracked}
        /\ \/ cf = Untracked
           \/ given # Untracked /\ cf = Clamped(given)
           \/ whole /\ cf = old.conf
           \/ old.conf # Untracked /\ cf = Clamped(old.conf)
    <3>1. CASE tier = "episodic"
      BY <3>1
    <3>2. CASE tier # "episodic" /\ given # Untracked
      BY <1>4, <3>2
    <3>3. CASE tier # "episodic" /\ given = Untracked
      BY <1>4, <1>8, <3>3 DEF Percent
    <3> QED BY <3>1, <3>2, <3>3
  <2>2. ex \in Nat \cup {NoDate} /\ (tier = "episodic" <=> ex # NoDate)
    BY <1>3, ConfidenceAssumption DEF NoDate
  <2>3. bd \in BOOLEAN /\ 0 \in 0 .. MaxUses
    BY <1>2, ConfidenceAssumption DEF FactRow
  <2>4. r = [old EXCEPT !.tier = tier, !.acc = 0, !.upd = day, !.last = day, !.bad = bd,
                        !.exp = ex, !.conf = cf]
    BY <1>2 DEF Edited, FactRow
  <2> HIDE DEF cf, ex, bd, r
  <2>5. /\ r.tier = tier /\ r.upd = day /\ r.made = old.made /\ r.vto = old.vto
        /\ r.bad = bd /\ r.exp = ex /\ r.conf = cf
    BY ONLY <1>2, <2>4 DEF FactRow
  <2>6. r \in FactRow
    BY ONLY <1>2, <1>3, <2>1, <2>2, <2>3, <2>4, tier \in {"durable", "episodic"} DEF FactRow
  <2> QED BY <2>1, <2>2, <2>5, <2>6 DEF bd
<1> HIDE DEF r
<1>10. r.conf # Untracked => r.conf >= ConfFloor /\ GrownTo(w, r.conf, growths[f] + p)
  <2> SUFFICES ASSUME r.conf # Untracked PROVE r.conf >= ConfFloor /\ GrownTo(w, r.conf, growths[f] + p)
    OBVIOUS
  <2>1. p \in Nat /\ growths[f] + p \in Nat
    <3>1. day - old.made \in Nat
      BY <1>3, <1>8
    <3>2. p \in Nat
      BY <3>1, Quotient, ConfidenceAssumption
    <3> QED BY <1>2, <3>2
  <2>2. ASSUME old.conf # Untracked PROVE GrownTo(w, old.conf, growths[f] + p)
    <3>1. old.conf \in Percent
      BY <1>8, <2>2
    <3>2. GrownTo(v, old.conf, growths[f] + p)
      BY <1>2, <1>3, <1>8, <2>2, <3>1, CooldownPays
    <3> HIDE DEF p
    <3>3. old.conf \in Int /\ old.conf <= old.conf /\ growths[f] + p <= growths[f] + p
      BY <2>1, <3>1 DEF Percent
    <3> QED BY <1>2, <1>5, <2>1, <3>2, <3>3, EarnedMonotone
  <2> HIDE DEF p
  <2>3. CASE given # Untracked /\ r.conf = Clamped(given)
    BY <1>4, <1>5, <2>1, <2>3, EarnedGiven DEF ConfFloor
  <2>4. CASE whole /\ r.conf = old.conf
    BY <1>8, <2>2, <2>4
  <2>5. CASE old.conf # Untracked /\ r.conf = Clamped(old.conf)
    <3>1. old.conf \in Percent
      BY <1>8, <2>5
    <3>2. r.conf \in 10 .. 70 /\ (r.conf <= old.conf \/ r.conf = 10)
      BY <1>4, <2>5, <3>1
    <3>3. CASE r.conf <= old.conf
      <4>1. r.conf \in Int /\ old.conf \in Int /\ growths[f] + p <= growths[f] + p /\ w <= w
        BY <1>5, <2>1, <3>1, <3>2 DEF Percent
      <4>2. GrownTo(w, r.conf, growths[f] + p)
        BY <1>5, <2>1, <2>2, <2>5, <3>3, <4>1, EarnedMonotone
      <4> QED BY <3>2, <4>2 DEF ConfFloor
    <3>4. CASE r.conf = 10
      <4>1. r.conf <= w /\ r.conf \in Int
        BY <1>4, <1>5, <3>4 DEF Percent
      <4> QED BY <1>5, <2>1, <3>4, <4>1, EarnedGiven DEF ConfFloor
    <3> QED BY <3>2, <3>3, <3>4
  <2> QED BY <1>9, <2>3, <2>4, <2>5
<1>11. RowOK(r, vouched'[f], growths'[f], day)
  <2>1. r.made <= r.upd /\ r.upd <= day /\ r.tier # "none" /\ (r.vto # NoDate => r.vto <= day)
    BY <1>2, <1>3, <1>8, <1>9 DEF RowOK
  <2> QED BY <1>7, <1>9, <1>10, <2>1 DEF RowOK, p
<1>12. job[j].knew /\ ~ov => LowOK(r, regrown'[f])
  <2> SUFFICES ASSUME job[j].knew, ~ov PROVE LowOK(r, regrown'[f])
    OBVIOUS
  <2>1. ~whole /\ given = Untracked
    OBVIOUS
  <2>2. LowOK(old, regrown[f]) /\ r.bad /\ r.vto # NoDate
    BY <1>2, <1>9, <2>1 DEF LowOK
  <2>3. Ceiling(0) = 36 /\ Ceiling(0) \in Percent
    BY DEF Ceiling, Percent
  <2>4. GrownTo(Ceiling(0), r.conf, regrown[f])
    <3>1. CASE r.conf = Untracked
      <4>1. r.conf \in Int /\ r.conf <= Ceiling(0)
        BY <2>3, <3>1 DEF Untracked
      <4> QED BY <1>2, <2>3, <4>1, EarnedGiven
    <3>2. CASE old.conf # Untracked /\ r.conf = Clamped(old.conf)
      <4>1. /\ old.conf \in Percent /\ r.conf \in Int /\ (r.conf <= old.conf \/ r.conf <= Ceiling(0))
        BY <1>4, <1>8, <2>3, <3>2
      <4>2. GrownTo(Ceiling(0), old.conf, regrown[f]) /\ old.conf \in Int
        BY <2>2, <4>1 DEF LowOK, Percent
      <4>3. Ceiling(0) <= Ceiling(0) /\ regrown[f] <= regrown[f]
        BY <1>2, <2>3
      <4>4. CASE r.conf <= old.conf
        BY <1>2, <2>3, <4>1, <4>2, <4>3, <4>4, EarnedMonotone
      <4>5. CASE r.conf <= Ceiling(0)
        BY <1>2, <2>3, <4>1, <4>5, EarnedGiven
      <4> QED BY <4>1, <4>4, <4>5
    <3> QED BY <1>9, <2>1, <3>1, <3>2
  <2> QED BY <1>7, <2>2, <2>4 DEF LowOK
<1>13. r.made = job[j].seen.made /\ ov \in BOOLEAN /\ job[j].kind # "none"
  BY <1>1, <1>9
<1> HIDE DEF ov
<1> QED BY <1>1, <1>6, <1>11, <1>12, <1>13, WriteBackKeeps

\* The rows merges and rewrites put back.
LEMMA TouchedRow ==
    ASSUME NEW old, NEW v \in Percent, NEW g \in Nat, NEW t \in Nat, t \in Days, RowOK(old, v, g, t)
    PROVE  LET r == [old EXCEPT !.upd = t] IN
           /\ RowOK(r, v, g, t) /\ r.made = old.made /\ r.bad = old.bad /\ r.vto = old.vto
           /\ r.conf = old.conf /\ r \in FactRow
<1> DEFINE r == [old EXCEPT !.upd = t]
<1>1. old \in FactRow
  BY DEF RowOK
<1>2. /\ r \in FactRow /\ r.made = old.made /\ r.bad = old.bad /\ r.vto = old.vto /\ r.conf = old.conf
      /\ r.tier = old.tier /\ r.exp = old.exp /\ r.upd = t
  BY ONLY <1>1, t \in Days DEF FactRow
<1> HIDE DEF r
<1>3. /\ old.made \in Nat /\ old.upd \in Nat /\ old.made <= old.upd /\ old.upd <= t
      /\ old.conf # Untracked => old.conf \in Percent
  BY <1>1 DEF RowOK, FactRow, Days, Percent
<1>4. r.conf # Untracked => GrownTo(v, r.conf, g + (r.upd - r.made) \div Cooldown)
  <2> SUFFICES ASSUME old.conf # Untracked PROVE GrownTo(v, old.conf, g + (t - old.made) \div Cooldown)
    BY <1>2
  <2>1. old.conf \in Percent /\ GrownTo(v, old.conf, g + (old.upd - old.made) \div Cooldown)
    BY <1>3 DEF RowOK
  <2> QED BY <1>3, <2>1, CooldownPays
<1>5. RowOK(r, v, g, t)
  BY <1>2, <1>3, <1>4 DEF RowOK
<1> QED BY <1>2, <1>5 DEF r

LEMMA JobMergesKeeps ==
    ASSUME ConfidenceInv, NEW j \in Jobs, JobMerges(j)
    PROVE  ConfidenceInv'
<1> DEFINE f == job[j].of
           old == job[j].seen
           grows == old.tier = "durable" /\ old.conf # Untracked
           touched == [old EXCEPT !.upd = day]
           r == IF grows THEN Grown(old, old) ELSE touched
           v == vouched[f]
<1>1. /\ job[j].kind = "merge" /\ WriteBack(j, r, FALSE) /\ day' = day /\ vouched' = vouched
      /\ growths' = [growths EXCEPT ![f] = IF grows THEN @ + 1 ELSE @]
      /\ regrown' = [regrown EXCEPT ![f] = IF grows /\ job[j].knew THEN @ + 1 ELSE @]
  BY DEF JobMerges, WriteBack
<1>2. /\ f \in Facts /\ old \in FactRow /\ RowOK(old, v, growths[f], day) /\ job[j].knew \in BOOLEAN
      /\ job[j].knew => LowOK(old, regrown[f])
      /\ v \in Percent /\ growths[f] \in Nat /\ regrown[f] \in Nat
  BY <1>1, HeldCopy
<1>3. /\ day \in Days /\ day \in Nat /\ vouched \in [Facts -> Percent] /\ growths \in [Facts -> Nat]
      /\ regrown \in [Facts -> Nat] /\ \A n \in Int : n <= n
  BY Types
<1>4. Later
  <2>1. growths' \in [Facts -> Nat] /\ regrown' \in [Facts -> Nat]
    BY <1>1, <1>2, <1>3
  <2>2. \A e \in Facts : vouched[e] <= vouched'[e]
    BY <1>1, <1>3 DEF Percent
  <2>3. \A e \in Facts : growths[e] <= growths'[e] /\ regrown[e] <= regrown'[e]
    BY <1>1, <1>2, <1>3
  <2> QED BY <1>1, <1>3, <2>1, <2>2, <2>3 DEF Later
<1>5. /\ RowOK(touched, v, growths[f], day) /\ touched.made = old.made /\ touched.bad = old.bad
      /\ touched.vto = old.vto /\ touched.conf = old.conf /\ touched \in FactRow
  <2>1. RowOK(old, v, growths[f], day) /\ v \in Percent /\ growths[f] \in Nat /\ day \in Days /\ day \in Nat
    BY <1>2, <1>3
  <2> HIDE DEF old, v, f
  <2> QED BY <2>1, TouchedRow
<1>6. vouched'[f] = v
  BY <1>1
<1>7. CASE grows
  <2> DEFINE E == Effective(old, day)
             p == (day - old.made) \div Cooldown
  <2>1. /\ E \in Percent /\ E >= ConfFloor /\ E <= old.conf /\ old.conf \in Percent
        /\ GrownTo(v, E, growths[f] + (old.upd - old.made) \div Cooldown)
        /\ old.made \in Nat /\ old.upd \in Nat /\ old.made <= old.upd /\ old.upd <= day
    BY <1>2, <1>3, <1>7, RowEarns DEF RowOK
  <2> HIDE DEF E
  <2>2. GrownTo(v, Grow(E), (growths[f] + 1) + p)
    BY <1>2, <1>3, <2>1, CooldownPays
  <2>3. Grow(E) \in Percent /\ Grow(E) >= ConfFloor
    BY <2>1 DEF Grow, Percent, ConfFloor
  <2>4. growths'[f] = growths[f] + 1 /\ regrown'[f] = IF job[j].knew THEN regrown[f] + 1 ELSE regrown[f]
    BY <1>1, <1>2, <1>3, <1>7
  <2>5. /\ r \in FactRow /\ r.conf = Grow(E) /\ r.upd = day /\ r.tier = old.tier /\ r.made = old.made
        /\ r.exp = old.exp /\ r.vto = old.vto /\ r.bad = old.bad
    <3>1. r = [old EXCEPT !.conf = Grow(E), !.upd = day] /\ Grow(E) \in 0 .. 100
      BY <1>7, <2>3 DEF Grown, E, Percent
    <3> HIDE DEF r, E
    <3> QED BY ONLY <1>2, <1>3, <3>1 DEF FactRow
  <2> HIDE DEF r
  <2>6. RowOK(r, vouched'[f], growths'[f], day)
    <3>1. GrownTo(v, r.conf, growths'[f] + (r.upd - r.made) \div Cooldown)
      BY <2>2, <2>4, <2>5 DEF p
    <3>2. r.made <= r.upd /\ r.upd <= day
      BY <1>3, <2>1, <2>5
    <3> QED BY <1>2, <1>6, <2>3, <2>5, <3>1, <3>2 DEF RowOK
  <2>7. job[j].knew => LowOK(r, regrown'[f])
    <3> SUFFICES ASSUME job[j].knew PROVE LowOK(r, regrown[f] + 1)
      BY <2>4
    <3>1. old.bad /\ old.vto # NoDate /\ GrownTo(Ceiling(0), old.conf, regrown[f])
      BY <1>2 DEF LowOK
    <3>2. Ceiling(0) \in Percent /\ Ceiling(0) <= Ceiling(0)
      BY DEF Ceiling, Percent
    <3>3. GrownTo(Ceiling(0), E, regrown[f])
      <4>1. E \in Int /\ E <= old.conf /\ old.conf \in Int /\ regrown[f] <= regrown[f] /\ regrown[f] \in Nat
        BY <1>2, <2>1 DEF Percent
      <4> QED BY <3>1, <3>2, <4>1, EarnedMonotone
    <3>4. GrownTo(Ceiling(0), Grow(E), regrown[f] + 1)
      BY <1>2, <2>1, <3>2, <3>3, EarnedGrow
    <3> QED BY <2>5, <3>1, <3>4 DEF LowOK
  <2>8. r.made = job[j].seen.made /\ job[j].kind # "none"
    BY <1>1, <2>5
  <2> QED BY <1>1, <1>4, <2>6, <2>7, <2>8, WriteBackKeeps
<1>8. CASE ~grows
  <2>1. r = touched /\ growths'[f] = growths[f] /\ regrown'[f] = regrown[f]
    BY <1>1, <1>2, <1>3, <1>8
  <2>2. RowOK(r, vouched'[f], growths'[f], day) /\ r.made = job[j].seen.made
    BY <1>5, <1>6, <2>1
  <2>3. job[j].knew => LowOK(r, regrown'[f])
    BY <1>2, <1>5, <2>1 DEF LowOK
  <2>4. job[j].kind # "none"
    BY <1>1
  <2> HIDE DEF r
  <2> QED BY <1>1, <1>4, <2>2, <2>3, <2>4, WriteBackKeeps
<1> QED BY <1>7, <1>8

LEMMA JobRewritesKeeps ==
    ASSUME ConfidenceInv, NEW j \in Jobs, JobRewrites(j)
    PROVE  ConfidenceInv'
<1>1. /\ job[j].kind = "rewrite" /\ WriteBack(j, job[j].seen, FALSE)
      /\ UNCHANGED <<day, growths, vouched, regrown>>
  BY DEF JobRewrites, WriteBack
<1>2. Later
  BY <1>1, SameHistory
<1>3. /\ RowOK(job[j].seen, vouched[job[j].of], growths[job[j].of], day)
      /\ job[j].knew => LowOK(job[j].seen, regrown[job[j].of])
  BY <1>1, HeldCopy
<1>4. /\ RowOK(job[j].seen, vouched'[job[j].of], growths'[job[j].of], day)
      /\ job[j].knew => LowOK(job[j].seen, regrown'[job[j].of])
  BY <1>1, <1>3
<1> QED BY <1>1, <1>2, <1>4, WriteBackKeeps

LEMMA JobDropsKeeps ==
    ASSUME ConfidenceInv, NEW j \in Jobs, JobDrops(j)
    PROVE  ConfidenceInv'
<1>1. /\ job' = [job EXCEPT ![j] = NoJob]
      /\ UNCHANGED <<fact, day, demoter, started, growths, vouched, convicted, regrown, known, excused>>
  BY DEF JobDrops, confHistories
<1>2. \A d \in JobRow : JobOK(d) => JobOK(d)'
  BY <1>1 DEF JobOK
<1>3. job' \in [Jobs -> JobRow] /\ JobsOK'
  BY <1>1, <1>2, JobEnds
<1> QED BY <1>1, <1>3
        DEF ConfidenceInv, ConfidenceTypeOK, RowsOK, MarksOK, UsesOK

(***************************************************************************)
(* The demotion stage.                                                     *)
(***************************************************************************)
LEMMA ListStaleKeeps ==
    ASSUME ConfidenceInv, ListStale
    PROVE  ConfidenceInv'
<1>1. /\ demoter' = [on |-> TRUE, now |-> day, left |-> {f \in Facts : Stale(fact[f], day)}]
      /\ UNCHANGED <<fact, day, job, started, growths, vouched, convicted, regrown, known, excused>>
  BY DEF ListStale, confHistories
<1>2. ConfidenceTypeOK'
  BY <1>1 DEF ConfidenceInv, ConfidenceTypeOK
<1>3. UsesOK'
  <2>1. \A f \in demoter'.left : f \in Facts /\ fact[f].tier = "durable" /\ fact[f].acc = 0
    BY <1>1 DEF Stale, Unused
  <2>2. \A f \in demoter'.left : f \notin known
    BY <2>1 DEF ConfidenceInv, UsesOK
  <2> QED BY <1>1, <2>1, <2>2 DEF ConfidenceInv, UsesOK
<1>4. RowsOK' /\ JobsOK' /\ MarksOK'
  BY <1>1 DEF ConfidenceInv, RowsOK, JobsOK, JobOK, MarksOK
<1> QED BY <1>2, <1>3, <1>4 DEF ConfidenceInv

LEMMA DemoteOneKeeps ==
    ASSUME ConfidenceInv, NEW f \in Facts, DemoteOne(f)
    PROVE  ConfidenceInv'
<1> DEFINE r == Demoted(fact[f])
<1>1. /\ f \in demoter.left /\ demoter' = [demoter EXCEPT !.left = @ \ {f}]
      /\ fact' = [fact EXCEPT ![f] = r]
      /\ UNCHANGED <<day, job, started, growths, vouched, convicted, regrown, known, excused>>
  BY DEF DemoteOne, confHistories
<1>2. /\ fact \in [Facts -> FactRow] /\ day \in Days /\ job \in [Jobs -> JobRow]
      /\ demoter \in [on : BOOLEAN, now : Days, left : SUBSET Facts]
  BY Types
<1>3. fact[f].tier # "none" /\ RowOK(fact[f], vouched[f], growths[f], day)
  BY <1>1, StoredRow DEF ConfidenceInv, UsesOK
<1>4. /\ r \in FactRow /\ r.tier = "episodic" /\ r.exp # NoDate
      /\ r.conf = fact[f].conf /\ r.made = fact[f].made /\ r.upd = fact[f].upd
      /\ r.vto = fact[f].vto /\ r.bad = fact[f].bad /\ r.acc = fact[f].acc
  <2>1. demoter.now + DemotedTTL \in Nat /\ demoter.now + DemotedTTL # NoDate
    BY <1>2, ConfidenceAssumption DEF Days, NoDate
  <2>2. r = [fact[f] EXCEPT !.tier = "episodic", !.exp = demoter.now + DemotedTTL] /\ fact[f] \in FactRow
    BY <1>2 DEF Demoted
  <2> HIDE DEF r
  <2> QED BY <2>1, <2>2 DEF FactRow
<1> HIDE DEF r
<1>5. RowOK(r, vouched'[f], growths'[f], day)
  BY <1>1, <1>3, <1>4 DEF RowOK
<1>6. Later
  BY <1>1, SameHistory
<1>7. fact' \in [Facts -> FactRow] /\ RowsOK' /\ \A c \in JobRow : JobOK(c) => JobOK(c)'
  BY <1>1, <1>3, <1>4, <1>5, <1>6, RowWritten
<1>8. JobsOK'
  <2>1. \A j \in Jobs : job[j] \in JobRow /\ JobOK(job[j]) /\ job'[j] = job[j]
    BY <1>1, <1>2 DEF ConfidenceInv, JobsOK
  <2> QED BY <1>7, <2>1 DEF JobsOK, JobOK
<1>9. ConfidenceTypeOK'
  BY <1>1, <1>2, <1>7 DEF ConfidenceInv, ConfidenceTypeOK
<1>10. MarksOK' /\ UsesOK'
  BY <1>1, <1>2, <1>4 DEF ConfidenceInv, ConfidenceTypeOK, MarksOK, UsesOK, LowOK
<1> QED BY <1>7, <1>8, <1>9, <1>10 DEF ConfidenceInv

LEMMA EndDemoteKeeps ==
    ASSUME ConfidenceInv, EndDemote
    PROVE  ConfidenceInv'
<1>1. /\ demoter' = NoPass /\ excused' = {}
      /\ UNCHANGED <<fact, day, job, started, growths, vouched, convicted, regrown, known>>
  BY DEF EndDemote
<1>2. ConfidenceTypeOK'
  <2>1. 0 \in Days
    BY ConfidenceAssumption DEF Days
  <2> QED BY <1>1, <2>1 DEF ConfidenceInv, ConfidenceTypeOK, NoPass
<1>3. RowsOK' /\ JobsOK' /\ MarksOK' /\ UsesOK'
  BY <1>1 DEF ConfidenceInv, RowsOK, JobsOK, JobOK, MarksOK, UsesOK, NoPass
<1> QED BY <1>2, <1>3 DEF ConfidenceInv

LEMMA ConfidenceStep == ConfidenceInv /\ [ConfidenceNext]_confidenceVars => ConfidenceInv'
<1> SUFFICES ASSUME ConfidenceInv, [ConfidenceNext]_confidenceVars PROVE ConfidenceInv'
  OBVIOUS
<1>1. CASE UNCHANGED confidenceVars
  BY <1>1 DEF confidenceVars, ConfidenceInv, ConfidenceTypeOK, RowsOK, JobsOK, JobOK, MarksOK, UsesOK
<1>2. CASE ConfidenceNext
  BY <1>2, NextDayKeeps, NewFactKeeps, RecallFactKeeps, StartsKeep, JobReinforcesKeeps,
     JobGrowsKeeps, JobInvalidatesKeeps, JobEditsKeeps, JobMergesKeeps, JobRewritesKeeps,
     JobDropsKeeps, ListStaleKeeps, DemoteOneKeeps, EndDemoteKeeps DEF ConfidenceNext
<1> QED BY <1>1, <1>2

LEMMA ConfidenceInvariant == ConfidenceSpec => []ConfidenceInv
<1>1. ConfidenceInit => ConfidenceInv
  BY ConfidenceInitInv
<1>2. ConfidenceInv /\ [ConfidenceNext]_confidenceVars => ConfidenceInv'
  BY ConfidenceStep
<1> QED BY <1>1, <1>2, PTL DEF ConfidenceSpec

-----------------------------------------------------------------------------

\* Every variable keeps its type.
THEOREM ConfidenceTypeCorrect == ConfidenceSpec => []ConfidenceTypeOK
<1>1. ConfidenceInv => ConfidenceTypeOK
  BY DEF ConfidenceInv
<1> QED BY <1>1, ConfidenceInvariant, PTL

\* An invalidated fact keeps its mark, stays closed, and rises above what the
\* invalidation left only by merges of an LLM that found it invalidated, whatever
\* else was under way (MarkContradicted, SetConfidence's guard, asyncUpdate).
THEOREM InvalidatedStays == ConfidenceSpec => []InvalidatedStaysDown
<1>1. ConfidenceInv => InvalidatedStaysDown
  <2> SUFFICES ASSUME ConfidenceInv, NEW f \in convicted
               PROVE  /\ fact[f].bad /\ fact[f].vto # NoDate /\ ~Current(fact[f], day)
                      /\ fact[f].conf <= GrowN(Ceiling(0), regrown[f])
    BY DEF InvalidatedStaysDown
  <2>1. f \in Facts /\ LowOK(fact[f], regrown[f]) /\ day \in Nat
    BY Types DEF ConfidenceInv, ConfidenceTypeOK, MarksOK
  <2>2. fact[f].bad
    BY <2>1 DEF LowOK
  <2>3. RowOK(fact[f], vouched[f], growths[f], day)
    BY <2>1, <2>2 DEF ConfidenceInv, RowsOK, Nothing
  <2>4. fact[f].vto \in Nat /\ fact[f].vto # NoDate /\ fact[f].vto <= day
    BY <2>1, <2>3 DEF RowOK, LowOK, FactRow, Days, NoDate
  <2> QED BY <2>1, <2>4 DEF Current, LowOK, GrownTo
<1> QED BY <1>1, ConfidenceInvariant, PTL

\* Above what callers gave it, a fact is worth one growth per repeat or merge and
\* one per cooldown, however many near restatements overlap and however many
\* copies are written back whole (corroborateCooldown).
THEOREM EchoesBounded == ConfidenceSpec => []GrowthIsEarned
<1>1. ConfidenceInv => GrowthIsEarned
  <2> SUFFICES ASSUME ConfidenceInv, NEW f \in Facts
               PROVE  GrownTo(vouched[f], fact[f].conf, growths[f] + (day - fact[f].made) \div Cooldown)
    BY DEF GrowthIsEarned, GrownTo
  <2> DEFINE r == fact[f]  v == vouched[f]  g == growths[f]
             p == (day - r.made) \div Cooldown
  <2>1. r \in FactRow /\ day \in Nat /\ g \in Nat /\ v \in Percent
    BY Types
  <2>2. r.made \in Nat /\ r.conf \in Percent \cup {Untracked}
    BY <2>1 DEF FactRow, Days, Percent
  <2>3. r.made <= day
    BY <2>1, <2>2 DEF ConfidenceInv, RowsOK, RowOK, Nothing, FactRow, Days
  <2>4. CASE r.conf = Untracked
    <3>1. day - r.made \in Nat
      BY <2>1, <2>2, <2>3
    <3>2. p \in Nat
      BY <3>1, Quotient, ConfidenceAssumption
    <3> HIDE DEF p
    <3>3. g + p \in Nat /\ r.conf \in Int /\ r.conf <= v
      BY <2>1, <2>4, <3>2 DEF Untracked, Percent
    <3> HIDE DEF r, v, g
    <3>4. GrownTo(v, r.conf, g + p)
      BY <2>1, <3>3, EarnedGiven
    <3> QED BY <3>4 DEF r, v, g, p
  <2>5. CASE r.conf # Untracked
    <3>1. /\ r.upd \in Nat /\ r.made <= r.upd /\ r.upd <= day /\ r.conf \in Percent
          /\ GrownTo(v, r.conf, g + (r.upd - r.made) \div Cooldown)
      BY <2>1, <2>2, <2>5 DEF ConfidenceInv, RowsOK, RowOK, Nothing, FactRow, Days
    <3> HIDE DEF r, v, g, p
    <3>2. GrownTo(v, r.conf, g + (day - r.made) \div Cooldown)
      BY <2>1, <2>2, <3>1, CooldownPays
    <3> QED BY <3>2 DEF r, v, g
  <2> QED BY <2>4, <2>5
<1> QED BY <1>1, ConfidenceInvariant, PTL

\* The episodic tier and an expiry go together (Retier, Reinforce, resolveExpiry).
THEOREM ExpiryWithTier == ConfidenceSpec => []ExpiryFollowsTier
<1>1. ConfidenceInv => ExpiryFollowsTier
  <2> SUFFICES ASSUME ConfidenceInv, NEW f \in Facts, fact[f].tier # "none"
               PROVE  fact[f].tier = "episodic" <=> fact[f].exp # NoDate
    BY DEF ExpiryFollowsTier
  <2> QED BY StoredRow DEF RowOK
<1> QED BY <1>1, ConfidenceInvariant, PTL

\* A recall takes a fact off the demoter's hands, unless it was already listed
\* (demote.go:36).
THEOREM RecallsCount == ConfidenceSpec => RecalledNotDemoted
<1>1. ConfidenceInv /\ [ConfidenceNext]_confidenceVars =>
        [\A f \in Facts : fact[f].tier = "durable" /\ fact'[f].tier = "episodic"
             /\ f \in demoter.left \ demoter'.left => f \notin known \/ f \in excused]_confidenceVars
  BY DEF ConfidenceInv, UsesOK
<1> QED BY <1>1, ConfidenceInvariant, PTL DEF ConfidenceSpec, RecalledNotDemoted
=============================================================================
