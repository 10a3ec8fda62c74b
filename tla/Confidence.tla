----------------------------- MODULE Confidence -----------------------------
(***************************************************************************)
(* What a durable fact is believed to be worth.                            *)
(*                                                                         *)
(* A fact starts with little confidence.  Restatements grow it: a write    *)
(* near it at most once per cooldown, a repeat the write path folds and a  *)
(* merge by the LLM each time.  A newer contradicting write closes it and  *)
(* pulls the confidence down; time decays it when it is read; a fact       *)
(* nobody recalls is demoted to the expiring tier.  All of these read the  *)
(* row, decide, and write later, an absolute value or the whole row.       *)
(* Deleting rows is left to Retention.                                     *)
(*                                                                         *)
(* Code: internal/service/service.go (corroborateNearestAsync,             *)
(* contradictNearestAsync, invalidate, fingerprintHit, dedupCheck,         *)
(* dedupLLMMerge, Remember), consolidate.go, repair_enrich.go, update.go,  *)
(* internal/maintenance/demote.go and dedup.go, internal/memory/types.go   *)
(* and the statements of internal/store/sqlitevec/store.go.  Confidence is *)
(* in hundredths, rounded down; one tick of the clock is any fixed span;   *)
(* the two reads of an edit, nothing between them, are one.                *)
(***************************************************************************)
EXTENDS Integers, FiniteSets

CONSTANTS
    Facts,         \* durable facts
    Jobs,          \* background jobs, edits and merges in flight
    Seeds,         \* initial confidences: the defaults, one a richer copy inherits
    Given,         \* confidences callers give with an edit
    Cooldown,      \* corroborateCooldown and contradictCooldown
    Grace,         \* ticks before decay sets in
    DecayPerTick,  \* confidence lost per tick after that
    DemoteAfter,   \* age without an update at which a fact may be demoted
    DemotedTTL,    \* TTL of the episodic tier
    MaxDay,        \* bound: ticks of the clock
    MaxUses,       \* bound: recalls counted per fact
    MaxJobs        \* bound: jobs started

ConfFloor == 5      \* confidenceFloor
DemoteFloor == 35   \* ConfidenceDemoteFloor
SeedFresh == 40     \* ConfidenceSeedFresh

ASSUME ConfidenceAssumption ==
    /\ Facts # {} /\ Seeds \subseteq ConfFloor .. 100 /\ Given \subseteq 0 .. 100
    /\ Cooldown \in Nat \ {0} /\ Grace \in Nat /\ DecayPerTick \in Nat
    /\ DemoteAfter \in Nat /\ DemotedTTL \in Nat \ {0}
    /\ MaxDay \in Nat /\ MaxUses \in Nat \ {0} /\ MaxJobs \in Nat

VARIABLES
    fact,      \* the rows of the facts
    day,       \* the clock
    job,       \* jobs: what each has read, and how far it is
    demoter,   \* the demotion stage of the sweeper: its `now' and its list
    started,   \* jobs started
    growths,   \* history: repeats and merges that grew each fact
    vouched,   \* history: the highest confidence a write has given each fact
    convicted, \* history: facts invalidated, and not since written over by one who
               \*   had read the row before, or given their confidence or metadata
    regrown,   \* history: merges that grew each fact knowing it invalidated
    known,     \* history: facts recalled and not since written over without it
    excused    \* history: facts recalled while the demoter held them

confHistories == <<growths, vouched, convicted, regrown, known, excused>>
confidenceVars == <<fact, day, job, demoter, started, growths, vouched, convicted, regrown,
                   known, excused>>

NoDate == -1
Untracked == -1     \* a row from before confidence was tracked
Days == 0 .. MaxDay

Nothing == [tier |-> "none", conf |-> Untracked, made |-> 0, upd |-> 0, last |-> 0,
            acc |-> 0, vto |-> NoDate, exp |-> NoDate, bad |-> FALSE]
FactRow == [tier : {"none", "durable", "episodic"}, conf : 0 .. 100 \cup {Untracked},
            made : Days, upd : Days, last : Days, acc : 0 .. MaxUses,
            vto : Days \cup {NoDate}, exp : Nat \cup {NoDate}, bad : BOOLEAN]

\* `knew', a history: the fact was convicted when the job read it.
NoJob == [kind |-> "none", step |-> "read", of |-> CHOOSE f \in Facts : TRUE, seen |-> Nothing,
          knew |-> FALSE]
JobRow == [kind : {"none", "near", "exact", "contradict", "edit", "merge", "rewrite"},
           step : {"read", "reinforced"}, of : Facts, seen : FactRow, knew : BOOLEAN]
NoPass == [on |-> FALSE, now |-> 0, left |-> {}]

ConfidenceTypeOK ==
    /\ fact \in [Facts -> FactRow]
    /\ day \in Days
    /\ job \in [Jobs -> JobRow]
    /\ demoter \in [on : BOOLEAN, now : Days, left : SUBSET Facts]
    /\ started \in 0 .. MaxJobs
    /\ growths \in [Facts -> Nat] /\ regrown \in [Facts -> Nat]
    /\ vouched \in [Facts -> 0 .. 100]
    /\ convicted \in SUBSET Facts /\ known \in SUBSET Facts /\ excused \in SUBSET Facts

ConfidenceInit ==
    /\ fact = [f \in Facts |-> Nothing]
    /\ day = 0
    /\ job = [j \in Jobs |-> NoJob]
    /\ demoter = NoPass
    /\ started = 0
    /\ growths = [f \in Facts |-> 0] /\ regrown = [f \in Facts |-> 0]
    /\ vouched = [f \in Facts |-> 0]
    /\ convicted = {} /\ known = {} /\ excused = {}

-----------------------------------------------------------------------------
(***************************************************************************)
(* Confidence arithmetic.                                                  *)
(***************************************************************************)
Larger(a, b) == IF a > b THEN a ELSE b
Smaller(a, b) == IF a < b THEN a ELSE b

Grow(c) == c + (100 - c) \div 10

\* clampConfidence.
Clamped(c) == Larger(10, Smaller(c, 70))

Decay(c, age) ==
    IF age <= Grace THEN c ELSE Larger(ConfFloor, c - DecayPerTick * (age - Grace))

\* EffectiveConfidence: decayed since the last update or recall; a short-term
\* row and an untracked one count as fully trusted.
Effective(r, t) ==
    IF r.tier # "durable" \/ r.conf = Untracked THEN 100
    ELSE Decay(r.conf, t - Larger(r.upd, r.last))

\* 0.9 * ConfidenceSeedFresh / (1 + ln(1 + uses)), in hundredths.
Ceiling(uses) == CASE uses = 0 -> 36 [] uses = 1 -> 21 [] uses = 2 -> 17 [] OTHER -> 15

\* The confidence after n growths of c.
GrowN(c, n) == LET g[k \in 0 .. n] == IF k = 0 THEN c ELSE Grow(g[k - 1]) IN g[n]

Current(r, t) ==
    /\ r.tier # "none" /\ (r.exp = NoDate \/ r.exp > t)
    /\ r.vto = NoDate \/ r.vto > t

\* What the nearest-fact lookups list: live durable rows.
Candidate(f) == fact[f].tier = "durable" /\ Current(fact[f], day)

-----------------------------------------------------------------------------
(***************************************************************************)
(* Writes, recalls, time.                                                  *)
(***************************************************************************)
NextDay ==
    /\ day < MaxDay
    /\ day' = day + 1
    /\ UNCHANGED <<fact, job, demoter, started, confHistories>>

\* A fresh durable write; Untracked is a row of an older release.
NewFact(f, seed) ==
    /\ fact[f] = Nothing
    /\ fact' = [fact EXCEPT ![f] = [Nothing EXCEPT !.tier = "durable", !.conf = seed,
                                    !.made = day, !.upd = day, !.last = day]]
    /\ vouched' = [vouched EXCEPT ![f] = Larger(@, seed)]
    /\ UNCHANGED <<day, job, demoter, started, growths, convicted, regrown, known, excused>>

\* Reinforce: durable rows have no TTL to slide; a demoted one gets its tier's.
Used(r, t) ==
    [r EXCEPT !.acc = Smaller(@ + 1, MaxUses), !.last = t,
              !.exp = IF @ = NoDate THEN @ ELSE t + DemotedTTL]

RecallFact(f) ==
    /\ Current(fact[f], day) /\ fact[f].acc < MaxUses
    /\ fact' = [fact EXCEPT ![f] = Used(@, day)]
    /\ known' = known \cup {f}
    /\ excused' = excused \cup ({f} \cap demoter.left)
    /\ UNCHANGED <<day, job, demoter, started, growths, vouched, convicted, regrown>>

-----------------------------------------------------------------------------
(***************************************************************************)
(* Jobs: they begin by reading the row, and write from what they read.     *)
(***************************************************************************)
Start(j, f, kind, row) ==
    /\ job[j] = NoJob /\ started < MaxJobs
    /\ started' = started + 1
    /\ job' = [job EXCEPT ![j] = [kind |-> kind, step |-> "read", of |-> f, seen |-> row,
                                  knew |-> f \in convicted]]
    /\ UNCHANGED <<fact, day, demoter, confHistories>>

Cooled(since) == day - since >= Cooldown

\* corroborateNearestAsync: the cooldown runs from the last update.
Restate(j, f) == Candidate(f) /\ Cooled(fact[f].upd) /\ Start(j, f, "near", fact[f])

\* reinforceCorroborateAsync: a write with the same fingerprint, or one the dedup
\* gate or its replay by a repair folds into the fact.  No cooldown.
Repeat(j, f) == Candidate(f) /\ Start(j, f, "exact", fact[f])

\* contradictNearestAsync: the cooldown runs from the creation of the fact, and
\* untracked rows are never penalised.
Contradict(j, f) ==
    /\ Candidate(f) /\ fact[f].conf # Untracked /\ Cooled(fact[f].made)
    /\ Start(j, f, "contradict", fact[f])

\* Update and Remember with the id read the row they will write back.
BeginEdit(j, f) == fact[f] # Nothing /\ Start(j, f, "edit", fact[f])

\* applyUpdate, asyncUpdate: the Get of the target the LLM has named, a candidate
\* when it was listed and whatever it has become since.
BeginMerge(j, f) == fact[f] # Nothing /\ Start(j, f, "merge", fact[f])

\* The merges that grow nothing (dedupLLMMerge, mergeCluster), the links of a new
\* memory and the promoter's stamp: some of them take the row for updated.
BeginRewrite(j, f) ==
    /\ fact[f] # Nothing
    /\ \E t \in {fact[f].upd, day} : Start(j, f, "rewrite", [fact[f] EXCEPT !.upd = t])

JobReinforces(j) ==
    LET f == job[j].of IN
    /\ job[j].kind \in {"near", "exact"} /\ job[j].step = "read"
    /\ job' = [job EXCEPT ![j].step = "reinforced"]
    /\ fact' = [fact EXCEPT ![f] = [Used(@, day) EXCEPT !.exp = fact[f].exp]]
    /\ known' = known \cup {f}
    /\ excused' = excused \cup ({f} \cap demoter.left)
    /\ UNCHANGED <<day, demoter, started, growths, vouched, convicted, regrown>>

\* Mutation of Open: the statement has no guard.
AnyRow(r) == TRUE

\* SetConfidence skips rows whose validity is closed.
Open(r) == r.vto = NoDate \/ r.vto > day

\* Mutation of Grown: the growth is applied to the stored value.
GrownInPlace(stored, seen) == [stored EXCEPT !.conf = Grow(stored.conf), !.upd = day]

\* The value written: one growth of what the job read, decayed to now.
Grown(stored, seen) == [stored EXCEPT !.conf = Grow(Effective(seen, day)), !.upd = day]

JobGrows(j) ==
    LET f == job[j].of IN
    /\ job[j].step = "reinforced"
    /\ job' = [job EXCEPT ![j] = NoJob]
    /\ IF job[j].seen.conf # Untracked /\ Open(fact[f])
         THEN /\ fact' = [fact EXCEPT ![f] = Grown(@, job[j].seen)]
              /\ growths' = [growths EXCEPT ![f] = IF job[j].kind = "exact" THEN @ + 1 ELSE @]
         ELSE UNCHANGED <<fact, growths>>
    /\ UNCHANGED <<day, demoter, started, vouched, convicted, regrown, known, excused>>

\* MarkContradicted, with invalidate's target.
JobInvalidates(j) ==
    LET f == job[j].of
        low == Smaller(Effective(job[j].seen, day), Ceiling(job[j].seen.acc)) IN
    /\ job[j].kind = "contradict"
    /\ job' = [job EXCEPT ![j] = NoJob]
    /\ fact' = [fact EXCEPT ![f].conf = low, ![f].upd = day, ![f].bad = TRUE,
                            ![f].vto = IF @ = NoDate THEN day ELSE @]
    /\ convicted' = convicted \cup {f}
    /\ UNCHANGED <<day, demoter, started, growths, vouched, regrown, known, excused>>

\* Upsert of the whole row.  With the copy come back the mark and the recalls the
\* job had read; a caller who gives the confidence, or the metadata and with it no
\* mark, overrules an invalidation.
WriteBack(j, row, overruled) ==
    LET f == job[j].of IN
    /\ job' = [job EXCEPT ![j] = NoJob]
    /\ fact' = [fact EXCEPT ![f] = row]
    /\ convicted' = IF job[j].knew /\ ~overruled THEN convicted ELSE convicted \ {f}
    /\ known' = IF row.acc = 0 THEN known \ {f} ELSE known
    /\ UNCHANGED <<day, demoter, started, excused>>

\* The edit's row: in the tier and with the confidence the caller gives, else
\* those read; Update passes the confidence it read through the clamp, and
\* Remember (whole) does not.
Edited(old, tier, given, whole) ==
    [old EXCEPT !.tier = tier, !.acc = 0, !.upd = day, !.last = day, !.bad = @ /\ ~whole,
                !.exp = IF tier = "episodic" THEN day + DemotedTTL ELSE NoDate,
                !.conf = CASE tier = "episodic" -> Untracked
                           [] tier # "episodic" /\ given # Untracked -> Clamped(given)
                           [] OTHER -> IF whole \/ @ = Untracked THEN @ ELSE Clamped(@)]

JobEdits(j, tier, given, whole) ==
    LET f == job[j].of IN
    /\ job[j].kind = "edit"
    /\ WriteBack(j, Edited(job[j].seen, tier, given, whole), whole \/ given # Untracked)
    /\ vouched' = [vouched EXCEPT ![f] = Larger(@, Clamped(given))]
    /\ UNCHANGED <<growths, regrown>>

\* The merge's row: grown when it is a tracked durable fact, closed or not.
JobMerges(j) ==
    LET f == job[j].of  old == job[j].seen
        grows == old.tier = "durable" /\ old.conf # Untracked IN
    /\ job[j].kind = "merge"
    /\ WriteBack(j, IF grows THEN Grown(old, old) ELSE [old EXCEPT !.upd = day], FALSE)
    /\ growths' = [growths EXCEPT ![f] = IF grows THEN @ + 1 ELSE @]
    /\ regrown' = [regrown EXCEPT ![f] = IF grows /\ job[j].knew THEN @ + 1 ELSE @]
    /\ UNCHANGED vouched

JobRewrites(j) ==
    /\ job[j].kind = "rewrite"
    /\ WriteBack(j, job[j].seen, FALSE)
    /\ UNCHANGED <<growths, vouched, regrown>>

\* A lookup or store error, or the job's budget: it is dropped as it stands.
JobDrops(j) ==
    /\ job[j] # NoJob
    /\ job' = [job EXCEPT ![j] = NoJob]
    /\ UNCHANGED <<fact, day, demoter, started, confHistories>>

\* Mutation of Unused: recalls do not count.
NeverMind(r) == TRUE

-----------------------------------------------------------------------------
(***************************************************************************)
(* DemoteStale.                                                            *)
(***************************************************************************)
Unused(r) == r.acc = 0

Stale(r, t) ==
    /\ r.tier = "durable" /\ Current(r, t)
    /\ Unused(r)
    /\ r.upd < t - DemoteAfter
    /\ Effective(r, t) < DemoteFloor

ListStale ==
    /\ ~demoter.on
    /\ demoter' = [on |-> TRUE, now |-> day, left |-> {f \in Facts : Stale(fact[f], day)}]
    /\ UNCHANGED <<fact, day, job, started, confHistories>>

\* Mutation of Demoted: the expiry is not set.
DemotedForever(r) == [r EXCEPT !.tier = "episodic"]

\* Retier: tier and expiry, whatever the row has become since.
Demoted(r) == [r EXCEPT !.tier = "episodic", !.exp = demoter.now + DemotedTTL]

DemoteOne(f) ==
    /\ f \in demoter.left
    /\ demoter' = [demoter EXCEPT !.left = @ \ {f}]
    /\ fact' = [fact EXCEPT ![f] = Demoted(@)]
    /\ UNCHANGED <<day, job, started, confHistories>>

\* The list is done, or a store error ends the stage.
EndDemote ==
    /\ demoter.on
    /\ demoter' = NoPass
    /\ excused' = {}
    /\ UNCHANGED <<fact, day, job, started, growths, vouched, convicted, regrown, known>>

ConfidenceNext ==
    \/ NextDay \/ ListStale \/ EndDemote
    \/ \E f \in Facts : \/ \E seed \in Seeds \cup {Untracked} : NewFact(f, seed)
                        \/ RecallFact(f) \/ DemoteOne(f)
    \/ \E j \in Jobs : \/ \E f \in Facts : \/ Restate(j, f) \/ Repeat(j, f)
                                           \/ Contradict(j, f) \/ BeginEdit(j, f)
                                           \/ BeginMerge(j, f) \/ BeginRewrite(j, f)
                       \/ \E tier \in {"durable", "episodic"}, whole \in BOOLEAN,
                            given \in Given \cup {Untracked} : JobEdits(j, tier, given, whole)
                       \/ JobReinforces(j) \/ JobGrows(j) \/ JobInvalidates(j)
                       \/ JobMerges(j) \/ JobRewrites(j) \/ JobDrops(j)

ConfidenceSpec == ConfidenceInit /\ [][ConfidenceNext]_confidenceVars

-----------------------------------------------------------------------------
(***************************************************************************)
(* Properties.                                                             *)
(***************************************************************************)

\* An invalidated fact keeps the mark, stays closed, and regains confidence only
\* by the merges of an LLM that found it invalidated, whatever corroborations,
\* recalls, edits and rewrites were under way; unless a writer that had read the
\* row before the invalidation wrote it back whole, or a caller gave its
\* confidence or its metadata (MarkContradicted, SetConfidence's guard).
InvalidatedStaysDown ==
    \A f \in convicted : /\ fact[f].bad /\ fact[f].vto # NoDate /\ ~Current(fact[f], day)
                        /\ fact[f].conf <= GrowN(Ceiling(0), regrown[f])

\* Confidence is earned: above what callers gave a fact, near restatements,
\* however many and however they overlap, grow it by one step per cooldown, and
\* each repeat or merge by one; copies written back whole add nothing
\* (corroborateCooldown, corroborate's absolute write).
GrowthIsEarned ==
    \A f \in Facts :
        fact[f].conf <= GrowN(vouched[f], growths[f] + (day - fact[f].made) \div Cooldown)

\* The expiring tier and an expiry go together: demotion, edits, recalls and
\* corroborations in flight never leave a durable row that expires or a
\* demoted one that does not (Retier, Reinforce, resolveExpiry).
ExpiryFollowsTier ==
    \A f \in Facts : fact[f].tier # "none" => (fact[f].tier = "episodic" <=> fact[f].exp # NoDate)

\* A fact recalled even once, and not since written over by an edit (which resets
\* the count) or a copy that had no recall, is not demoted, unless the recall came
\* after the pass had listed it (demote.go:36).
RecalledNotDemoted ==
    [][\A f \in Facts : fact[f].tier = "durable" /\ fact'[f].tier = "episodic"
          /\ f \in demoter.left \ demoter'.left => f \notin known \/ f \in excused]_confidenceVars
=============================================================================
