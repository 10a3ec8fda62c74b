------------------------------ MODULE Retention ------------------------------
(***************************************************************************)
(* How long a short-term memory lives.                                     *)
(*                                                                         *)
(* Each write gives a row an expiry, each recall slides it later in the    *)
(* background, the sweeper purges what has expired, evicts what exceeds    *)
(* the capacity and collects old tombstones, and the promoter moves what   *)
(* is recalled often to the longer-lived tier, writing back the whole row  *)
(* it listed at the start of its pass.  Edits by id and the merges of the  *)
(* LLM read a row, wait for the embedder and write the whole row.  None of *)
(* them holds a lock across its reads and writes.                          *)
(*                                                                         *)
(* Code: internal/maintenance/maintenance.go and tombstone.go,             *)
(* internal/service/promote.go, service.go, update.go and dedup.go, the    *)
(* statements of internal/store/sqlitevec/store.go.  Time is counted in    *)
(* ticks; a batch of the promoter is never split (promoteBatch), the       *)
(* ranking behind an eviction is any choice, since it depends on           *)
(* exponentials of age, and a memory stays in the short-term tiers.        *)
(***************************************************************************)
EXTENDS Integers, FiniteSets

CONSTANTS
    Mems,              \* memory ids
    WorkingTTL,        \* Tier.DefaultTTL of the working tier
    EpisodicTTL,       \* Tier.DefaultTTL of the episodic tier
    CustomTTLs,        \* positive TTL overrides callers use; a negative one means none
    ShortTermCap,      \* short-term memories a namespace may hold
    TombstoneTTL,      \* age at which a tombstone is collected
    PromoteMinAccess,  \* recalls that earn promotion
    PurgeBatch,        \* purgeBatch: expired rows fetched per round
    Writes,            \* tier, TTL override and valid_to of the fresh writes
    Rewrites,          \* the same of the writes that give the id
    MaxTime,           \* bound: ticks of the clock
    MaxRequests        \* bound: writes, recalls and other requests

ASSUME RetentionAssumption ==
    /\ WorkingTTL \in Nat \ {0} /\ EpisodicTTL \in Nat /\ WorkingTTL <= EpisodicTTL
    /\ CustomTTLs \subseteq Nat \ {0}
    /\ ShortTermCap \in Nat \ {0} /\ TombstoneTTL \in Nat \ {0}
    /\ PromoteMinAccess \in Nat \ {0} /\ PurgeBatch \in Nat \ {0}
    /\ MaxTime \in Nat /\ MaxRequests \in Nat

VARIABLES
    mem,      \* the memories table
    clock,    \* the time of day
    slides,   \* per id: the reinforcement a recall has queued, or NoSlide
    sweep,    \* the sweeper: its stage, its `now', the ids still to visit
    tick,     \* the promoter: its phase, its `now', its listing, what is left
    drafts,   \* per id: what the writer that has read the row will write, or NoDraft
    requests, \* requests made
    used,     \* history: the ids rows have had
    promise,  \* history: what the last recall gave, while it stands
    late,     \* history: ids reinforced since the promoter listed them
    outdated, \* history: ids reinforced since the writer of their draft read them
    raised,   \* history: ids made live while the sweeper held them as tombstones
    forgot    \* history: ids deleted on request, and those some writer still held

requestVars == <<clock, slides, drafts, requests>>
histories == <<used, promise, late, outdated, raised, forgot>>
retentionVars == <<mem, clock, slides, sweep, tick, drafts, requests, used, promise,
                  late, outdated, raised, forgot>>

Never == -1
NoSlide == -2
DefaultTTL == 0
Times == 0 .. MaxTime
Lifetimes == {DefaultTTL, Never} \cup CustomTTLs
Tiers == {"working", "episodic"}
Inputs == [tier : Tiers, ttl : Lifetimes, end : Nat \cup {Never}]

ASSUME InputAssumption == Writes \subseteq Inputs /\ Rewrites \subseteq Inputs

\* No row of this id.  `ttl' is the override recorded in the metadata, 0 for
\* none; `asked', a history, is the one the request that wrote the row gave.
Blank == [tier |-> "none", exp |-> Never, acc |-> 0, ttl |-> DefaultTTL, sup |-> FALSE,
          vto |-> Never, promoted |-> FALSE, asked |-> DefaultTTL]
MemRow == [tier : Tiers \cup {"none"}, exp : Nat \cup {Never}, acc : 0 .. PromoteMinAccess,
           ttl : Lifetimes, sup : BOOLEAN, vto : Nat \cup {Never}, promoted : BOOLEAN,
           asked : Lifetimes]

\* A writer between its read and its write: an edit, which gives the row a new
\* expiry, or a merge, which does not.
Draft == [kind : {"none", "edit", "merge"}, row : MemRow]
NoDraft == [kind |-> "none", row |-> Blank]

\* The expiry a recall gave, and the lifetime it slid the row by.
Promise == [exp : Nat \cup {Never}, by : Nat]
NoPromise == [exp |-> Never, by |-> 0]

Stages == {"idle", "purge", "cap", "tomb"}
Asleep == [at |-> "idle", now |-> 0, left |-> {}, more |-> FALSE]
Resting == [at |-> "idle", now |-> 0, list |-> [i \in Mems |-> Blank], left |-> {}]

RetentionTypeOK ==
    /\ mem \in [Mems -> MemRow]
    /\ clock \in Times
    /\ slides \in [Mems -> Int]
    /\ sweep \in [at : Stages, now : Times, left : SUBSET Mems, more : BOOLEAN]
    /\ tick \in [at : {"idle", "retier", "stamp"}, now : Times,
                 list : [Mems -> MemRow], left : SUBSET Mems]
    /\ drafts \in [Mems -> Draft]
    /\ promise \in [Mems -> Promise]
    /\ requests \in 0 .. MaxRequests
    /\ used \in SUBSET Mems /\ late \in SUBSET Mems /\ outdated \in SUBSET Mems
    /\ raised \in SUBSET Mems
    /\ forgot \in [Mems -> {"no", "yes", "held"}]

RetentionInit ==
    /\ mem = [i \in Mems |-> Blank]
    /\ clock = 0
    /\ slides = [i \in Mems |-> NoSlide]
    /\ sweep = Asleep
    /\ tick = Resting
    /\ drafts = [i \in Mems |-> NoDraft]
    /\ promise = [i \in Mems |-> NoPromise]
    /\ requests = 0
    /\ used = {} /\ late = {} /\ outdated = {} /\ raised = {}
    /\ forgot = [i \in Mems |-> "no"]

Here(i) == mem[i].tier # "none"
Expired(r, t) == r.exp # Never /\ r.exp <= t

\* The default filter: not expired, not superseded, still valid.
Alive(r, t) ==
    /\ r.tier # "none" /\ ~Expired(r, t)
    /\ ~r.sup /\ (r.vto = Never \/ r.vto > t)

TierTTL(tier) == IF tier = "working" THEN WorkingTTL ELSE EpisodicTTL

\* resolveExpiry: an override wins, and a negative one disables expiry.
Lifetime(tier, ttl) == IF ttl = DefaultTTL THEN TierTTL(tier) ELSE ttl
ResolveExpiry(t, tier, ttl) == IF ttl < 0 THEN Never ELSE t + Lifetime(tier, ttl)

\* reinforceTTL: the positive override recorded at write time, else the tier's.
ReinforceTTL(r) == IF r.ttl > 0 THEN r.ttl ELSE TierTTL(r.tier)

\* A row is written: live, perhaps, under the hands of the sweeper.
Raising(i) == IF sweep.at = "tomb" THEN raised \cup ({i} \cap sweep.left) ELSE raised

\* What a recall gave is void once a write puts back an expiry from before it, or
\* gives the row a lifetime shorter than the one the recall slid it by.
Voided(i, stale, life) ==
    IF stale \/ promise[i].by > life THEN [promise EXCEPT ![i] = NoPromise] ELSE promise

-----------------------------------------------------------------------------
(***************************************************************************)
(* Requests.                                                               *)
(***************************************************************************)
ClockTick ==
    /\ clock < MaxTime
    /\ clock' = clock + 1
    /\ UNCHANGED <<mem, slides, drafts, requests, sweep, tick, histories>>

Request == requests < MaxRequests /\ requests' = requests + 1

\* What a request writes that gives the metadata whole.
AsGiven(in) ==
    [Blank EXCEPT !.tier = in.tier, !.vto = in.end, !.asked = in.ttl,
                  !.ttl = IF in.ttl > 0 THEN in.ttl ELSE DefaultTTL,
                  !.exp = ResolveExpiry(clock, in.tier, in.ttl)]

\* A fresh write; a new memory gets an id no row has had.
Remember(i, in) ==
    /\ Request
    /\ i \notin used
    /\ used' = used \cup {i}
    /\ mem' = [mem EXCEPT ![i] = AsGiven(in)]
    /\ UNCHANGED <<clock, slides, drafts, sweep, tick, promise, late, outdated, raised, forgot>>

\* A recall returns the row and queues its reinforcement, with the lifetime the
\* row had when it was read (at most one queued per id: a bound).
Recall(i) ==
    /\ Request
    /\ Alive(mem[i], clock) /\ slides[i] = NoSlide
    /\ slides' = [slides EXCEPT ![i] = ReinforceTTL(mem[i])]
    /\ UNCHANGED <<mem, clock, drafts, sweep, tick, histories>>

\* The statement of Reinforce: rows without an expiry never get one.
Reinforced(r, e) ==
    [r EXCEPT !.acc = IF @ < PromoteMinAccess THEN @ + 1 ELSE @,
              !.exp = IF @ # Never THEN e ELSE @]

\* Mutation of Reinforce: an upsert.
ReinforceUpserts(i) ==
    /\ slides[i] # NoSlide
    /\ slides' = [slides EXCEPT ![i] = NoSlide]
    /\ mem' = [mem EXCEPT ![i] = [Reinforced(@, clock + slides[i]) EXCEPT !.tier = "working"]]
    /\ UNCHANGED <<clock, drafts, requests, sweep, tick, histories>>

Reinforce(i) ==
    /\ slides[i] # NoSlide
    /\ slides' = [slides EXCEPT ![i] = NoSlide]
    /\ IF Here(i)
         THEN LET r == Reinforced(mem[i], clock + slides[i]) IN
              /\ mem' = [mem EXCEPT ![i] = r]
              /\ promise' = [promise EXCEPT ![i] = [exp |-> r.exp, by |-> slides[i]]]
              /\ late' = late \cup {i} /\ outdated' = outdated \cup {i}
         ELSE UNCHANGED <<mem, promise, late, outdated>>
    /\ UNCHANGED <<clock, drafts, requests, sweep, tick, used, raised, forgot>>

\* The store refuses, or the job's budget runs out.
ReinforceFails(i) ==
    /\ slides[i] # NoSlide
    /\ slides' = [slides EXCEPT ![i] = NoSlide]
    /\ UNCHANGED <<mem, clock, drafts, requests, sweep, tick, histories>>

SupersedeMem(i) ==
    /\ Request
    /\ Here(i)
    /\ mem' = [mem EXCEPT ![i].sup = TRUE, ![i].vto = IF @ = Never THEN clock ELSE @]
    /\ UNCHANGED <<clock, slides, drafts, sweep, tick, histories>>

RestoreMem(i) ==
    /\ Request
    /\ mem[i].sup
    /\ mem' = [mem EXCEPT ![i].sup = FALSE, ![i].vto = Never]
    /\ raised' = Raising(i)
    /\ UNCHANGED <<clock, slides, drafts, sweep, tick, used, promise, late, outdated, forgot>>

\* Who has read the row and may write it back.
Holding(i) == tick.list[i] # Blank \/ drafts[i] # NoDraft

\* Forget deletes the row whatever its state.
ForgetMem(i) ==
    /\ Request
    /\ Here(i)
    /\ mem' = [mem EXCEPT ![i] = Blank]
    /\ promise' = [promise EXCEPT ![i] = NoPromise]
    /\ forgot' = [forgot EXCEPT ![i] = IF Holding(i) THEN "held" ELSE "yes"]
    /\ UNCHANGED <<clock, slides, drafts, sweep, tick, used, late, outdated, raised>>

-----------------------------------------------------------------------------
(***************************************************************************)
(* Writers that read the row, wait for the embedder and write it whole (at *)
(* most one under way per id: a bound).                                    *)
(***************************************************************************)
Read(i, kind, r) ==
    /\ Request
    /\ drafts[i] = NoDraft
    /\ drafts' = [drafts EXCEPT ![i] = [kind |-> kind, row |-> r]]
    /\ outdated' = outdated \ {i}
    /\ UNCHANGED <<mem, clock, slides, sweep, tick, promise, late, raised>>

\* Update: tier and metadata carry over unless they are given, a TTL cannot be.
\* Recalls are counted anew, and the row replaces whatever superseded it.
ReadUpdate(i, tier) ==
    /\ Here(i)
    /\ Read(i, "edit", [mem[i] EXCEPT !.tier = tier, !.acc = 0, !.sup = FALSE,
                                      !.asked = DefaultTTL])
    /\ UNCHANGED <<used, forgot>>

\* Remember with an id: of the row there is, if any, only the validity is kept.
ReadRemember(i, in) ==
    /\ Read(i, "edit", AsGiven([in EXCEPT !.end = IF @ = Never THEN mem[i].vto ELSE @]))
    /\ used' = used \cup {i}
    /\ forgot' = [forgot EXCEPT ![i] = IF @ = "yes" THEN "held" ELSE @]

\* The merges of the dedup gate and of the dedup pass.
ReadMerge(i) == Here(i) /\ Read(i, "merge", mem[i]) /\ UNCHANGED <<used, forgot>>

Resolved(d) ==
    IF d.kind = "edit" THEN [d.row EXCEPT !.exp = ResolveExpiry(clock, d.row.tier, d.row.asked)]
                       ELSE d.row

\* Upsert of the draft, inserted when the row is gone.
WriteDraft(i) ==
    LET d == drafts[i] IN
    /\ d # NoDraft
    /\ drafts' = [drafts EXCEPT ![i] = NoDraft]
    /\ mem' = [mem EXCEPT ![i] = Resolved(d)]
    /\ promise' = IF d.kind = "merge" THEN Voided(i, i \in outdated, promise[i].by)
                  ELSE IF d.row.asked < 0 THEN promise
                  ELSE Voided(i, FALSE, Lifetime(d.row.tier, d.row.asked))
    /\ raised' = Raising(i)
    /\ forgot' = [forgot EXCEPT ![i] = IF @ = "held" THEN "no" ELSE @]
    /\ UNCHANGED <<clock, slides, requests, sweep, tick, used, late, outdated>>

\* The embedder or the store fails, or the caller is gone.
DraftFails(i) ==
    /\ drafts[i] # NoDraft
    /\ drafts' = [drafts EXCEPT ![i] = NoDraft]
    /\ UNCHANGED <<mem, clock, slides, requests, sweep, tick, histories>>

-----------------------------------------------------------------------------
(***************************************************************************)
(* The sweeper.  A stage lists its rows in one read and then deletes them  *)
(* one statement at a time; a store error abandons the stage, and the next *)
(* one still runs.                                                         *)
(***************************************************************************)
Batches(s) == {b \in SUBSET s : Cardinality(b) = IF Cardinality(s) < PurgeBatch
                                                   THEN Cardinality(s) ELSE PurgeBatch}

\* ListExpired, at most PurgeBatch rows; a full batch asks for another one.
ListExpired(t) ==
    \E b \in Batches({i \in Mems : Here(i) /\ Expired(mem[i], t)}) :
        sweep' = [at |-> "purge", now |-> t, left |-> b, more |-> Cardinality(b) = PurgeBatch]

SweepBegin ==
    /\ sweep.at = "idle"
    /\ ListExpired(clock)
    /\ UNCHANGED <<mem, requestVars, tick, histories>>

PurgeMore ==
    /\ sweep.at = "purge" /\ sweep.left = {} /\ sweep.more
    /\ ListExpired(sweep.now)
    /\ UNCHANGED <<mem, requestVars, tick, histories>>

\* Mutation of StillExpired: the listing is trusted.
TrustListing(i) == Here(i)

\* DeleteIfExpiredBefore: the expiry is tested again by the delete.
StillExpired(i) == Here(i) /\ Expired(mem[i], sweep.now)

Visit(i, hit) ==
    /\ i \in sweep.left
    /\ sweep' = [sweep EXCEPT !.left = @ \ {i}]
    /\ mem' = IF hit THEN [mem EXCEPT ![i] = Blank] ELSE mem
    /\ promise' = IF mem'[i] = Blank THEN [promise EXCEPT ![i] = NoPromise] ELSE promise
    /\ UNCHANGED <<requestVars, tick, used, late, outdated, raised, forgot>>

PurgeOne(i) == sweep.at = "purge" /\ Visit(i, StillExpired(i))

\* EnforceShortTermCap: the lowest-ranked rows over the cap, of those the
\* default filter lists; its clock is the time of the read, not sweep.now.
Excess ==
    LET short == {i \in Mems : Alive(mem[i], clock)}
    IN {v \in SUBSET short : Cardinality(v) = IF Cardinality(short) > ShortTermCap
                                                THEN Cardinality(short) - ShortTermCap ELSE 0}

CapList ==
    /\ sweep.at = "purge" /\ sweep.left = {} /\ ~sweep.more
    /\ \E v \in Excess : sweep' = [sweep EXCEPT !.at = "cap", !.left = v]
    /\ UNCHANGED <<mem, requestVars, tick, histories>>

CapOne(i) == sweep.at = "cap" /\ Visit(i, Here(i))

\* PurgeTombstones: superseded rows whose valid_to lies before now - TombstoneTTL.
Collectable(i) ==
    mem[i].sup /\ mem[i].vto < sweep.now - TombstoneTTL

TombList ==
    /\ sweep.at = "cap" /\ sweep.left = {}
    /\ sweep' = [sweep EXCEPT !.at = "tomb", !.left = {i \in Mems : Collectable(i)}]
    /\ UNCHANGED <<mem, requestVars, tick, histories>>

TombOne(i) == sweep.at = "tomb" /\ Visit(i, Here(i))

SweepFails ==
    /\ sweep.at # "idle" /\ sweep.left # {}
    /\ sweep' = [sweep EXCEPT !.left = {}, !.more = FALSE]
    /\ UNCHANGED <<mem, requestVars, tick, histories>>

SweepEnd ==
    /\ sweep.at = "tomb" /\ sweep.left = {}
    /\ sweep' = Asleep
    /\ raised' = {}
    /\ UNCHANGED <<mem, requestVars, tick, used, promise, late, outdated, forgot>>

-----------------------------------------------------------------------------
(***************************************************************************)
(* The promoter.  One listing, then one whole-row write per promoted row:  *)
(* first the move to the episodic tier, then the promoted_at stamp.        *)
(***************************************************************************)
Promotable(r) == r.acc >= PromoteMinAccess

PromoteBegin ==
    /\ tick.at = "idle"
    /\ LET list == [i \in Mems |-> IF Alive(mem[i], clock) THEN mem[i] ELSE Blank] IN
       tick' = [at |-> "retier", now |-> clock, list |-> list,
                left |-> {i \in Mems : list[i].tier = "working" /\ Promotable(list[i])}]
    /\ late' = {}
    /\ UNCHANGED <<mem, requestVars, sweep, used, promise, outdated, raised, forgot>>

\* Mutations of Retiered: the expiry is cleared, as for a durable tier; a TTL of
\* zero is taken literally.
RetieredForGood(r) == [r EXCEPT !.tier = "episodic", !.exp = Never]
RetieredAtOnce(r) == [r EXCEPT !.tier = "episodic", !.exp = tick.now]

\* retierWorkingToEpisodic: the listed row in its new tier.
Retiered(r) == [r EXCEPT !.tier = "episodic", !.exp = tick.now + EpisodicTTL]

\* Upsert of a listed row: inserted when the row is gone, replaced when not.
\* The store may refuse it; the listed copy has changed all the same.
WriteListed(i, r, step) ==
    /\ tick.at = step /\ i \in tick.left
    /\ tick' = [tick EXCEPT !.left = @ \ {i}, !.list[i] = r]
    /\ \/ /\ mem' = [mem EXCEPT ![i] = r]
          /\ promise' = Voided(i, i \in late, EpisodicTTL)
          /\ raised' = Raising(i)
          /\ forgot' = [forgot EXCEPT ![i] = IF @ = "held" THEN "no" ELSE @]
       \/ UNCHANGED <<mem, promise, raised, forgot>>
    /\ UNCHANGED <<requestVars, sweep, used, late, outdated>>

RetierOne(i) == WriteListed(i, Retiered(tick.list[i]), "retier")

\* The embedder does not answer for this row: nothing of it changes.
RetierSkips(i) ==
    /\ tick.at = "retier" /\ i \in tick.left
    /\ tick' = [tick EXCEPT !.left = @ \ {i}]
    /\ UNCHANGED <<mem, requestVars, sweep, histories>>

StampBegin ==
    /\ tick.at = "retier" /\ tick.left = {}
    /\ tick' = [tick EXCEPT !.at = "stamp",
                 !.left = {i \in Mems : Promotable(tick.list[i]) /\ ~tick.list[i].promoted}]
    /\ UNCHANGED <<mem, requestVars, sweep, histories>>

StampOne(i) ==
    WriteListed(i, [tick.list[i] EXCEPT !.promoted = TRUE], "stamp")

\* All sources are stamped, or the batch could not be embedded.
PromoteEnd ==
    /\ tick.at = "stamp"
    /\ tick' = Resting
    /\ UNCHANGED <<mem, requestVars, sweep, histories>>

Requests(i) ==
    \/ \E in \in Writes : Remember(i, in)
    \/ \E in \in Rewrites : ReadRemember(i, in)
    \/ \E tier \in Tiers : ReadUpdate(i, tier)
    \/ ReadMerge(i) \/ WriteDraft(i) \/ DraftFails(i)
    \/ Recall(i) \/ Reinforce(i) \/ ReinforceFails(i)
    \/ SupersedeMem(i) \/ RestoreMem(i) \/ ForgetMem(i)

Sweeping ==
    \/ SweepBegin \/ PurgeMore \/ CapList \/ TombList \/ SweepFails \/ SweepEnd
    \/ \E i \in Mems : PurgeOne(i) \/ CapOne(i) \/ TombOne(i)

Promoting ==
    \/ PromoteBegin \/ StampBegin \/ PromoteEnd
    \/ \E i \in Mems : RetierOne(i) \/ RetierSkips(i) \/ StampOne(i)

RetentionNext == ClockTick \/ Sweeping \/ Promoting \/ \E i \in Mems : Requests(i)

RetentionSpec == RetentionInit /\ [][RetentionNext]_retentionVars

-----------------------------------------------------------------------------
(***************************************************************************)
(* Properties.                                                             *)
(***************************************************************************)

\* Every short-term row expires unless the request that wrote it asked for no
\* expiry, through slides, retiers, merges and write-backs of rows edited or
\* deleted in between (DefaultTTL, resolveExpiry, Reinforce's CASE,
\* retierWorkingToEpisodic).
ShortTermExpires ==
    \A i \in Mems : Here(i) /\ mem[i].asked >= 0 => mem[i].exp # Never

\* What a recall gave stands until a write gives the row a lifetime shorter than
\* the one the recall slid it by: only a promoter pass or a merge that read the
\* row before the recall takes it back (Reinforce, the Upserts of promote.go,
\* service.go and dedup.go).
RecallExtends ==
    \A i \in Mems : Here(i) /\ promise[i].exp # Never =>
        mem[i].exp = Never \/ promise[i].exp <= mem[i].exp

\* A live memory is deleted only on request, by the capacity cap, or by the
\* collection of a tombstone that was made live after the sweeper listed it; the
\* purge never takes one a recall or an edit has slid (DeleteIfExpiredBefore).
LiveLost ==
    [][\A i \in Mems : Alive(mem[i], clock) /\ mem'[i] = Blank =>
          \/ forgot'[i] # "no" \/ sweep.at = "cap" \/ i \in raised]_retentionVars

\* A forgotten memory comes back only through a writer that had read the row
\* before it was deleted (promoter, edit, merge), or a request that stores the id
\* anew: no reinforcement, sweep or restore recreates a row.
ForgottenStaysGone ==
    \A i \in Mems : forgot[i] = "yes" => mem[i] = Blank
==============================================================================
