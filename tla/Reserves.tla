------------------------------- MODULE Reserves -------------------------------
(***************************************************************************)
(* Which candidates of a recall are moved up past their score              *)
(* (internal/service/service.go: reserveDurableTiers, search.Dedup,        *)
(* reserveImportantPool).                                                  *)
(*                                                                         *)
(* Of the candidates in the order of their score, up to `reserve' durable  *)
(* ones are promoted into the first `limit' places, and after duplicates   *)
(* are dropped, up to `reserve' important ones into the reranker's pool    *)
(* behind them.  A candidate is promoted over the last one that may go if  *)
(* its score is high enough beside that one's and the best one's.          *)
(*                                                                         *)
(* Scores are small integers; the gate is the default one, a half of the   *)
(* entry evicted and two fifths of the best.  One action per candidate of  *)
(* each walk.                                                              *)
(***************************************************************************)
EXTENDS Integers, Sequences, FiniteSets

CONSTANTS
    Scores,      \* scores of candidates
    MaxRanked,   \* bound: candidates
    MaxTwins,    \* bound: candidates with the text of a better one
    Quotas       \* limit (k), reserve (of either kind) and poolSize

ASSUME ReserveAssumption ==
    /\ Scores \subseteq Nat /\ MaxRanked \in Nat /\ MaxTwins \in Nat
    /\ Quotas # {}
    /\ \A q \in Quotas : /\ q.limit \in Nat \ {0} /\ q.reserve \in Nat
                         /\ q.pool \in Nat /\ q.pool > q.limit

VARIABLES
    ranked,   \* the candidates by descending score
    quota,    \* the parameters of the call
    phase,    \* "durable", "dedup", "important" or "ranked"
    order,    \* the candidates, as indices of `ranked', in the order the phase was given
    selected, \* the indices the durable reserve has selected for the window
    out,      \* the order as the important reserve has changed it
    next      \* the index the walk looks at

reserveVars == <<ranked, quota, phase, order, selected, out, next>>

Traits == {"plain", "durable", "important"}

\* A text is named by the best candidate that has it.
Texts(n) == {t \in [1 .. n -> 1 .. n] :
               /\ \A i \in 1 .. n : t[i] <= i /\ t[t[i]] = t[i]
               /\ Cardinality({i \in 1 .. n : t[i] # i}) <= MaxTwins}

Candidates == [score : Scores, trait : Traits, text : Nat]

ReserveTypeOK ==
    /\ ranked \in Seq(Candidates) /\ quota \in Quotas
    /\ phase \in {"durable", "dedup", "important", "ranked"}
    /\ order \in Seq(DOMAIN ranked) /\ selected \in SUBSET DOMAIN ranked /\ out \in Seq(DOMAIN ranked)
    /\ next \in Nat \ {0}

ReserveInit ==
    /\ \E n \in 0 .. MaxRanked :
         \E score \in [1 .. n -> Scores], trait \in [1 .. n -> Traits], text \in Texts(n) :
            /\ \A i, j \in 1 .. n : i < j => score[i] >= score[j]
            /\ ranked = [i \in 1 .. n |-> [score |-> score[i], trait |-> trait[i], text |-> text[i]]]
    /\ quota \in Quotas
    /\ phase = "durable"
    /\ order = [i \in 1 .. Len(ranked) |-> i]
    /\ selected = {i \in 1 .. Len(ranked) : i <= quota.limit}
    /\ out = <<>>
    /\ next = quota.limit + 1

Shows(trait, i) == ranked[i].trait = trait
Score(i) == ranked[i].score
Few(trait, s, n) == Cardinality({i \in s : Shows(trait, i)}) < n
First(s, n) == SubSeq(s, 1, IF n < Len(s) THEN n ELSE Len(s))
Places(s) == {s[k] : k \in DOMAIN s}

\* The members of a set of numbers in ascending order.
Ascending(S) == [k \in 1 .. Cardinality(S) |-> CHOOSE i \in S : Cardinality({j \in S : j < i}) = k - 1]

\* The last of the places `at' of s whose candidate does not show the trait.
Evicted(e, trait, s, at) ==
    /\ e \in at /\ ~Shows(trait, s[e])
    /\ \A l \in at : l > e => Shows(trait, s[l])

\* Mutation of Earns: only the best candidate counts.
EarnsByTop(i, evicted, best) == 5 * Score(i) >= 2 * Score(best)

\* The bar: ratio of the evicted, and anchor of the best.
Earns(i, evicted, best) ==
    2 * Score(i) >= Score(evicted) /\ 5 * Score(i) >= 2 * Score(best)

-----------------------------------------------------------------------------
(***************************************************************************)
(* reserveDurableTiers                                                     *)
(***************************************************************************)
WantsDurable ==
    /\ phase = "durable" /\ next <= Len(ranked)
    /\ Few("durable", selected, IF quota.reserve > quota.limit THEN quota.limit ELSE quota.reserve)

\* i may take the place of e.
MayPromote(i, e) == Evicted(e, "durable", order, selected \cap 1 .. quota.limit) /\ Earns(i, e, 1)

SkipDurable ==
    /\ WantsDurable /\ ~Shows("durable", next)
    /\ next' = next + 1
    /\ UNCHANGED <<ranked, quota, phase, order, selected, out>>

PromoteDurable ==
    /\ WantsDurable /\ Shows("durable", next)
    /\ \E e \in selected :
         /\ MayPromote(next, e)
         /\ selected' = (selected \ {e}) \cup {next}
    /\ next' = next + 1
    /\ UNCHANGED <<ranked, quota, phase, order, out>>

\* The promoted come right behind the first of the window, the rest follows.
Composed ==
    LET window == Ascending(selected \cap 1 .. quota.limit)
        promoted == Ascending(selected \ 1 .. quota.limit)
        rest == Ascending(DOMAIN ranked \ selected)
    IN First(window, 1) \o promoted \o SubSeq(window, 2, Len(window)) \o rest

EndDurable ==
    /\ phase = "durable"
    /\ WantsDurable => Shows("durable", next) /\ \A e \in selected : ~MayPromote(next, e)
    /\ order' = Composed
    /\ phase' = "dedup"
    /\ UNCHANGED <<ranked, quota, selected, out, next>>

-----------------------------------------------------------------------------
(***************************************************************************)
(* Dedup, and reserveImportantPool.                                        *)
(***************************************************************************)
DropDuplicates ==
    /\ phase = "dedup"
    /\ LET kept == Ascending({k \in DOMAIN order : \A l \in 1 .. k - 1 :
                                 ranked[order[l]].text # ranked[order[k]].text})
       IN order' = [p \in DOMAIN kept |-> order[kept[p]]]
    /\ out' = order'
    /\ phase' = "important"
    /\ next' = quota.pool + 1
    /\ UNCHANGED <<ranked, quota, selected>>

WantsImportant ==
    /\ phase = "important" /\ next <= Len(out)
    /\ Few("important", Places(First(out, quota.pool)), quota.reserve)

\* The first limit places are never given up.
Band == quota.limit + 1 .. quota.pool

MaySwap(i, e) == Evicted(e, "important", out, Band) /\ Earns(out[i], out[e], out[1])

SkipImportant ==
    /\ WantsImportant /\ ~Shows("important", out[next])
    /\ next' = next + 1
    /\ UNCHANGED <<ranked, quota, phase, order, selected, out>>

SwapImportant ==
    /\ WantsImportant /\ Shows("important", out[next])
    /\ \E e \in Band :
         /\ MaySwap(next, e)
         /\ out' = [out EXCEPT ![e] = out[next], ![next] = out[e]]
    /\ next' = next + 1
    /\ UNCHANGED <<ranked, quota, phase, order, selected>>

EndImportant ==
    /\ phase = "important"
    /\ WantsImportant => Shows("important", out[next]) /\ \A e \in Band : ~MaySwap(next, e)
    /\ phase' = "ranked"
    /\ UNCHANGED <<ranked, quota, order, selected, out, next>>

ReserveNext ==
    \/ SkipDurable \/ PromoteDurable \/ EndDurable \/ DropDuplicates
    \/ SkipImportant \/ SwapImportant \/ EndImportant

ReserveSpec == ReserveInit /\ [][ReserveNext]_reserveVars

-----------------------------------------------------------------------------
(***************************************************************************)
(* Property.                                                               *)
(***************************************************************************)
\* Those `now' have that those `before' have not show the trait, and any of
\* them would have earned the place of any that made room.
Earned(trait, before, now) ==
    \A i \in now \ before, e \in before \ now :
        Shows(trait, i) /\ ~Shows(trait, e) /\ 2 * Score(i) >= Score(e)

\* A walk stops at the first candidate under the bar and compares each with one
\* evicted entry only; still, of all it promoted, none is under the bar of any
\* it evicted.  The durable reserve loses no candidate and keeps the best one
\* first, unless it may take the whole window.  The pool of the reranker has no
\* text twice and begins with what is served when the reranker does not answer
\* (reserveImportantPool: "the [0, k) prefix is never touched").
PromotionsAreEarned ==
    /\ phase = "dedup" =>
         /\ Earned("durable", DOMAIN ranked \cap 1 .. quota.limit, Places(First(order, quota.limit)))
         /\ Places(order) = DOMAIN ranked /\ Len(order) = Len(ranked)
         /\ quota.reserve < quota.limit /\ ranked # <<>> => order[1] = 1
    /\ phase = "ranked" =>
         /\ First(out, quota.limit) = First(order, quota.limit)
         /\ Earned("important", Places(First(order, quota.pool)), Places(First(out, quota.pool)))
         /\ \A k, l \in DOMAIN out : ranked[out[k]].text = ranked[out[l]].text => k = l
=============================================================================
