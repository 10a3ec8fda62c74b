------------------------------ MODULE IndexDebt ------------------------------
(***************************************************************************)
(* What the deferred-repair queue promises, with no worker, lease, attempt *)
(* or embedder in sight: every stored memory is indexed (has its vector)   *)
(* or is owed a repair; a debt is forgotten only once it is paid, and an   *)
(* index entry disappears only with its text.                              *)
(*                                                                         *)
(* It is the contract written above store.RepairStore and at the top of    *)
(* internal/service/repair.go ("a degraded write loses nothing but time"). *)
(***************************************************************************)
CONSTANTS Ids, Texts, None

VARIABLES
    text,     \* the text each id holds, or None
    indexed,  \* the id's vector is stored
    owed      \* the store knows that a repair is owed

debtVars == <<text, indexed, owed>>

Set(i, t, x, o) ==
    /\ text' = [text EXCEPT ![i] = t]
    /\ indexed' = [indexed EXCEPT ![i] = x]
    /\ owed' = [owed EXCEPT ![i] = o]

Init ==
    /\ text \in [Ids -> Texts \cup {None}]
    /\ indexed = [i \in Ids |-> FALSE]
    /\ owed = [i \in Ids |-> text[i] # None]

\* A text is there with its vector: a healthy write brought both, or a repair
\* brought the vector.  Only then may the debt be settled.
Pay(i, t) == \E o \in BOOLEAN : Set(i, t, TRUE, o)

\* A degraded write: only a text the row does not hold may arrive unindexed.
Borrow(i, t) == t # text[i] /\ Set(i, t, FALSE, TRUE)

Remove(i) == Set(i, None, FALSE, FALSE)

\* A sweep may put any stored memories back on the queue.
Sweep(S) ==
    /\ \A i \in S : text[i] # None
    /\ owed' = [i \in Ids |-> owed[i] \/ i \in S]
    /\ UNCHANGED <<text, indexed>>

Next ==
    \/ \E i \in Ids, t \in Texts : Pay(i, t) \/ Borrow(i, t)
    \/ \E i \in Ids : Remove(i)
    \/ \E S \in SUBSET Ids : Sweep(S)

Spec == Init /\ [][Next]_debtVars
=============================================================================
