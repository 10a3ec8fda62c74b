------------------------------- MODULE ReadSets -------------------------------
(***************************************************************************)
(* Which namespaces a read may see, and which tiers of each                *)
(* (internal/service/readset.go).                                          *)
(*                                                                         *)
(* A namespace is a path.  By default a read covers its own namespace, its *)
(* subtree on demand, and through the cascade the ancestors, the home of   *)
(* the caller and the stored links, of which only durable tiers are shown. *)
(* A request may list its namespaces instead.  The set is cut to a maximal *)
(* length at the end.  One action per stage; the answers of the store and  *)
(* the request are chosen when it begins.                                  *)
(***************************************************************************)
EXTENDS Integers, Sequences, FiniteSets

CONSTANTS
    Segments,    \* segments of paths
    Depth,       \* bound: segments of a path
    MaxEntries,  \* readSetMaxEntries
    MaxLinks,    \* bound: links of a namespace
    MaxListed    \* bound: namespaces a request lists (readSetMaxExplicit)

ASSUME ReadSetAssumption ==
    /\ IsFiniteSet(Segments) /\ Depth \in Nat \ {0} /\ MaxEntries \in Nat \ {0}
    /\ MaxLinks \in Nat /\ MaxListed \in Nat

VARIABLES
    request,  \* the request and what the store holds
    stage,    \* what is resolved next
    legs      \* the entries so far: namespace, tiers

readSetVars == <<request, stage, legs>>

Paths == UNION {[1 .. n -> Segments] : n \in 1 .. Depth}
NoPath == <<>>
Durable == {"semantic", "procedural"}
AllTiers == Durable \cup {"episodic"}

\* A leg that keeps the tiers of the request (nil in the code).
Unrestricted == {"any"}

\* The tiers a request or a link names; none named means all.
TierFilters == {{}, {"semantic"}, {"semantic", "episodic"}, {"episodic"}}

Linked == {s \in SUBSET Paths : Cardinality(s) <= MaxLinks}
Lists == UNION {[1 .. n -> Paths \X BOOLEAN] : n \in 1 .. MaxListed}

\* Scopes are project (bare), full and everywhere (subtree).
ReadRequests ==
    [primary : Paths, home : Paths \cup {NoPath}, scope : {"project", "full", "everywhere"},
     tiers : TierFilters, stored : SUBSET Paths, links : UNION {[s -> TierFilters] : s \in Linked},
     cascade : BOOLEAN, list : Lists \cup {<<>>}]
Legs == [ns : Paths, tiers : SUBSET (AllTiers \cup Unrestricted)]

ReadSetTypeOK ==
    /\ request \in ReadRequests
    /\ stage \in {"names", "ancestors", "home", "links", "protect", "clamp", "done"}
    /\ legs \in Seq(Legs)

ReadSetInit ==
    /\ \E primary \in Paths, stored \in {Paths, {p \in Paths : Len(p) = 1}} :
         \/ \E home \in Paths \cup {NoPath}, scope \in {"project", "full", "everywhere"},
               tiers \in TierFilters, linked \in Linked, cascade \in BOOLEAN :
               \E links \in [linked -> TierFilters] :
                 request = [primary |-> primary, home |-> home, scope |-> scope, tiers |-> tiers,
                            stored |-> stored, links |-> links, cascade |-> cascade, list |-> <<>>]
         \/ \E list \in Lists :
              request = [primary |-> primary, home |-> NoPath, scope |-> "full", tiers |-> {},
                         stored |-> stored, links |-> <<>>, cascade |-> TRUE, list |-> list]
    /\ stage = "names"
    /\ legs = <<>>

Leg(ns, tiers) == [ns |-> ns, tiers |-> tiers]
LegsOf(ids, tiers) == [k \in DOMAIN ids |-> Leg(ids[k], tiers)]
Names(s) == {s[k].ns : k \in DOMAIN s}

\* ns is in the subtree of root.
Below(ns, root) == Len(root) < Len(ns) /\ SubSeq(ns, 1, Len(root)) = root

\* The store lists namespaces in order; any order of them will do here.
Listing(S) == CHOOSE f \in [1 .. Cardinality(S) -> S] : \A x \in S : \E k \in DOMAIN f : f[k] = x

Under(root) == Listing({ns \in request.stored : Below(ns, root)})

\* durableTiers of the request.
GT == IF request.tiers = {} THEN Durable ELSE request.tiers \cap Durable

\* Mutation of AddEntry: a later leg replaces the tiers of an earlier one.
AddEntryNarrowing(s, leg) ==
    IF leg.ns \in Names(s)
      THEN [k \in DOMAIN s |-> IF s[k].ns = leg.ns THEN leg ELSE s[k]]
      ELSE Append(s, leg)

\* addEntry: only an unrestricted leg widens one that is there.
AddEntry(s, leg) ==
    IF leg.ns \in Names(s)
      THEN [k \in DOMAIN s |-> IF s[k].ns = leg.ns /\ leg.tiers = Unrestricted THEN leg ELSE s[k]]
      ELSE Append(s, leg)

AddAll(s, new) ==
    LET f[k \in 0 .. Len(new)] == IF k = 0 THEN s ELSE AddEntry(f[k - 1], new[k])
    IN  f[Len(new)]

-----------------------------------------------------------------------------
(***************************************************************************)
(* The default path.                                                       *)
(***************************************************************************)
Subtree ==
    /\ stage = "names" /\ request.list = <<>>
    /\ legs' = <<Leg(request.primary, Unrestricted)>>
               \o IF request.scope = "everywhere"
                    THEN LegsOf(Under(request.primary), Unrestricted) ELSE <<>>
    /\ stage' = IF request.scope = "project" \/ ~request.cascade \/ GT = {}
                  THEN "clamp" ELSE "ancestors"
    /\ UNCHANGED request

\* ancestorsOf: nearest first.
AncestorsOf(ns) == [k \in 1 .. Len(ns) - 1 |-> SubSeq(ns, 1, Len(ns) - k)]

Ancestors ==
    /\ stage = "ancestors"
    /\ legs' = AddAll(legs, LegsOf(AncestorsOf(request.primary), GT))
    /\ stage' = "home"
    /\ UNCHANGED request

Home ==
    /\ stage = "home"
    /\ legs' = IF request.home = NoPath THEN legs ELSE AddEntry(legs, Leg(request.home, GT))
    /\ stage' = "links"
    /\ UNCHANGED request

\* intersectDurableTiers.
LinkTiers(named) == IF named = {} THEN GT ELSE GT \cap named

Links ==
    /\ stage = "links"
    /\ LET used == Listing({ns \in DOMAIN request.links : LinkTiers(request.links[ns]) # {}})
       IN legs' = AddAll(legs, [k \in DOMAIN used |-> Leg(used[k], LinkTiers(request.links[used[k]]))])
    /\ stage' = "protect"
    /\ UNCHANGED request

\* The entry of ns moves up to a place, the others keep their order.
MovedUp(s, ns, to) ==
    LET at == CHOOSE k \in DOMAIN s : s[k].ns = ns /\ \A j \in 1 .. k - 1 : s[j].ns # ns
    IN  [k \in DOMAIN s |-> IF k = to THEN s[at] ELSE IF to < k /\ k <= at THEN s[k - 1] ELSE s[k]]

\* Mutation of Protected: nothing is moved to the front.
Unprotected(s, ns) == s

\* promoteProtected: an entry that the cut could drop moves behind the primary.
Protected(s, ns) ==
    IF Len(s) <= MaxEntries \/ ns \notin Names(s) \/ s[1].ns = ns THEN s ELSE MovedUp(s, ns, 2)

Protect ==
    /\ stage = "protect"
    /\ legs' = Protected(legs, request.home)
    /\ stage' = "clamp"
    /\ UNCHANGED request

-----------------------------------------------------------------------------
(***************************************************************************)
(* The explicit path, and the end of both.                                 *)
(***************************************************************************)
Expand(entry) ==
    <<Leg(entry[1], Unrestricted)>>
    \o IF entry[2] THEN LegsOf(Under(entry[1]), Unrestricted) ELSE <<>>

Explicit ==
    /\ stage = "names" /\ request.list # <<>>
    /\ legs' = LET f[k \in 0 .. Len(request.list)] ==
                     IF k = 0 THEN <<>> ELSE AddAll(f[k - 1], Expand(request.list[k]))
               IN  f[Len(request.list)]
    /\ stage' = "clamp"
    /\ UNCHANGED request

PrimaryFirst(s) == IF request.primary \in Names(s) THEN MovedUp(s, request.primary, 1) ELSE s

Clamp ==
    /\ stage = "clamp"
    /\ legs' = LET s == PrimaryFirst(legs)
               IN SubSeq(s, 1, IF Len(s) > MaxEntries THEN MaxEntries ELSE Len(s))
    /\ stage' = "done"
    /\ UNCHANGED request

ReadSetNext == Subtree \/ Ancestors \/ Home \/ Links \/ Protect \/ Explicit \/ Clamp

ReadSetSpec == ReadSetInit /\ [][ReadSetNext]_readSetVars

-----------------------------------------------------------------------------
(***************************************************************************)
(* Properties.                                                             *)
(***************************************************************************)
Own(ns) == ns = request.primary \/ (request.scope = "everywhere" /\ ns \in request.stored
                                    /\ Below(ns, request.primary))
Cascades == request.scope # "project" /\ request.cascade

\* The tiers of a namespace the request grants, by the definition of the read
\* set rather than by its construction.
Granted(ns) ==
    IF request.list # <<>>
      THEN IF \E k \in DOMAIN request.list :
                 \/ request.list[k][1] = ns
                 \/ request.list[k][2] /\ ns \in request.stored /\ Below(ns, request.list[k][1])
             THEN Unrestricted ELSE {}
    ELSE IF Own(ns) THEN Unrestricted
    ELSE IF ~Cascades THEN {}
    ELSE IF Below(request.primary, ns) \/ ns = request.home THEN GT
    ELSE IF ns \in DOMAIN request.links THEN LinkTiers(request.links[ns])
    ELSE {}

\* A read set holds what the request, the ancestors, the home and the links
\* grant, each namespace once and with the widest of its grants, and nothing
\* short-term of another namespace unless it is listed or in the subtree
\* ("only semantic/procedural cross a namespace boundary").
ReadSetExact ==
    /\ \A j, k \in DOMAIN legs : legs[j].ns = legs[k].ns => j = k
    /\ \A k \in DOMAIN legs : legs[k].tiers = Granted(legs[k].ns)
    /\ stage \in {"protect", "clamp"} => Names(legs) = {ns \in Paths : Granted(ns) # {}}

\* The cut spares the namespace of the request, which comes first, and the home
\* of the caller on the cascade, and drops nothing when all fits
\* (promoteProtected, primaryFirst).
CutSpares ==
    stage = "done" =>
        /\ request.list = <<>> => legs[1].ns = request.primary
        /\ Granted(request.primary) # {} => request.primary \in Names(legs)
        /\ Cascades /\ GT # {} /\ request.home # NoPath /\ MaxEntries > 1
             => request.home \in Names(legs)
        /\ \/ Len(legs) = MaxEntries
           \/ Names(legs) = {ns \in Paths : Granted(ns) # {}}
=============================================================================
