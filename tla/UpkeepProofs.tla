---------------------------- MODULE UpkeepProofs ----------------------------
(***************************************************************************)
(* Proofs about what one request computes (Splitting, ReadSets, Reserves), *)
(* and about the composition of the parts of MCUpkeep, which share no      *)
(* state.                                                                  *)
(***************************************************************************)
EXTENDS MCUpkeep, MemoryProofs, AccessProofs, RenamesProofs

(***************************************************************************)
(* Splitting, for texts, windows, overlaps and caps of any size.  The next *)
(* part begins at or before the last cut, so nothing lies between them;    *)
(* and it begins after the previous part did, so its window reaches past   *)
(* the last cut, which the floor keeps it from cutting again.  Trimming    *)
(* takes nothing but blanks, so a letter after the last cut is in the next *)
(* part, which then ends past all before it.                               *)
(***************************************************************************)

PartType == [first : Nat, end : Nat, cut : Nat]

\* A part ends at or before its cut, and the last part is the last one cut.
InOrder(ps, last) ==
    \A k \in DOMAIN ps :
        /\ ps[k].end <= ps[k].cut /\ ps[k].cut <= last
        /\ ps[k].cut <= ps[Len(ps)].cut

\* Where the next part begins and ends, relative to the last cut.
CutSound ==
    split = "cutting" =>
        /\ from <= prevCut /\ prevCut < from + config.size
        /\ prevCut = 0 \/ prevCut < Length
        /\ InOrder(parts, prevCut)

SplitInv == SplitTypeOK /\ CutSound /\ NothingSkipped /\ EachPartGains

-----------------------------------------------------------------------------
LEMMA SeparatorFacts ==
    ASSUME NEW k \in DOMAIN Separators
    PROVE  Len(Separators[k]) \in {1, 2}
<1>1. k \in {1, 2, 3}
  BY DEF Separators
<1>2. CASE k = 1
  BY <1>2 DEF Separators
<1>3. CASE k = 2
  BY <1>3 DEF Separators
<1>4. CASE k = 3
  BY <1>4 DEF Separators
<1> QED
  BY <1>1, <1>2, <1>3, <1>4

LEMMA SplitTypes ==
    ASSUME SplitTypeOK
    PROVE  /\ from \in Nat /\ prevCut \in Nat /\ Length \in Nat
           /\ config.size \in Nat \ {0} /\ Overlap \in Nat
           /\ parts \in Seq(PartType)
<1>1. config.size \in Nat \ {0} /\ config.overlap \in Nat
  BY SplitAssumption DEF SplitTypeOK
<1>2. \A s \in Nat : s \div 2 \in Nat
  OBVIOUS
<1>3. Overlap \in Nat
  BY <1>1, <1>2 DEF Overlap
<1>4. Length \in Nat
  BY DEF SplitTypeOK, Length
<1> QED
  BY <1>1, <1>3, <1>4 DEF SplitTypeOK, PartType

\* A separator is found inside the window and ends past the floor.
CutRange(k, end, floor) ==
    (IF floor - Len(Separators[k]) > from THEN floor - Len(Separators[k]) ELSE from) + 1
        .. end - Len(Separators[k])

LEMMA HitsRange == \A k, end, floor, i : i \in Hits(k, end, floor) => i \in CutRange(k, end, floor)
  BY Zenon DEF Hits, CutRange

LEMMA ElementFacts ==
    ASSUME NEW S, NEW q \in Seq(S)
    PROVE  \A k \in DOMAIN q : q[k] \in S
  OBVIOUS

\* A cut lies inside the window and past the previous one (boundary's floor).
LEMMA BoundaryFacts ==
    ASSUME SplitTypeOK, CutSound, split = "cutting",
           NEW cut \in Nat, Boundary(from + config.size, cut)
    PROVE  from < cut /\ prevCut < cut /\ cut <= from + config.size
<1>1. /\ from \in Nat /\ prevCut \in Nat /\ config.size \in Nat \ {0}
      /\ prevCut < from + config.size
  BY SplitTypes DEF CutSound
<1>2. CASE cut = from + config.size
  BY <1>1, <1>2
<1>3. CASE \E k \in DOMAIN Separators : \E i \in Hits(k, from + config.size, Floor) :
             cut = i + Len(Separators[k])
  <2>a. PICK k \in DOMAIN Separators : \E i \in Hits(k, from + config.size, Floor) :
          cut = i + Len(Separators[k])
    BY <1>3
  <2>1. PICK i \in Hits(k, from + config.size, Floor) : cut = i + Len(Separators[k])
    BY <2>a
  <2> DEFINE n == Len(Separators[k])
             low == IF prevCut - n > from THEN prevCut - n ELSE from
  <2>2. n \in {1, 2}
    BY SeparatorFacts
  <2>3. i \in low + 1 .. from + config.size - n /\ cut = i + n
    <3>1. i \in Hits(k, from + config.size, prevCut)
      BY <2>1 DEF Floor
    <3>2. i \in CutRange(k, from + config.size, prevCut)
      BY ONLY <3>1, HitsRange
    <3> QED
      BY <1>1, <2>1, <2>2, <3>2 DEF CutRange
  <2> HIDE DEF n
  <2>4. low \in Int /\ low >= prevCut - n /\ low >= from
    BY <1>1, <2>2
  <2> HIDE DEF low
  <2> QED
    BY <1>1, <2>2, <2>3, <2>4
<1> QED
  BY <1>2, <1>3 DEF Boundary

\* The next part begins past the last one and at or before the cut.
LEMMA ResumeFacts ==
    ASSUME SplitTypeOK, NEW cut \in Nat, from < cut
    PROVE  Resume(cut) \in Nat /\ from < Resume(cut) /\ Resume(cut) <= cut
  BY SplitTypes DEF Resume

\* The part that is cut at e, if the text since from is not blank, is the last
\* one, and has every letter of that text.
LEMMA EmitFacts ==
    ASSUME SplitTypeOK, NEW e \in Nat, Emit(e)
    PROVE  /\ parts' \in Seq(PartType)
           /\ \/ parts' = parts /\ OnlySpaces(from, e)
              \/ \E x \in PartType :
                   /\ DOMAIN parts' = 1 .. Len(parts) + 1 /\ DOMAIN parts = 1 .. Len(parts)
                   /\ Len(parts) \in Nat /\ Len(parts') = Len(parts) + 1
                   /\ \A k \in DOMAIN parts : parts'[k] = parts[k]
                   /\ parts'[Len(parts) + 1] = x
                   /\ from <= x.first /\ x.first < x.end /\ x.end <= e /\ x.cut = e
                   /\ \A p \in from .. e - 1 : At(p) = "x" => x.first <= p /\ p < x.end
<1>1. from \in Nat /\ parts \in Seq(PartType)
  BY SplitTypes
<1>2. CASE OnlySpaces(from, e) /\ parts' = parts
  BY <1>1, <1>2
<1>3. ASSUME NEW a \in from .. e - 1, NEW b \in from .. e - 1,
             At(a) = "x", OnlySpaces(from, a), At(b) = "x", OnlySpaces(b + 1, e),
             parts' = Append(parts, [first |-> a, end |-> b + 1, cut |-> e])
      PROVE  \E x \in PartType :
               /\ parts' \in Seq(PartType)
               /\ DOMAIN parts' = 1 .. Len(parts) + 1 /\ DOMAIN parts = 1 .. Len(parts)
               /\ Len(parts) \in Nat /\ Len(parts') = Len(parts) + 1
               /\ \A k \in DOMAIN parts : parts'[k] = parts[k]
               /\ parts'[Len(parts) + 1] = x
               /\ from <= x.first /\ x.first < x.end /\ x.end <= e /\ x.cut = e
               /\ \A p \in from .. e - 1 : At(p) = "x" => x.first <= p /\ p < x.end
  <2> DEFINE x == [first |-> a, end |-> b + 1, cut |-> e]
  <2>1. a \in Nat /\ b \in Nat /\ from <= a /\ b + 1 <= e
    BY <1>1, <1>3
  <2>2. ASSUME NEW p \in from .. e - 1, At(p) = "x"
        PROVE  a <= p /\ p < b + 1
    <3>1. p \notin from .. a - 1
      BY <1>3, <2>2 DEF OnlySpaces
    <3>2. p \notin b + 1 .. e - 1
      BY <1>3, <2>2 DEF OnlySpaces
    <3> QED
      BY <1>1, <2>1, <2>2, <3>1, <3>2
  <2>3. a < b + 1
    BY <1>1, <1>3, <2>1, <2>2
  <2>4. /\ x \in PartType /\ parts' = Append(parts, x)
        /\ x.first = a /\ x.end = b + 1 /\ x.cut = e
    BY <1>3, <2>1 DEF PartType
  <2> HIDE DEF x
  <2> DEFINE T == PartType
  <2>5. parts \in Seq(T) /\ x \in T
    BY <1>1, <2>4
  <2> HIDE DEF T
  <2>6. /\ Append(parts, x) \in Seq(T)
        /\ DOMAIN Append(parts, x) = 1 .. Len(parts) + 1 /\ DOMAIN parts = 1 .. Len(parts)
        /\ Len(parts) \in Nat /\ Len(Append(parts, x)) = Len(parts) + 1
        /\ \A k \in DOMAIN parts : Append(parts, x)[k] = parts[k]
        /\ Append(parts, x)[Len(parts) + 1] = x
    BY ONLY <2>5
  <2>7. parts' \in Seq(PartType)
    BY <2>4, <2>6 DEF T
  <2> QED
    BY <2>1, <2>2, <2>3, <2>4, <2>6, <2>7
<1> QED
  BY <1>2, <1>3 DEF Emit

\* What emitting the part cut at e does to the properties.
LEMMA EmitKeeps ==
    ASSUME SplitInv, split = "cutting", NEW e \in Nat, Emit(e),
           content' = content, config' = config,
           prevCut < e, from < e, e <= from + config.size, e <= Length
    PROVE  /\ parts' \in Seq(PartType)
           /\ InOrder(parts', e)
           /\ \A p \in 0 .. Length - 1 : At(p) = "x" /\ p < e =>
                \E k \in DOMAIN parts' : parts'[k].first <= p /\ p < parts'[k].end
           /\ EachPartGains'
<1> USE DEF SplitInv
<1>1. /\ from \in Nat /\ prevCut \in Nat /\ Length \in Nat /\ config.size \in Nat \ {0}
      /\ parts \in Seq(PartType) /\ from <= prevCut /\ InOrder(parts, prevCut)
  BY SplitTypes DEF CutSound
<1>2. \A k \in DOMAIN parts :
        /\ parts[k].first \in Nat /\ parts[k].end \in Nat /\ parts[k].cut \in Nat
        /\ parts[k].end <= parts[k].cut /\ parts[k].cut <= prevCut
        /\ parts[k].cut <= parts[Len(parts)].cut
  <2>1. \A k \in DOMAIN parts : parts[k] \in PartType
    BY ONLY <1>1, ElementFacts
  <2>2. \A k \in DOMAIN parts :
          parts[k].first \in Nat /\ parts[k].end \in Nat /\ parts[k].cut \in Nat
    BY <2>1 DEF PartType
  <2> QED
    BY <1>1, <2>2 DEF InOrder
<1>3. /\ \A k \in DOMAIN parts : parts[k].end - parts[k].first <= config.size
      /\ \A k \in 2 .. Len(parts) :
           /\ parts[k - 1].cut < parts[k].cut
           /\ parts[k - 1].end < parts[k].end \/ OnlySpaces(parts[k - 1].cut, parts[k].cut)
  BY DEF EachPartGains
<1>4. \A p \in 0 .. Length - 1 : At(p) = "x" /\ p < prevCut =>
        \E k \in DOMAIN parts : parts[k].first <= p /\ p < parts[k].end
  BY DEF NothingSkipped
<1>5. CASE parts' = parts /\ OnlySpaces(from, e)
  <2>1. InOrder(parts', e)
    BY <1>1, <1>2, <1>5 DEF InOrder
  <2>2. ASSUME NEW p \in 0 .. Length - 1, At(p) = "x", p < e
        PROVE  \E k \in DOMAIN parts' : parts'[k].first <= p /\ p < parts'[k].end
    <3>1. ~(p \in from .. e - 1)
      BY <1>5, <2>2 DEF OnlySpaces
    <3>2. p < prevCut
      BY <1>1, <2>2, <3>1
    <3> QED
      BY <1>4, <1>5, <2>2, <3>2
  <2>3. EachPartGains'
    BY <1>3, <1>5 DEF EachPartGains, OnlySpaces, At
  <2> QED
    BY <1>1, <1>5, <2>1, <2>2, <2>3
<1>6. ASSUME NEW x \in PartType,
             DOMAIN parts' = 1 .. Len(parts) + 1, DOMAIN parts = 1 .. Len(parts),
             Len(parts) \in Nat, Len(parts') = Len(parts) + 1,
             \A k \in DOMAIN parts : parts'[k] = parts[k],
             parts'[Len(parts) + 1] = x,
             from <= x.first, x.first < x.end, x.end <= e, x.cut = e,
             \A p \in from .. e - 1 : At(p) = "x" => x.first <= p /\ p < x.end
      PROVE  /\ InOrder(parts', e)
             /\ \A p \in 0 .. Length - 1 : At(p) = "x" /\ p < e =>
                  \E k \in DOMAIN parts' : parts'[k].first <= p /\ p < parts'[k].end
             /\ EachPartGains'
  <2> DEFINE n == Len(parts) + 1
  <2>1. /\ n \in DOMAIN parts' /\ parts'[n] = x
        /\ \A k \in DOMAIN parts' : k = n \/ k \in DOMAIN parts
        /\ n \in Nat /\ Len(parts) = n - 1
    BY <1>6
  <2>2. DOMAIN parts \subseteq DOMAIN parts' /\ DOMAIN parts = 1 .. n - 1 /\ Len(parts') = n
    BY <1>6
  <2>x. x.first \in Nat /\ x.end \in Nat
    BY DEF PartType
  <2> HIDE DEF n
  <2>3. InOrder(parts', e)
    <3>1. \A k \in DOMAIN parts :
            parts[k].end <= parts[k].cut /\ parts[k].cut <= e /\ parts[k].cut <= x.cut
      BY <1>1, <1>2, <1>6
    <3>2. x.end <= x.cut /\ x.cut <= e
      BY <1>6
    <3>3. \A k \in DOMAIN parts' :
            /\ parts'[k].end <= parts'[k].cut /\ parts'[k].cut <= e
            /\ parts'[k].cut <= parts'[n].cut
      BY ONLY <1>6, <2>1, <3>1, <3>2
    <3> QED
      BY <2>2, <3>3 DEF InOrder
  <2>4. ASSUME NEW p \in 0 .. Length - 1, At(p) = "x", p < e
        PROVE  \E k \in DOMAIN parts' : parts'[k].first <= p /\ p < parts'[k].end
    <3>1. CASE p < prevCut
      <4>1. PICK k \in DOMAIN parts : parts[k].first <= p /\ p < parts[k].end
        BY <1>4, <2>4, <3>1
      <4> QED
        BY <1>6, <2>2, <4>1
    <3>2. CASE ~(p < prevCut)
      <4>1. p \in from .. e - 1
        BY <1>1, <2>4, <3>2
      <4>2. x.first <= p /\ p < x.end
        BY <1>6, <2>4, <4>1
      <4> QED
        BY <2>1, <4>2
    <3> QED
      BY <3>1, <3>2
  <2>5. \A k \in DOMAIN parts' : parts'[k].end - parts'[k].first <= config.size
    <3>1. x.end - x.first <= config.size
      BY <1>1, <1>6, <2>x
    <3> QED
      BY <1>3, <1>6, <2>1, <3>1
  <2>6. ASSUME NEW k \in 2 .. n
        PROVE  /\ parts'[k - 1].cut < parts'[k].cut
               /\ parts'[k - 1].end < parts'[k].end
                    \/ OnlySpaces(parts'[k - 1].cut, parts'[k].cut)
    <3>1. k - 1 \in DOMAIN parts /\ parts'[k - 1] = parts[k - 1]
      BY <1>6, <2>1, <2>2, <2>6
    <3>2. CASE k = n
      <4> DEFINE l == parts[k - 1]
      <4>1. /\ l.cut \in Nat /\ l.end \in Nat /\ l.end <= l.cut /\ l.cut <= prevCut
            /\ \A i \in DOMAIN parts : parts[i].end <= l.cut
        <5>1. l = parts[Len(parts)]
          BY <2>1, <3>2
        <5> QED
          BY <1>2, <3>1, <5>1
      <4> HIDE DEF l
      <4>2. l.cut < x.cut
        BY <1>1, <1>6, <4>1
      <4>3. CASE OnlySpaces(l.cut, e)
        BY <1>6, <2>1, <3>1, <3>2, <4>2, <4>3 DEF l
      <4>4. CASE ~OnlySpaces(l.cut, e)
        <5>1. PICK p \in l.cut .. e - 1 : At(p) = "x"
          BY <4>4 DEF OnlySpaces
        <5>2. p \in 0 .. Length - 1 /\ p < e /\ p \in Nat
          BY <1>1, <4>1
        <5>3. ~(p < prevCut)
          <6>1. ASSUME p < prevCut PROVE FALSE
            <7>1. PICK i \in DOMAIN parts : p < parts[i].end
              BY <1>4, <5>1, <5>2, <6>1
            <7>2. parts[i].end <= l.cut /\ parts[i].end \in Nat
              BY <1>2, <4>1, <7>1
            <7> QED
              BY <4>1, <5>1, <5>2, <7>1, <7>2
          <6> QED
            BY <6>1
        <5>4. p \in from .. e - 1
          BY <1>1, <5>2, <5>3
        <5>5. p < x.end
          BY <1>6, <5>1, <5>4
        <5>6. l.end < x.end
          BY <2>x, <4>1, <5>1, <5>2, <5>5
        <5> QED
          BY <2>1, <3>1, <3>2, <4>2, <5>6 DEF l
      <4> QED
        BY <4>3, <4>4
    <3>3. CASE k # n
      <4>1. k \in 2 .. Len(parts) /\ k \in DOMAIN parts
        BY <2>1, <2>2, <2>6, <3>3
      <4> QED
        BY <1>3, <1>6, <3>1, <4>1
    <3> QED
      BY <3>2, <3>3
  <2>7. \A a, b : OnlySpaces(a, b)' = OnlySpaces(a, b)
    BY DEF OnlySpaces, At
  <2>8. \A k \in 2 .. Len(parts') :
          /\ parts'[k - 1].cut < parts'[k].cut
          /\ parts'[k - 1].end < parts'[k].end
               \/ (\A p \in parts'[k - 1].cut .. parts'[k].cut - 1 : At(p)' # "x")
    BY <2>2, <2>6 DEF OnlySpaces, At
  <2>9. EachPartGains'
    BY <2>5, <2>8 DEF EachPartGains, OnlySpaces, At
  <2> QED
    BY <2>3, <2>4, <2>9
<1>7. \/ parts' = parts /\ OnlySpaces(from, e)
      \/ \E x \in PartType :
           /\ DOMAIN parts' = 1 .. Len(parts) + 1 /\ DOMAIN parts = 1 .. Len(parts)
           /\ Len(parts) \in Nat /\ Len(parts') = Len(parts) + 1
           /\ \A k \in DOMAIN parts : parts'[k] = parts[k]
           /\ parts'[Len(parts) + 1] = x
           /\ from <= x.first /\ x.first < x.end /\ x.end <= e /\ x.cut = e
           /\ \A p \in from .. e - 1 : At(p) = "x" => x.first <= p /\ p < x.end
  BY EmitFacts
<1>8. parts' \in Seq(PartType)
  BY EmitFacts
<1> QED
  BY <1>5, <1>6, <1>7, <1>8

-----------------------------------------------------------------------------
LEMMA SplitInitInv == SplitInit => SplitInv
<1> SUFFICES ASSUME SplitInit PROVE SplitInv
  OBVIOUS
<1>1. content \in Seq(Chars)
  BY DEF SplitInit
<1>2. config.size \in Nat \ {0} /\ parts = <<>> /\ prevCut = 0 /\ from = 0 /\ split = "cutting"
  BY SplitAssumption DEF SplitInit
<1>3. SplitTypeOK
  BY <1>1, <1>2 DEF SplitInit, SplitTypeOK
<1>4. CutSound
  BY <1>2 DEF CutSound, InOrder
<1>5. NothingSkipped
  BY <1>2 DEF NothingSkipped
<1>6. EachPartGains
  BY <1>2 DEF EachPartGains
<1> QED
  BY <1>3, <1>4, <1>5, <1>6 DEF SplitInv

LEMMA StopStep ==
    ASSUME SplitInv, Finish \/ Truncate
    PROVE  SplitInv'
<1> USE DEF SplitInv
<1>1. /\ UNCHANGED <<content, config, from, prevCut, parts>> /\ split = "cutting"
      /\ split' \in {"done", "truncated"} /\ (split' = "done" => from >= Length)
  BY DEF Finish, Truncate
<1>2. from \in Nat /\ prevCut \in Nat /\ Length \in Nat /\ from <= prevCut
  BY <1>1, SplitTypes DEF CutSound
<1>3. Length' = Length /\ \A p \in 0 .. Length - 1 : At(p)' = At(p)
  BY <1>1 DEF Length, At
<1>4. NothingSkipped'
  <2>1. ASSUME NEW p \in 0 .. Length - 1, At(p) = "x", p < prevCut \/ split' = "done"
        PROVE  \E k \in DOMAIN parts : parts[k].first <= p /\ p < parts[k].end
    <3>1. p < prevCut
      BY <1>1, <1>2, <2>1
    <3> QED
      BY <2>1, <3>1 DEF NothingSkipped
  <2> QED
    BY <1>1, <1>3, <2>1 DEF NothingSkipped, At
<1>5. SplitTypeOK' /\ CutSound' /\ EachPartGains'
  BY <1>1 DEF SplitTypeOK, CutSound, EachPartGains, OnlySpaces, At
<1> QED
  BY <1>4, <1>5

LEMMA LastPartStep ==
    ASSUME SplitInv, LastPart
    PROVE  SplitInv'
<1> USE DEF SplitInv
<1>1. /\ split = "cutting" /\ from < Length /\ from + config.size >= Length /\ Emit(Length)
      /\ split' = "done" /\ UNCHANGED <<content, config, from, prevCut>>
  BY DEF LastPart
<1>2. from \in Nat /\ prevCut \in Nat /\ Length \in Nat /\ prevCut < Length
      /\ config.size \in Nat
  BY <1>1, SplitTypes DEF CutSound
<1>3. /\ parts' \in Seq(PartType)
      /\ \A p \in 0 .. Length - 1 : At(p) = "x" /\ p < Length =>
           \E k \in DOMAIN parts' : parts'[k].first <= p /\ p < parts'[k].end
      /\ EachPartGains'
  BY <1>1, <1>2, EmitKeeps
<1>4. SplitTypeOK' /\ CutSound'
  BY <1>1, <1>3 DEF SplitTypeOK, CutSound, PartType
<1>5. NothingSkipped'
  <2>1. \A p \in 0 .. Length - 1 : p < Length
    BY <1>2
  <2> QED
    BY <1>1, <1>3, <2>1 DEF NothingSkipped, Length, At
<1> QED
  BY <1>3, <1>4, <1>5

LEMMA NextPartStep ==
    ASSUME SplitInv, NextPart
    PROVE  SplitInv'
<1> USE DEF SplitInv
<1>1. PICK cut \in 0 .. Length :
        Boundary(from + config.size, cut) /\ Emit(cut) /\ prevCut' = cut /\ from' = Resume(cut)
  BY DEF NextPart
<1>2. /\ split = "cutting" /\ from + config.size < Length
      /\ UNCHANGED <<content, config, split>>
  BY DEF NextPart
<1>3. from \in Nat /\ prevCut \in Nat /\ Length \in Nat /\ config.size \in Nat \ {0} /\ cut \in Nat
  BY SplitTypes
<1>4. from < cut /\ prevCut < cut /\ cut <= from + config.size
  BY <1>1, <1>2, <1>3, BoundaryFacts
<1>5. cut <= Length /\ cut < Length
  BY <1>2, <1>3, <1>4
<1>6. /\ parts' \in Seq(PartType)
      /\ InOrder(parts', cut)
      /\ \A p \in 0 .. Length - 1 : At(p) = "x" /\ p < cut =>
           \E k \in DOMAIN parts' : parts'[k].first <= p /\ p < parts'[k].end
      /\ EachPartGains'
  BY <1>1, <1>2, <1>3, <1>4, <1>5, EmitKeeps
<1>7. from' \in Nat /\ from < from' /\ from' <= cut
  BY <1>1, <1>3, <1>4, ResumeFacts
<1>8. SplitTypeOK'
  BY <1>1, <1>2, <1>3, <1>6, <1>7 DEF SplitTypeOK, PartType
<1>9. CutSound'
  <2>1. cut < from' + config.size
    BY <1>3, <1>4, <1>7
  <2> QED
    BY <1>1, <1>2, <1>5, <1>6, <1>7, <2>1 DEF CutSound, Length
<1>10. NothingSkipped'
  BY <1>1, <1>2, <1>6 DEF NothingSkipped, Length, At
<1> QED
  BY <1>6, <1>8, <1>9, <1>10

LEMMA SplitNextInv == SplitInv /\ [SplitNext]_splitVars => SplitInv'
<1> SUFFICES ASSUME SplitInv, [SplitNext]_splitVars PROVE SplitInv'
  OBVIOUS
<1>1. CASE UNCHANGED splitVars
  BY <1>1 DEF splitVars, SplitInv, SplitTypeOK, CutSound, NothingSkipped, EachPartGains, OnlySpaces,
           Length, At
<1> QED
  BY <1>1, StopStep, LastPartStep, NextPartStep DEF SplitNext

LEMMA SplitInvAlways == SplitSpec => []SplitInv
  BY SplitInitInv, SplitNextInv, PTL DEF SplitSpec

\* No character other than a blank is ever left out between two parts, or at the
\* end of a split that reports no truncation, whatever the text and the settings.
THEOREM NothingEverSkipped == SplitSpec => []NothingSkipped
  BY SplitInvAlways, PTL DEF SplitInv

\* Every part fits the window, is cut past the one before it, and ends past it
\* unless only blanks lie between the two cuts.
THEOREM EachPartAlwaysGains == SplitSpec => []EachPartGains
  BY SplitInvAlways, PTL DEF SplitInv

\* Each cut moves the start of the next part on, which bounds the number of
\* parts by the length of the text.
THEOREM SplitAdvances == SplitSpec => [][NextPart => from < from']_splitVars
<1>1. ASSUME SplitInv, NextPart PROVE from < from'
  <2>1. PICK cut \in 0 .. Length : Boundary(from + config.size, cut) /\ from' = Resume(cut)
    BY <1>1 DEF NextPart
  <2>2. cut \in Nat /\ split = "cutting"
    BY <1>1, SplitTypes DEF SplitInv, NextPart
  <2> QED
    BY <1>1, <2>1, <2>2, BoundaryFacts, ResumeFacts DEF SplitInv
<1> QED
  BY <1>1, SplitInvAlways, PTL DEF SplitSpec

-----------------------------------------------------------------------------
(***************************************************************************)
(* Read sets.  There are finitely many paths, so what the store lists is a *)
(* sequence of each namespace once.                                        *)
(***************************************************************************)
LEMMA FinitePaths == IsFiniteSet(Paths)
<1> USE ReadSetAssumption
<1> DEFINE T == {n \in Nat : IsFiniteSet([1 .. n -> Segments])}
<1>1. 0 \in T
  <2>1. [1 .. 0 -> Segments] \subseteq {<<>>}
    OBVIOUS
  <2> QED BY <2>1, FS_Singleton, FS_Subset
<1>2. \A n \in T : n + 1 \in T
  <2> TAKE n \in T
  <2> DEFINE Pairs == [1 .. n -> Segments] \X Segments
             Long == [1 .. n + 1 -> Segments]
             f == [p \in Pairs |-> [k \in 1 .. n + 1 |-> IF k = n + 1 THEN p[2] ELSE p[1][k]]]
  <2>1. IsFiniteSet(Pairs)
    BY FS_Product
  <2>2. f \in [Pairs -> Long]
    OBVIOUS
  <2>3. ASSUME NEW q \in Long PROVE \E p \in Pairs : f[p] = q
    <3> DEFINE p == <<[k \in 1 .. n |-> q[k]], q[n + 1]>>
    <3>1. p \in Pairs
      OBVIOUS
    <3>2. f[p] = q
      <4>1. DOMAIN f[p] = 1 .. n + 1 /\ \A k \in 1 .. n + 1 : f[p][k] = q[k]
        BY <3>1
      <4>2. f[p] \in Long
        BY <3>1, <2>2
      <4> QED BY <4>1, <4>2
    <3> QED BY <3>1, <3>2
  <2> HIDE DEF f, Pairs
  <2>4. f \in Surjection(Pairs, Long)
    BY <2>2, <2>3 DEF Surjection
  <2>5. IsFiniteSet(Long)
    BY <2>1, <2>4, FS_Surjection
  <2> QED BY <2>5
<1>3. T = Nat
  <2> HIDE DEF T
  <2>1. T \in SUBSET Nat
    BY DEF T
  <2> QED BY <1>1, <1>2, <2>1, InductiveSet
<1> DEFINE Lengths == 1 .. Depth
           Of == [n \in Lengths |-> [1 .. n -> Segments]]
           All == {[1 .. n -> Segments] : n \in Lengths}
<1>4. IsFiniteSet(Lengths)
  BY FS_Interval
<1>5. Of \in Surjection(Lengths, All)
  BY DEF Surjection
<1>6. \A S \in All : IsFiniteSet(S)
  BY <1>3
<1>7. IsFiniteSet(All)
  <2> HIDE DEF Of, All, Lengths
  <2> QED BY <1>4, <1>5, FS_Surjection
<1>8. IsFiniteSet(UNION All)
  <2> HIDE DEF All
  <2> QED BY <1>6, <1>7, FS_UNION
<1> QED BY <1>8 DEF Paths

LEMMA ListOfSet ==
    ASSUME NEW S, IsFiniteSet(S)
    PROVE  /\ Listing(S) \in Seq(S)
           /\ \A j, k \in DOMAIN Listing(S) : Listing(S)[j] = Listing(S)[k] => j = k
           /\ \A x \in S : \E k \in DOMAIN Listing(S) : Listing(S)[k] = x
<1> DEFINE n == Cardinality(S)
           F == [1 .. n -> S]
           Covers(f) == \A x \in S : \E k \in DOMAIN f : f[k] = x
<1>1. n \in Nat /\ ExistsBijection(1 .. n, S)
  BY FS_CardinalityType
<1>2. \E f \in F : Covers(f)
  BY <1>1 DEF ExistsBijection, Bijection, Surjection
<1>3. Listing(S) = CHOOSE f \in F : Covers(f)
  BY DEF Listing
<1> HIDE DEF F, Covers
<1>4. Listing(S) \in F /\ Covers(Listing(S))
  BY <1>2, <1>3
<1>5. ASSUME NEW g, g \in F, Covers(g) PROVE g \in Seq(S) /\ \A j, k \in DOMAIN g : g[j] = g[k] => j = k
  <2>1. g \in [1 .. n -> S] /\ g \in Seq(S)
    BY <1>1, <1>5 DEF F
  <2>2. g \in Surjection(1 .. n, S)
    BY <2>1, <1>5 DEF Covers, Surjection
  <2>3. IsFiniteSet(1 .. n) /\ Cardinality(1 .. n) = n
    BY <1>1, FS_Interval
  <2>4. g \in Injection(1 .. n, S)
    BY <2>2, <2>3, FS_Surjection
  <2> QED BY <2>1, <2>4 DEF Injection, IsInjective
<1> QED BY <1>4, <1>5 DEF Covers
(***************************************************************************)
(* Entries that carry the tiers their namespace is granted, each namespace *)
(* once.  An entry keeps them so if it is unrestricted only when its       *)
(* namespace is granted everything, and if it carries what a namespace is  *)
(* granted when it is the first of that namespace.                         *)
(***************************************************************************)
Exact(s) ==
    /\ s \in Seq(Legs)
    /\ \A j, k \in DOMAIN s : s[j].ns = s[k].ns => j = k
    /\ \A k \in DOMAIN s : s[k].tiers = Granted(s[k].ns)

Fits(s, leg) ==
    /\ leg \in Legs
    /\ leg.tiers = Unrestricted => Granted(leg.ns) = Unrestricted
    /\ leg.ns \notin Names(s) => leg.tiers = Granted(leg.ns)

\* t has the entries of s, and its first entry has the same namespace.
Extends(t, s) == Len(t) >= Len(s) /\ \A k \in DOMAIN s : k \in DOMAIN t /\ t[k].ns = s[k].ns

LEMMA AddEntryFacts ==
    ASSUME NEW s, s \in Seq(Legs), NEW leg, leg \in Legs
    PROVE  /\ AddEntry(s, leg) \in Seq(Legs)
           /\ Names(AddEntry(s, leg)) = Names(s) \cup {leg.ns}
           /\ Extends(AddEntry(s, leg), s)
           /\ Exact(s) /\ Fits(s, leg) => Exact(AddEntry(s, leg))
<1> DEFINE t == AddEntry(s, leg)
<1>1. CASE leg.ns \in Names(s)
  <2>1. t = [k \in DOMAIN s |-> IF s[k].ns = leg.ns /\ leg.tiers = Unrestricted THEN leg ELSE s[k]]
    BY <1>1 DEF AddEntry
  <2> HIDE DEF t
  <2>2. t \in Seq(Legs) /\ DOMAIN t = DOMAIN s /\ Len(t) = Len(s)
    BY <2>1
  <2>3. \A k \in DOMAIN s : t[k].ns = s[k].ns
    BY <2>1
  <2>4. Names(t) = Names(s) \cup {leg.ns}
    BY <1>1, <2>2, <2>3 DEF Names
  <2>5. ASSUME Exact(s), Fits(s, leg) PROVE Exact(t)
    BY <2>1, <2>2, <2>3, <2>5 DEF Exact, Fits
  <2> QED BY <2>2, <2>3, <2>4, <2>5 DEF t, Extends
<1>2. CASE leg.ns \notin Names(s)
  <2>1. t = Append(s, leg)
    BY <1>2 DEF AddEntry
  <2> HIDE DEF t
  <2>2. t \in Seq(Legs) /\ Len(t) = Len(s) + 1 /\ DOMAIN t = 1 .. Len(s) + 1 /\ DOMAIN s = 1 .. Len(s) /\ Len(s) \in Nat
    BY <2>1
  <2>3. (\A k \in DOMAIN s : t[k] = s[k]) /\ t[Len(s) + 1] = leg
    BY <2>1
  <2>4. Names(t) = Names(s) \cup {leg.ns}
    BY <2>2, <2>3 DEF Names
  <2>5. ASSUME Exact(s), Fits(s, leg) PROVE Exact(t)
    BY <1>2, <2>2, <2>3, <2>5 DEF Exact, Fits, Names
  <2> QED BY <2>2, <2>3, <2>4, <2>5 DEF t, Extends
<1> QED BY <1>1, <1>2

LEMMA AddAllFacts ==
    ASSUME NEW s, s \in Seq(Legs), NEW new, new \in Seq(Legs)
    PROVE  /\ AddAll(s, new) \in Seq(Legs)
           /\ Names(AddAll(s, new)) = Names(s) \cup Names(new)
           /\ Extends(AddAll(s, new), s)
           /\ Exact(s) /\ (\A k \in DOMAIN new : Fits(s, new[k])) => Exact(AddAll(s, new))
<1> DEFINE n == Len(new)
           Rec(f) == f = [k \in 0 .. n |-> IF k = 0 THEN s ELSE AddEntry(f[k - 1], new[k])]
           G == CHOOSE f : Rec(f)
           step == [k \in Nat |-> [t \in Seq(Legs) |-> IF k \in 1 .. n THEN AddEntry(t, new[k]) ELSE t]]
<1>1. n \in Nat /\ DOMAIN new = 1 .. n /\ \A k \in 1 .. n : new[k] \in Legs
  OBVIOUS
<1>2. step \in Steps(Seq(Legs))
  BY <1>1, AddEntryFacts DEF Steps
<1> HIDE DEF n
<1>3. \E f : Rec(f)
  <2> HIDE DEF step
  <2>1. PICK h : h \in [0 .. n -> Seq(Legs)] /\ Recurses(h, n, s, step)
    BY <1>1, <1>2, RecursionExists
  <2>2. ASSUME NEW k \in 0 .. n PROVE h[k] = IF k = 0 THEN s ELSE AddEntry(h[k - 1], new[k])
    <3>1. h[k] = IF k = 0 THEN s ELSE step[k][h[k - 1]]
      BY <2>1 DEF Recurses
    <3>2. CASE k # 0
      <4>1. k - 1 \in 0 .. n /\ k \in 1 .. n /\ k \in Nat
        BY <3>2, <1>1
      <4> QED BY <3>1, <3>2, <4>1, <2>1 DEF step
    <3> QED BY <3>1, <3>2
  <2>3. Rec(h)
    BY <2>1, <2>2
  <2> HIDE DEF Rec
  <2> QED BY <2>3
<1>4. AddAll(s, new) = G[n]
  BY DEF AddAll, n
<1>5. Rec(G)
  <2> HIDE DEF Rec
  <2> QED BY <1>3
<1>6. \A k \in 0 .. n : G[k] = IF k = 0 THEN s ELSE AddEntry(G[k - 1], new[k])
  BY <1>5
<1> HIDE DEF G, Rec, step
<1> DEFINE Upto(k) == {new[j].ns : j \in 1 .. k}
           Fit == Exact(s) /\ \A k \in DOMAIN new : Fits(s, new[k])
           Good(k) == /\ G[k] \in Seq(Legs)
                      /\ Names(G[k]) = Names(s) \cup Upto(k)
                      /\ Extends(G[k], s)
                      /\ Fit => Exact(G[k])
           T == {k \in Nat : k <= n => Good(k)}
<1>7. 0 \in T
  <2>1. G[0] = s
    BY <1>1, <1>6
  <2>2. Extends(s, s) /\ Upto(0) = {}
    BY DEF Extends
  <2> HIDE DEF Upto
  <2> QED BY <2>1, <2>2
<1>8. \A k \in T : k + 1 \in T
  <2> HIDE DEF Good
  <2> SUFFICES ASSUME NEW k \in Nat, k + 1 <= n, Good(k) PROVE Good(k + 1)
    BY <1>1
  <2>1. k + 1 \in 1 .. n /\ k + 1 \in 0 .. n /\ k + 1 # 0 /\ (k + 1) - 1 = k
    BY <1>1
  <2> USE DEF Good
  <2>2. G[k + 1] = AddEntry(G[k], new[k + 1]) /\ new[k + 1] \in Legs
    BY <1>1, <1>6, <2>1
  <2>3. Upto(k + 1) = Upto(k) \cup {new[k + 1].ns}
    BY <2>1
  <2> HIDE DEF Upto, Fit
  <2>4. G[k + 1] \in Seq(Legs) /\ Names(G[k + 1]) = Names(s) \cup Upto(k + 1)
    <3>1. G[k] \in Seq(Legs) /\ Names(G[k]) = Names(s) \cup Upto(k)
      OBVIOUS
    <3> HIDE DEF Good
    <3>2. G[k + 1] \in Seq(Legs) /\ Names(G[k + 1]) = Names(G[k]) \cup {new[k + 1].ns}
      <4>1. /\ AddEntry(G[k], new[k + 1]) \in Seq(Legs)
            /\ Names(AddEntry(G[k], new[k + 1])) = Names(G[k]) \cup {new[k + 1].ns}
        BY <2>2, <3>1, AddEntryFacts
      <4> QED BY <2>2, <4>1
    <3> QED BY <3>1, <3>2, <2>3
  <2>5. Extends(G[k + 1], s)
    <3>1. G[k] \in Seq(Legs) /\ Extends(G[k], s)
      OBVIOUS
    <3>2. Extends(G[k + 1], G[k])
      BY <2>2, <3>1, AddEntryFacts
    <3>3. Len(s) \in Nat /\ Len(G[k]) \in Nat /\ Len(G[k + 1]) \in Nat
      BY <3>1, <2>4
    <3> QED BY <3>1, <3>2, <3>3 DEF Extends
  <2>6. Fit => Exact(G[k + 1])
    <3> SUFFICES ASSUME Fit PROVE Exact(G[k + 1])
      OBVIOUS
    <3>1. Fits(s, new[k + 1])
      BY <2>1, <1>1 DEF Fit
    <3>2. Names(s) \subseteq Names(G[k])
      BY <2>1
    <3>3. Fits(G[k], new[k + 1])
      BY <3>1, <3>2 DEF Fits
    <3> QED BY <2>1, <2>2, <3>3, AddEntryFacts
  <2> QED BY <2>4, <2>5, <2>6
<1> HIDE DEF Good, G
<1>9. T = Nat
  <2> HIDE DEF T
  <2>1. T \in SUBSET Nat
    BY DEF T
  <2> QED BY <1>7, <1>8, <2>1, InductiveSet
<1>10. Good(n)
  BY <1>1, <1>9
<1>11. Upto(n) = Names(new)
  BY <1>1 DEF Names
<1> QED BY <1>4, <1>10, <1>11 DEF Good

(***************************************************************************)
(* Moving an entry up is a permutation of the entries.                     *)
(***************************************************************************)
LEMMA MovedUpFacts ==
    ASSUME NEW s, s \in Seq(Legs), NEW ns, ns \in Names(s), NEW to \in 1 .. Len(s),
           \A j \in 1 .. to - 1 : s[j].ns # ns
    PROVE  /\ MovedUp(s, ns, to) \in Seq(Legs) /\ Len(MovedUp(s, ns, to)) = Len(s)
           /\ MovedUp(s, ns, to)[to].ns = ns
           /\ \A j \in 1 .. to - 1 : MovedUp(s, ns, to)[j] = s[j]
           /\ Names(MovedUp(s, ns, to)) = Names(s)
           /\ s[to].ns = ns => MovedUp(s, ns, to) = s
           /\ Exact(s) => Exact(MovedUp(s, ns, to))
<1> DEFINE First1(k) == s[k].ns = ns /\ \A j \in 1 .. k - 1 : s[j].ns # ns
           at == CHOOSE k \in DOMAIN s : First1(k)
           t == MovedUp(s, ns, to)
           src == [k \in 1 .. Len(s) |-> IF k = to THEN at ELSE IF to < k /\ k <= at THEN k - 1 ELSE k]
<1>1. Len(s) \in Nat /\ DOMAIN s = 1 .. Len(s) /\ \A k \in 1 .. Len(s) : s[k] \in Legs
  OBVIOUS
<1>2. \E k \in DOMAIN s : First1(k)
  <2> DEFINE T == {k \in DOMAIN s : s[k].ns = ns}
  <2>1. T \in SUBSET Nat /\ T # {}
    BY <1>1 DEF Names
  <2>2. PICK k \in T : \A m \in T : k <= m
    <3> HIDE DEF T
    <3> QED BY <2>1, LeastNat
  <2>3. First1(k)
    BY <1>1, <2>2
  <2> QED BY <2>3
<1>3. at \in 1 .. Len(s) /\ First1(at)
  <2> HIDE DEF First1
  <2> QED BY <1>1, <1>2
<1>4. t = [k \in 1 .. Len(s) |-> IF k = to THEN s[at] ELSE IF to < k /\ k <= at THEN s[k - 1] ELSE s[k]]
  BY <1>1 DEF MovedUp
<1> HIDE DEF at, t
<1>5. at >= to
  BY <1>1, <1>3
<1>6. src \in [1 .. Len(s) -> 1 .. Len(s)] /\ \A k \in 1 .. Len(s) : t[k] = s[src[k]]
  BY <1>1, <1>3, <1>4, <1>5
<1>7. \A j, k \in 1 .. Len(s) : src[j] = src[k] => j = k
  BY <1>1, <1>3, <1>5
<1>8. \A m \in 1 .. Len(s) : \E k \in 1 .. Len(s) : src[k] = m
  <2> TAKE m \in 1 .. Len(s)
  <2> DEFINE k == IF m = at THEN to ELSE IF to <= m /\ m < at THEN m + 1 ELSE m
  <2>1. k \in 1 .. Len(s) /\ src[k] = m
    BY <1>1, <1>3, <1>5
  <2> QED BY <2>1
<1>9. \A j \in 1 .. to - 1 : t[j] = s[j]
  BY <1>1, <1>4, <1>5
<1>10. t[to].ns = ns
  BY <1>1, <1>3, <1>4
<1>11. s[to].ns = ns => at = to
  BY <1>1, <1>3, <1>5
<1> HIDE DEF src, First1
<1>12. t \in Seq(Legs) /\ Len(t) = Len(s) /\ DOMAIN t = 1 .. Len(s)
  BY <1>1, <1>4, <1>6
<1>13. Names(t) = Names(s)
  <2>1. \A k \in 1 .. Len(s) : src[k] \in 1 .. Len(s) /\ t[k].ns = s[src[k]].ns
    BY <1>6
  <2>2. ASSUME NEW m \in 1 .. Len(s) PROVE \E k \in 1 .. Len(s) : s[m].ns = t[k].ns
    <3>1. PICK k \in 1 .. Len(s) : src[k] = m
      BY <1>8
    <3> QED BY <2>1, <3>1
  <2>3. Names(t) = {t[k].ns : k \in 1 .. Len(s)} /\ Names(s) = {s[k].ns : k \in 1 .. Len(s)}
    BY <1>1, <1>12 DEF Names
  <2>4. Names(t) \subseteq Names(s)
    BY <2>1, <2>3
  <2>5. Names(s) \subseteq Names(t)
    BY <2>2, <2>3
  <2> QED BY <2>4, <2>5
<1>14. s[to].ns = ns => t = s
  <2> SUFFICES ASSUME s[to].ns = ns PROVE t = s
    OBVIOUS
  <2>1. \A k \in 1 .. Len(s) : t[k] = s[k]
    BY <1>1, <1>4, <1>11
  <2> QED BY <1>1, <1>12, <2>1
<1>15. ASSUME Exact(s) PROVE Exact(t)
  <2>1. ASSUME NEW j \in 1 .. Len(s), NEW k \in 1 .. Len(s), t[j].ns = t[k].ns PROVE j = k
    <3>1. s[src[j]].ns = s[src[k]].ns /\ src[j] \in 1 .. Len(s) /\ src[k] \in 1 .. Len(s)
      BY <2>1, <1>6
    <3>2. src[j] = src[k]
      BY <3>1, <1>1, <1>15 DEF Exact
    <3> QED BY <3>2, <1>7
  <2>2. ASSUME NEW k \in 1 .. Len(s) PROVE t[k].tiers = Granted(t[k].ns)
    <3>1. src[k] \in 1 .. Len(s) /\ t[k] = s[src[k]]
      BY <1>6
    <3>2. s[src[k]].tiers = Granted(s[src[k]].ns)
      BY <3>1, <1>1, <1>15 DEF Exact
    <3> QED BY <3>1, <3>2
  <2> QED BY <2>1, <2>2, <1>12 DEF Exact
<1> QED BY <1>9, <1>10, <1>12, <1>13, <1>14, <1>15 DEF t
(***************************************************************************)
(* The inductive invariant, of the stage st that is next and the entries s *)
(* so far: they are exact, and complete up to that stage.                  *)
(***************************************************************************)
Cascading == {"ancestors", "home", "links", "protect"}

Reached(st, ns) ==
    CASE st = "ancestors" -> Own(ns)
      [] st = "home" -> Own(ns) \/ Below(request.primary, ns)
      [] st = "links" -> Own(ns) \/ Below(request.primary, ns) \/ ns = request.home
      [] OTHER -> Granted(ns) # {}

StagesOK(st, s) ==
    /\ request.list # <<>> => st \in {"names", "clamp", "done"} /\ request.home = NoPath
    /\ st \in Cascading => request.list = <<>> /\ Cascades /\ GT # {}
    /\ st = "names" => s = <<>>
    /\ st \in Cascading \cup {"clamp"} => Names(s) = {ns \in Paths : Reached(st, ns)}

FrontOK(st, s) ==
    request.list = <<>> =>
        /\ st # "names" => 1 \in DOMAIN s /\ s[1].ns = request.primary
        /\ st = "clamp" /\ Cascades /\ GT # {} /\ request.home # NoPath
             => \E k \in DOMAIN s : s[k].ns = request.home /\ (k <= 2 \/ Len(s) <= MaxEntries)

Sound(st, s) == Exact(s) /\ StagesOK(st, s) /\ FrontOK(st, s)

ReadSetInv == ReadSetTypeOK /\ Sound(stage, legs) /\ CutSpares

(***************************************************************************)
(* No stage changes the request, so what it grants stays.                  *)
(***************************************************************************)
LEMMA ExactStays ==
    ASSUME UNCHANGED request, Exact(legs')
    PROVE  Exact(legs)'
BY DEF Exact, Granted, Own, Cascades, GT, LinkTiers

LEMMA SameRequest ==
    ASSUME ReadSetTypeOK, UNCHANGED request, Sound(stage', legs'),
           stage' \in {"names", "ancestors", "home", "links", "protect", "clamp"}
    PROVE  ReadSetInv'
<1>1. Exact(legs)'
  BY ExactStays DEF Sound
<1>2. StagesOK(stage, legs)'
  BY DEF Sound, StagesOK, Reached, Granted, Own, Cascades, GT, LinkTiers
<1>3. FrontOK(stage, legs)'
  BY DEF Sound, FrontOK, Cascades, GT
<1>4. ReadSetTypeOK'
  BY DEF ReadSetTypeOK, Sound, Exact
<1>5. CutSpares'
  BY DEF CutSpares
<1> QED BY <1>1, <1>2, <1>3, <1>4, <1>5 DEF ReadSetInv, Sound

(***************************************************************************)
(* Paths, and the namespaces each stage adds.                              *)
(***************************************************************************)
LEMMA PathFacts ==
    /\ \A p \in Paths : p \in Seq(Segments) /\ Len(p) \in 1 .. Depth /\ p # NoPath
    /\ \A p \in Seq(Segments) : Len(p) \in 1 .. Depth => p \in Paths
<1> USE ReadSetAssumption
<1>1. ASSUME NEW p \in Paths PROVE p \in Seq(Segments) /\ Len(p) \in 1 .. Depth /\ p # NoPath
  <2>1. PICK n \in 1 .. Depth : p \in [1 .. n -> Segments]
    BY DEF Paths
  <2>2. p \in Seq(Segments) /\ Len(p) = n
    BY <2>1
  <2> QED BY <2>2 DEF NoPath
<1>2. ASSUME NEW p \in Seq(Segments), Len(p) \in 1 .. Depth PROVE p \in Paths
  <2>1. p \in [1 .. Len(p) -> Segments]
    OBVIOUS
  <2> QED BY <1>2, <2>1 DEF Paths
<1> QED BY <1>1, <1>2

LEMMA AncestorFacts ==
    ASSUME NEW p \in Paths
    PROVE  /\ AncestorsOf(p) \in Seq(Paths)
           /\ \A k \in DOMAIN AncestorsOf(p) : Below(p, AncestorsOf(p)[k])
           /\ \A ns \in Paths : Below(p, ns) => \E k \in DOMAIN AncestorsOf(p) : AncestorsOf(p)[k] = ns
<1>1. p \in Seq(Segments) /\ Len(p) \in 1 .. Depth /\ Depth \in Nat
  BY PathFacts, ReadSetAssumption
<1> DEFINE up == AncestorsOf(p)
           n == Len(p) - 1
<1>2. n \in Nat /\ DOMAIN up = 1 .. n /\ \A k \in 1 .. n : up[k] = SubSeq(p, 1, Len(p) - k)
  BY <1>1 DEF AncestorsOf
<1> HIDE DEF up
<1>3. ASSUME NEW k \in 1 .. n PROVE up[k] \in Paths /\ Below(p, up[k])
  <2> DEFINE m == Len(p) - k
  <2>1. m \in 1 .. Depth /\ m < Len(p) /\ up[k] = SubSeq(p, 1, m)
    BY <1>1, <1>2
  <2>2. SubSeq(p, 1, m) \in Seq(Segments) /\ Len(SubSeq(p, 1, m)) = m
    BY <1>1, <2>1
  <2> QED BY <2>1, <2>2, PathFacts DEF Below
<1>4. up = [k \in 1 .. n |-> SubSeq(p, 1, Len(p) - k)]
  BY DEF up, AncestorsOf
<1>5. up \in Seq(Paths)
  BY <1>2, <1>3, <1>4
<1>6. ASSUME NEW ns \in Paths, Below(p, ns) PROVE \E k \in 1 .. n : up[k] = ns
  <2>1. Len(ns) \in 1 .. Depth /\ Len(ns) < Len(p) /\ SubSeq(p, 1, Len(ns)) = ns
    BY <1>6, PathFacts DEF Below
  <2>2. Len(p) - Len(ns) \in 1 .. n /\ Len(p) - (Len(p) - Len(ns)) = Len(ns)
    BY <1>1, <2>1
  <2> QED BY <1>2, <2>1, <2>2
<1> QED BY <1>2, <1>3, <1>5, <1>6 DEF up

LEMMA RequestFacts ==
    ASSUME ReadSetTypeOK
    PROVE  /\ request.primary \in Paths /\ request.home \in Paths \cup {NoPath}
           /\ request.stored \in SUBSET Paths /\ DOMAIN request.links \in SUBSET Paths
           /\ request.list \in Seq(Paths \X BOOLEAN)
<1>1. request \in ReadRequests
  BY DEF ReadSetTypeOK
<1>2. request.primary \in Paths /\ request.home \in Paths \cup {NoPath} /\ request.stored \in SUBSET Paths
  BY <1>1 DEF ReadRequests
<1>3. DOMAIN request.links \in SUBSET Paths
  <2>1. request.links \in UNION {[s -> TierFilters] : s \in Linked}
    BY <1>1 DEF ReadRequests
  <2>2. PICK s \in Linked : request.links \in [s -> TierFilters]
    BY <2>1
  <2> QED BY <2>2 DEF Linked
<1>4. request.list \in Seq(Paths \X BOOLEAN)
  <2>1. request.list \in Lists \cup {<<>>}
    BY <1>1 DEF ReadRequests
  <2>2. CASE request.list = <<>>
    BY <2>2
  <2>3. CASE request.list \in Lists
    <3>1. PICK n \in 1 .. MaxListed : request.list \in [1 .. n -> Paths \X BOOLEAN]
      BY <2>3 DEF Lists
    <3>2. n \in Nat
      BY ReadSetAssumption
    <3> QED BY <3>1, <3>2
  <2> QED BY <2>1, <2>2, <2>3
<1> QED BY <1>2, <1>3, <1>4

LEMMA TierFacts ==
    /\ GT \in SUBSET Durable /\ GT # Unrestricted /\ Unrestricted # {}
    /\ \A named : LinkTiers(named) \subseteq GT /\ LinkTiers(named) # Unrestricted
    /\ \A tiers \in SUBSET Durable : tiers \in SUBSET (AllTiers \cup Unrestricted)
BY DEF GT, Durable, Unrestricted, LinkTiers, AllTiers

LEMMA UnderFacts ==
    ASSUME ReadSetTypeOK, NEW root
    PROVE  /\ Under(root) \in Seq(Paths)
           /\ \A k \in DOMAIN Under(root) : Under(root)[k] \in request.stored /\ Below(Under(root)[k], root)
           /\ \A j, k \in DOMAIN Under(root) : Under(root)[j] = Under(root)[k] => j = k
           /\ \A ns \in request.stored : Below(ns, root) => \E k \in DOMAIN Under(root) : Under(root)[k] = ns
<1> DEFINE S == {ns \in request.stored : Below(ns, root)}
<1>1. S \in SUBSET Paths
  BY RequestFacts
<1>2. IsFiniteSet(S)
  BY <1>1, FinitePaths, FS_Subset
<1>3. Under(root) = Listing(S)
  BY DEF Under
<1> HIDE DEF S
<1>6. \A j, k \in DOMAIN Under(root) : Under(root)[j] = Under(root)[k] => j = k
  BY <1>2, <1>3, ListOfSet
<1>4. Under(root) \in Seq(S) /\ \A x \in S : \E k \in DOMAIN Under(root) : Under(root)[k] = x
  BY <1>2, <1>3, ListOfSet
<1>5. Under(root) \in Seq(Paths) /\ \A k \in DOMAIN Under(root) : Under(root)[k] \in S
  BY <1>1, <1>4
<1> QED BY <1>4, <1>5, <1>6 DEF S

\* The entries for a sequence of namespaces with the same tiers.
LEMMA LegsOfFacts ==
    ASSUME NEW ids, ids \in Seq(Paths), NEW tiers, tiers \in SUBSET (AllTiers \cup Unrestricted)
    PROVE  /\ LegsOf(ids, tiers) \in Seq(Legs) /\ DOMAIN LegsOf(ids, tiers) = DOMAIN ids
           /\ \A k \in DOMAIN ids : LegsOf(ids, tiers)[k].ns = ids[k] /\ LegsOf(ids, tiers)[k].tiers = tiers
           /\ Names(LegsOf(ids, tiers)) = {ids[k] : k \in DOMAIN ids}
<1> DEFINE new == LegsOf(ids, tiers)
<1>1. \A k \in DOMAIN ids : ids[k] \in Paths /\ Leg(ids[k], tiers) \in Legs
  BY DEF Leg, Legs
<1>2. Len(ids) \in Nat /\ DOMAIN ids = 1 .. Len(ids)
  OBVIOUS
<1>3. new \in Seq(Legs) /\ DOMAIN new = DOMAIN ids
  BY <1>1, <1>2 DEF LegsOf
<1>4. \A k \in DOMAIN ids : new[k].ns = ids[k] /\ new[k].tiers = tiers
  BY DEF Leg, LegsOf
<1>5. Names(new) = {ids[k] : k \in DOMAIN ids}
  BY <1>3, <1>4 DEF Names
<1> QED BY <1>3, <1>4, <1>5

(***************************************************************************)
(* A request begins with no entry.                                         *)
(***************************************************************************)
LEMMA ReadSetInitInv == ReadSetInit => ReadSetInv
<1> SUFFICES ASSUME ReadSetInit PROVE ReadSetInv
  OBVIOUS
<1> DEFINE ByDefault(primary, stored, home, scope, tiers, links, cascade) ==
             request = [primary |-> primary, home |-> home, scope |-> scope, tiers |-> tiers,
                        stored |-> stored, links |-> links, cascade |-> cascade, list |-> <<>>]
           ByList(primary, stored, list) ==
             request = [primary |-> primary, home |-> NoPath, scope |-> "full", tiers |-> {},
                        stored |-> stored, links |-> <<>>, cascade |-> TRUE, list |-> list]
<1>1. PICK primary \in Paths, stored \in {Paths, {p \in Paths : Len(p) = 1}} :
         \/ \E home \in Paths \cup {NoPath}, scope \in {"project", "full", "everywhere"},
               tiers \in TierFilters, linked \in Linked, cascade \in BOOLEAN :
               \E links \in [linked -> TierFilters] :
                 ByDefault(primary, stored, home, scope, tiers, links, cascade)
         \/ \E list \in Lists : ByList(primary, stored, list)
  BY DEF ReadSetInit
<1>2. stored \in SUBSET Paths
  OBVIOUS
<1>3. stage = "names" /\ legs = <<>>
  BY DEF ReadSetInit
<1>4. request \in ReadRequests /\ (request.list # <<>> => request.home = NoPath)
  <2>1. ASSUME NEW home \in Paths \cup {NoPath}, NEW scope \in {"project", "full", "everywhere"},
               NEW tiers \in TierFilters, NEW linked \in Linked, NEW cascade \in BOOLEAN,
               NEW links \in [linked -> TierFilters],
               ByDefault(primary, stored, home, scope, tiers, links, cascade)
        PROVE  request \in ReadRequests /\ request.list = <<>>
    <3>1. links \in UNION {[s -> TierFilters] : s \in Linked}
      OBVIOUS
    <3> QED BY <1>2, <2>1, <3>1 DEF ReadRequests
  <2>2. ASSUME NEW list \in Lists, ByList(primary, stored, list)
        PROVE  request \in ReadRequests /\ request.home = NoPath
    <3>1. {} \in Linked
      BY FS_EmptySet, ReadSetAssumption DEF Linked
    <3>2. <<>> \in [{} -> TierFilters]
      OBVIOUS
    <3>3. <<>> \in UNION {[s -> TierFilters] : s \in Linked}
      BY <3>1, <3>2
    <3>4. {} \in TierFilters
      BY DEF TierFilters
    <3> QED BY <1>2, <2>2, <3>3, <3>4 DEF ReadRequests
  <2> HIDE DEF ByDefault, ByList
  <2> QED BY <1>1, <2>1, <2>2
<1>5. ReadSetTypeOK
  BY <1>3, <1>4 DEF ReadSetTypeOK
<1>6. Exact(legs)
  BY <1>3 DEF Exact
<1>7. StagesOK(stage, legs) /\ FrontOK(stage, legs) /\ CutSpares
  BY <1>3, <1>4 DEF StagesOK, FrontOK, CutSpares, Cascading
<1> QED BY <1>5, <1>6, <1>7 DEF ReadSetInv, Sound

(***************************************************************************)
(* The default path.                                                       *)
(***************************************************************************)
LEMMA SubtreeKeeps == ReadSetInv /\ Subtree => ReadSetInv'
<1> SUFFICES ASSUME ReadSetInv, Subtree PROVE ReadSetInv'
  OBVIOUS
<1> DEFINE first == Leg(request.primary, Unrestricted)
           below == IF request.scope = "everywhere"
                      THEN LegsOf(Under(request.primary), Unrestricted) ELSE <<>>
           s == <<first>> \o below
           later == IF request.scope = "project" \/ ~request.cascade \/ GT = {} THEN "clamp" ELSE "ancestors"
<1>1. ReadSetTypeOK /\ legs' = s /\ stage' = later /\ UNCHANGED request /\ request.list = <<>>
  BY DEF ReadSetInv, Subtree
<1>2. Unrestricted \in SUBSET (AllTiers \cup Unrestricted)
  OBVIOUS
<1>3. first \in Legs /\ first.ns = request.primary /\ first.tiers = Unrestricted
  BY <1>1, <1>2, RequestFacts DEF Leg, Legs
<1>4. /\ below \in Seq(Legs)
      /\ \A k \in DOMAIN below : below[k].tiers = Unrestricted /\ Own(below[k].ns) /\ below[k].ns # request.primary
      /\ \A j, k \in DOMAIN below : below[j].ns = below[k].ns => j = k
      /\ \A ns \in Paths : Own(ns) /\ ns # request.primary => \E k \in DOMAIN below : below[k].ns = ns
  <2>1. CASE request.scope = "everywhere"
    <3> DEFINE ids == Under(request.primary)
    <3>1. /\ ids \in Seq(Paths)
          /\ \A k \in DOMAIN ids : ids[k] \in request.stored /\ Below(ids[k], request.primary)
          /\ \A j, k \in DOMAIN ids : ids[j] = ids[k] => j = k
          /\ \A ns \in request.stored : Below(ns, request.primary) => \E k \in DOMAIN ids : ids[k] = ns
      BY <1>1, UnderFacts
    <3>2. below = LegsOf(ids, Unrestricted)
      BY <2>1
    <3> HIDE DEF below, ids
    <3>3. /\ below \in Seq(Legs) /\ DOMAIN below = DOMAIN ids
          /\ \A k \in DOMAIN below : below[k].ns = ids[k] /\ below[k].tiers = Unrestricted
      <4>1. ids \in Seq(Paths)
        BY <3>1
      <4> QED BY <1>2, <4>1, <3>2, LegsOfFacts
    <3>4. ~Below(request.primary, request.primary)
      BY <1>1, RequestFacts, PathFacts DEF Below
    <3> QED BY <2>1, <3>1, <3>3, <3>4 DEF Own
  <2>2. CASE request.scope # "everywhere"
    <3>1. below = <<>>
      BY <2>2
    <3> HIDE DEF below
    <3>2. \A ns : Own(ns) <=> ns = request.primary
      BY <2>2 DEF Own
    <3> QED BY <3>1, <3>2
  <2> QED BY <2>1, <2>2
<1> HIDE DEF below, first
<1>5. /\ s \in Seq(Legs) /\ Len(below) \in Nat /\ DOMAIN s = 1 .. Len(below) + 1 /\ DOMAIN below = 1 .. Len(below)
      /\ s[1] = first /\ \A k \in 2 .. Len(below) + 1 : s[k] = below[k - 1]
  BY <1>3, <1>4
<1> HIDE DEF s
<1>6. \A ns \in Paths : Own(ns) <=> \E k \in DOMAIN s : s[k].ns = ns
  <2>1. ASSUME NEW k \in DOMAIN s PROVE Own(s[k].ns)
    <3>1. CASE k = 1
      BY <3>1, <1>3, <1>5 DEF Own
    <3>2. CASE k # 1
      <4>1. k - 1 \in DOMAIN below /\ s[k] = below[k - 1]
        BY <3>2, <1>5
      <4> QED BY <4>1, <1>4
    <3> QED BY <3>1, <3>2
  <2>2. ASSUME NEW ns \in Paths, Own(ns), ns # request.primary PROVE \E k \in DOMAIN s : s[k].ns = ns
    <3>1. PICK k \in DOMAIN below : below[k].ns = ns
      BY <1>4, <2>2
    <3>2. k + 1 \in DOMAIN s /\ s[k + 1] = below[k]
      BY <1>5
    <3> QED BY <3>1, <3>2
  <2> QED BY <1>3, <1>5, <2>1, <2>2
<1>7. Names(s) = {ns \in Paths : Own(ns)}
  <2>1. ASSUME NEW k \in DOMAIN s PROVE s[k].ns \in Paths
    <3>1. s[k] \in Legs
      BY <1>5
    <3> QED BY <3>1 DEF Legs
  <2> QED BY <1>6, <2>1 DEF Names
<1>8. \A ns : Own(ns) => Granted(ns) = Unrestricted
  BY <1>1 DEF Granted
<1>9. Exact(s)
  <2>1. ASSUME NEW k \in DOMAIN s PROVE s[k].tiers = Granted(s[k].ns)
    <3>1. CASE k = 1
      BY <3>1, <1>3, <1>5, <1>8 DEF Own
    <3>2. CASE k # 1
      <4>1. k - 1 \in DOMAIN below /\ s[k] = below[k - 1]
        BY <3>2, <1>5
      <4> QED BY <4>1, <1>4, <1>8
    <3> QED BY <3>1, <3>2
  <2>2. ASSUME NEW j \in DOMAIN s, NEW k \in DOMAIN s, s[j].ns = s[k].ns PROVE j = k
    <3>1. \A i \in DOMAIN s : i = 1 \/ (i # 1 /\ i - 1 \in DOMAIN below /\ s[i] = below[i - 1])
      BY <1>5
    <3>2. CASE j = 1
      BY <2>2, <3>1, <3>2, <1>3, <1>4, <1>5
    <3>3. CASE k = 1
      BY <2>2, <3>1, <3>3, <1>3, <1>4, <1>5
    <3>4. CASE j # 1 /\ k # 1
      <4>1. j - 1 = k - 1
        BY <2>2, <3>1, <3>4, <1>4
      <4> QED BY <4>1, <1>5
    <3> QED BY <3>2, <3>3, <3>4
  <2> QED BY <1>5, <2>1, <2>2 DEF Exact
<1>10. StagesOK(later, s)
  <2>1. CASE later = "ancestors"
    BY <2>1, <1>1, <1>7 DEF StagesOK, Cascading, Reached, Cascades
  <2>2. CASE later = "clamp"
    <3>1. ~Cascades \/ GT = {}
      BY <2>2 DEF Cascades
    <3>2. \A ns : Granted(ns) # {} <=> Own(ns)
      BY <1>1, <3>1, TierFacts DEF Granted
    <3> QED BY <2>2, <1>1, <1>7, <3>2 DEF StagesOK, Cascading, Reached
  <2> QED BY <2>1, <2>2
<1>11. FrontOK(later, s)
  BY <1>3, <1>5 DEF FrontOK, Cascades
<1> QED BY <1>1, <1>9, <1>10, <1>11, SameRequest DEF Sound
LEMMA AncestorsKeeps == ReadSetInv /\ Ancestors => ReadSetInv'
<1> SUFFICES ASSUME ReadSetInv, Ancestors PROVE ReadSetInv'
  OBVIOUS
<1> DEFINE up == AncestorsOf(request.primary)
           new == LegsOf(up, GT)
           s == AddAll(legs, new)
<1>1. /\ ReadSetTypeOK /\ stage = "ancestors" /\ legs' = s /\ stage' = "home" /\ UNCHANGED request
      /\ Exact(legs) /\ request.list = <<>> /\ Cascades /\ GT # {}
      /\ Names(legs) = {ns \in Paths : Own(ns)}
      /\ 1 \in DOMAIN legs /\ legs[1].ns = request.primary /\ legs \in Seq(Legs)
  BY DEF ReadSetInv, Sound, StagesOK, FrontOK, Exact, Cascading, Reached, Ancestors
<1>2. /\ up \in Seq(Paths) /\ \A k \in DOMAIN up : Below(request.primary, up[k])
      /\ \A ns \in Paths : Below(request.primary, ns) => \E k \in DOMAIN up : up[k] = ns
  BY <1>1, RequestFacts, AncestorFacts
<1> HIDE DEF up
<1>3. GT \in SUBSET (AllTiers \cup Unrestricted)
  BY TierFacts
<1>4. /\ new \in Seq(Legs) /\ DOMAIN new = DOMAIN up
      /\ \A k \in DOMAIN new : new[k].ns = up[k] /\ new[k].tiers = GT
      /\ Names(new) = {up[k] : k \in DOMAIN up}
  <2>1. up \in Seq(Paths)
    BY <1>2
  <2> QED BY <1>3, <2>1, LegsOfFacts
<1> HIDE DEF new
<1>5. ASSUME NEW k \in DOMAIN new PROVE Fits(legs, new[k])
  <2>1. new[k] \in Legs /\ new[k].ns \in Paths /\ Below(request.primary, new[k].ns)
    BY <1>2, <1>4
  <2>2. new[k].ns \notin Names(legs) => Granted(new[k].ns) = GT
    BY <2>1, <1>1 DEF Granted
  <2> QED BY <2>1, <2>2, <1>4, TierFacts DEF Fits
<1>6. s \in Seq(Legs) /\ Names(s) = Names(legs) \cup Names(new) /\ Extends(s, legs) /\ Exact(s)
  BY <1>1, <1>4, <1>5, AddAllFacts
<1>7. Names(s) = {ns \in Paths : Own(ns) \/ Below(request.primary, ns)}
  <2>1. Names(new) = {ns \in Paths : Below(request.primary, ns)}
    BY <1>2, <1>4
  <2> QED BY <1>1, <1>6, <2>1
<1> HIDE DEF s
<1>8. StagesOK("home", s)
  BY <1>1, <1>7 DEF StagesOK, Reached, Cascading
<1>9. FrontOK("home", s)
  BY <1>1, <1>6 DEF FrontOK, Extends
<1> QED BY <1>1, <1>6, <1>8, <1>9, SameRequest DEF Sound

LEMMA HomeKeeps == ReadSetInv /\ Home => ReadSetInv'
<1> SUFFICES ASSUME ReadSetInv, Home PROVE ReadSetInv'
  OBVIOUS
<1> DEFINE s == IF request.home = NoPath THEN legs ELSE AddEntry(legs, Leg(request.home, GT))
<1>1. /\ ReadSetTypeOK /\ stage = "home" /\ legs' = s /\ stage' = "links" /\ UNCHANGED request
      /\ Exact(legs) /\ request.list = <<>> /\ Cascades /\ GT # {}
      /\ Names(legs) = {ns \in Paths : Own(ns) \/ Below(request.primary, ns)}
      /\ 1 \in DOMAIN legs /\ legs[1].ns = request.primary /\ legs \in Seq(Legs)
  BY DEF ReadSetInv, Sound, StagesOK, FrontOK, Exact, Cascading, Reached, Home
<1>2. /\ Exact(s) /\ Extends(s, legs)
      /\ Names(s) = {ns \in Paths : Own(ns) \/ Below(request.primary, ns) \/ ns = request.home}
  <2>1. CASE request.home = NoPath
    <3>1. s = legs /\ \A ns \in Paths : ns # request.home
      BY <2>1, PathFacts
    <3> QED BY <3>1, <1>1 DEF Extends
  <2>2. CASE request.home # NoPath
    <3> DEFINE leg == Leg(request.home, GT)
    <3>1. request.home \in Paths /\ s = AddEntry(legs, leg)
      BY <2>2, <1>1, RequestFacts
    <3>2. leg \in Legs /\ leg.ns = request.home /\ leg.tiers = GT
      BY <3>1, TierFacts DEF Leg, Legs
    <3> HIDE DEF leg, s
    <3>3. leg.ns \notin Names(legs) => Granted(leg.ns) = GT
      BY <3>1, <3>2, <1>1 DEF Granted
    <3>4. Fits(legs, leg)
      BY <3>2, <3>3, TierFacts DEF Fits
    <3>5. Exact(s) /\ Extends(s, legs) /\ Names(s) = Names(legs) \cup {request.home}
      BY <1>1, <3>1, <3>2, <3>4, AddEntryFacts
    <3> QED BY <1>1, <3>1, <3>5
  <2> QED BY <2>1, <2>2
<1> HIDE DEF s
<1>3. StagesOK("links", s)
  BY <1>1, <1>2 DEF StagesOK, Reached, Cascading
<1>4. FrontOK("links", s)
  BY <1>1, <1>2 DEF FrontOK, Extends
<1> QED BY <1>1, <1>2, <1>3, <1>4, SameRequest DEF Sound

LEMMA LinksKeeps == ReadSetInv /\ Links => ReadSetInv'
<1> SUFFICES ASSUME ReadSetInv, Links PROVE ReadSetInv'
  OBVIOUS
<1> DEFINE S == {ns \in DOMAIN request.links : LinkTiers(request.links[ns]) # {}}
           named == Listing(S)
           new == [k \in DOMAIN named |-> Leg(named[k], LinkTiers(request.links[named[k]]))]
           s == AddAll(legs, new)
<1>1. /\ ReadSetTypeOK /\ stage = "links" /\ legs' = s /\ stage' = "protect" /\ UNCHANGED request
      /\ Exact(legs) /\ request.list = <<>> /\ Cascades /\ GT # {}
      /\ Names(legs) = {ns \in Paths : Own(ns) \/ Below(request.primary, ns) \/ ns = request.home}
      /\ 1 \in DOMAIN legs /\ legs[1].ns = request.primary /\ legs \in Seq(Legs)
  BY DEF ReadSetInv, Sound, StagesOK, FrontOK, Exact, Cascading, Reached, Links
<1>2. S \in SUBSET Paths
  BY <1>1, RequestFacts
<1>3. /\ named \in Seq(S) /\ \A ns \in S : \E k \in DOMAIN named : named[k] = ns
  <2>1. IsFiniteSet(S)
    BY <1>2, FinitePaths, FS_Subset
  <2> HIDE DEF S
  <2> QED BY <2>1, ListOfSet
<1> HIDE DEF named
<1>4. ASSUME NEW k \in DOMAIN named
      PROVE  /\ named[k] \in Paths /\ named[k] \in S
             /\ new[k] \in Legs /\ new[k].ns = named[k] /\ new[k].tiers = LinkTiers(request.links[named[k]])
  <2>1. named[k] \in S
    <3> HIDE DEF S
    <3> QED BY <1>3
  <2> QED BY <2>1, <1>2, TierFacts DEF Leg, Legs
<1>5. new \in Seq(Legs) /\ DOMAIN new = DOMAIN named
  <2>1. Len(named) \in Nat /\ DOMAIN named = 1 .. Len(named)
    BY <1>3
  <2> QED BY <2>1, <1>4
<1>6. Names(new) = S
  <2>1. Names(new) = {named[k] : k \in DOMAIN named}
    BY <1>4, <1>5 DEF Names
  <2> HIDE DEF S, new
  <2> QED BY <2>1, <1>3
<1> HIDE DEF new
<1>7. ASSUME NEW k \in DOMAIN new PROVE Fits(legs, new[k])
  <2>1. new[k] \in Legs /\ new[k].ns \in Paths /\ new[k].ns \in DOMAIN request.links
        /\ new[k].tiers = LinkTiers(request.links[new[k].ns])
    BY <1>4, <1>5
  <2>2. new[k].ns \notin Names(legs) => Granted(new[k].ns) = new[k].tiers
    BY <2>1, <1>1 DEF Granted
  <2> QED BY <2>1, <2>2, TierFacts DEF Fits
<1>8. s \in Seq(Legs) /\ Names(s) = Names(legs) \cup S /\ Extends(s, legs) /\ Exact(s)
  BY <1>1, <1>5, <1>6, <1>7, AddAllFacts
<1>9. Names(s) = {ns \in Paths : Granted(ns) # {}}
  <2>1. ASSUME NEW ns \in Paths PROVE Granted(ns) # {} <=> ns \in Names(legs) \cup S
    BY <1>1, TierFacts DEF Granted
  <2>2. Names(legs) \cup S \subseteq Paths
    BY <1>1, <1>2
  <2> QED BY <1>8, <2>1, <2>2
<1> HIDE DEF s, S
<1>10. StagesOK("protect", s)
  BY <1>1, <1>9 DEF StagesOK, Reached, Cascading
<1>11. FrontOK("protect", s)
  BY <1>1, <1>8 DEF FrontOK, Extends
<1> QED BY <1>1, <1>8, <1>10, <1>11, SameRequest DEF Sound

LEMMA ProtectKeeps == ReadSetInv /\ Protect => ReadSetInv'
<1> USE ReadSetAssumption
<1> SUFFICES ASSUME ReadSetInv, Protect PROVE ReadSetInv'
  OBVIOUS
<1> DEFINE s == Protected(legs, request.home)
<1>1. /\ ReadSetTypeOK /\ stage = "protect" /\ legs' = s /\ stage' = "clamp" /\ UNCHANGED request
      /\ Exact(legs) /\ request.list = <<>> /\ Cascades /\ GT # {}
      /\ Names(legs) = {ns \in Paths : Granted(ns) # {}}
      /\ 1 \in DOMAIN legs /\ legs[1].ns = request.primary /\ legs \in Seq(Legs)
  BY DEF ReadSetInv, Sound, StagesOK, FrontOK, Exact, Cascading, Reached, Protect
<1>2. Len(legs) \in Nat /\ DOMAIN legs = 1 .. Len(legs)
  BY <1>1
<1>3. /\ Exact(s) /\ Names(s) = Names(legs) /\ Len(s) = Len(legs) /\ s[1].ns = legs[1].ns
      /\ request.home \in Names(s)
           => \E k \in DOMAIN s : s[k].ns = request.home /\ (k <= 2 \/ Len(s) <= MaxEntries)
  <2>1. CASE Len(legs) <= MaxEntries \/ request.home \notin Names(legs) \/ legs[1].ns = request.home
    <3>1. s = legs
      BY <2>1 DEF Protected
    <3> HIDE DEF s
    <3>2. request.home \in Names(s) => \E k \in DOMAIN s : s[k].ns = request.home
      BY <3>1 DEF Names
    <3> QED BY <1>1, <1>2, <2>1, <3>1, <3>2
  <2>2. CASE ~(Len(legs) <= MaxEntries \/ request.home \notin Names(legs) \/ legs[1].ns = request.home)
    <3>1. s = MovedUp(legs, request.home, 2)
      BY <2>2 DEF Protected
    <3>2. 2 \in 1 .. Len(legs) /\ (\A j \in 1 .. 2 - 1 : legs[j].ns # request.home) /\ 1 \in 1 .. 2 - 1
      BY <1>2, <2>2
    <3> HIDE DEF s
    <3>3. /\ Exact(s) /\ Names(s) = Names(legs) /\ Len(s) = Len(legs) /\ s \in Seq(Legs)
          /\ s[2].ns = request.home /\ s[1] = legs[1]
      BY <1>1, <2>2, <3>1, <3>2, MovedUpFacts
    <3>4. 2 \in DOMAIN s
      BY <3>2, <3>3
    <3> QED BY <3>3, <3>4
  <2> QED BY <2>1, <2>2
<1> HIDE DEF s
<1>4. StagesOK("clamp", s)
  BY <1>1, <1>3 DEF StagesOK, Reached, Cascading
<1>5. FrontOK("clamp", s)
  <2>1. 1 \in DOMAIN s /\ s[1].ns = request.primary
    <3>1. s \in Seq(Legs)
      BY <1>3 DEF Exact
    <3> QED BY <3>1, <1>1, <1>2, <1>3
  <2>2. request.home # NoPath => request.home \in Names(s)
    <3> SUFFICES ASSUME request.home # NoPath PROVE request.home \in Paths /\ Granted(request.home) # {}
      BY <1>1, <1>3
    <3>1. request.home \in Paths
      BY <1>1, RequestFacts
    <3> QED BY <3>1, <1>1, TierFacts DEF Granted
  <2> QED BY <2>1, <2>2, <1>3 DEF FrontOK
<1> QED BY <1>1, <1>3, <1>4, <1>5, SameRequest DEF Sound
(***************************************************************************)
(* The explicit path: what the entries of the list add up to.              *)
(***************************************************************************)
LEMMA ExpandFacts ==
    ASSUME ReadSetTypeOK, NEW entry \in Paths \X BOOLEAN
    PROVE  /\ Expand(entry) \in Seq(Legs)
           /\ \A k \in DOMAIN Expand(entry) : Expand(entry)[k].tiers = Unrestricted
           /\ Names(Expand(entry)) = {ns \in Paths : ns = entry[1]
                                        \/ (entry[2] /\ ns \in request.stored /\ Below(ns, entry[1]))}
<1> DEFINE first == Leg(entry[1], Unrestricted)
           ids == Under(entry[1])
           all == LegsOf(ids, Unrestricted)
           below == IF entry[2] THEN all ELSE <<>>
           s == <<first>> \o below
<1>1. s = Expand(entry)
  BY DEF Expand
<1>2. Unrestricted \in SUBSET (AllTiers \cup Unrestricted)
  OBVIOUS
<1>3. first \in Legs /\ first.ns = entry[1] /\ first.tiers = Unrestricted
  BY <1>2 DEF Leg, Legs
<1>4. /\ ids \in Seq(Paths) /\ \A k \in DOMAIN ids : ids[k] \in request.stored /\ Below(ids[k], entry[1])
      /\ \A ns \in request.stored : Below(ns, entry[1]) => \E k \in DOMAIN ids : ids[k] = ns
  BY UnderFacts
<1> HIDE DEF ids
<1>5. ids \in Seq(Paths)
  BY <1>4
<1>6. /\ all \in Seq(Legs) /\ DOMAIN all = DOMAIN ids
      /\ \A k \in DOMAIN all : all[k].ns = ids[k] /\ all[k].tiers = Unrestricted
  BY <1>2, <1>5, LegsOfFacts
<1> HIDE DEF all
<1>7. /\ below \in Seq(Legs) /\ \A k \in DOMAIN below : below[k].tiers = Unrestricted
      /\ Names(below) = {ns \in Paths : entry[2] /\ ns \in request.stored /\ Below(ns, entry[1])}
  <2>1. CASE entry[2]
    <3>1. below = all
      BY <2>1
    <3> HIDE DEF below
    <3>2. Names(all) = {ids[k] : k \in DOMAIN ids}
      BY <1>6 DEF Names
    <3>3. Names(all) = {ns \in Paths : ns \in request.stored /\ Below(ns, entry[1])}
      BY <3>2, <1>4, RequestFacts
    <3> QED BY <2>1, <3>1, <3>3, <1>6
  <2>2. CASE ~entry[2]
    <3>1. below = <<>>
      BY <2>2
    <3> HIDE DEF below
    <3> QED BY <2>2, <3>1 DEF Names
  <2> QED BY <2>1, <2>2
<1> HIDE DEF below, first
<1>8. /\ s \in Seq(Legs) /\ Len(below) \in Nat /\ DOMAIN s = 1 .. Len(below) + 1 /\ DOMAIN below = 1 .. Len(below)
      /\ s[1] = first /\ \A k \in 2 .. Len(below) + 1 : s[k] = below[k - 1]
  BY <1>3, <1>7
<1>9. \A k \in DOMAIN below : s[k + 1] = below[k] /\ k + 1 \in DOMAIN s
  BY <1>8
<1> HIDE DEF s
<1>10. \A k \in DOMAIN s : s[k].tiers = Unrestricted
  <2>1. \A k \in DOMAIN s : k = 1 \/ (k - 1 \in DOMAIN below /\ s[k] = below[k - 1])
    BY <1>8
  <2> QED BY <2>1, <1>3, <1>7, <1>8
<1>11. Names(s) = {entry[1]} \cup Names(below)
  <2>1. \A k \in DOMAIN s : k = 1 \/ (k - 1 \in DOMAIN below /\ s[k] = below[k - 1])
    BY <1>8
  <2>2. 1 \in DOMAIN s
    BY <1>8
  <2>3. Names(s) \subseteq {entry[1]} \cup Names(below)
    BY <2>1, <1>3, <1>8 DEF Names
  <2>4. {entry[1]} \cup Names(below) \subseteq Names(s)
    BY <2>2, <1>3, <1>8, <1>9 DEF Names
  <2> QED BY <2>3, <2>4
<1> QED BY <1>1, <1>7, <1>8, <1>10, <1>11

LEMMA ExplicitKeeps == ReadSetInv /\ Explicit => ReadSetInv'
<1> SUFFICES ASSUME ReadSetInv, Explicit PROVE ReadSetInv'
  OBVIOUS
<1> DEFINE list == request.list
           n == Len(list)
           Rec(f) == f = [k \in 0 .. n |-> IF k = 0 THEN <<>> ELSE AddAll(f[k - 1], Expand(list[k]))]
           G == CHOOSE f : Rec(f)
           step == [k \in Nat |-> [t \in Seq(Legs) |-> IF k \in 1 .. n THEN AddAll(t, Expand(list[k])) ELSE t]]
<1>1. ReadSetTypeOK /\ stage = "names" /\ stage' = "clamp" /\ UNCHANGED request /\ list # <<>> /\ legs' = G[n]
  BY DEF ReadSetInv, Explicit
<1>2. n \in Nat /\ DOMAIN list = 1 .. n /\ \A k \in 1 .. n : list[k] \in Paths \X BOOLEAN
  BY <1>1, RequestFacts
<1>3. \A k \in 1 .. n : Expand(list[k]) \in Seq(Legs)
  BY <1>1, <1>2, ExpandFacts
<1>4. step \in Steps(Seq(Legs))
  BY <1>3, AddAllFacts DEF Steps
<1> HIDE DEF n, list
<1>5. \E f : Rec(f)
  <2> HIDE DEF step
  <2>1. <<>> \in Seq(Legs)
    OBVIOUS
  <2>2. PICK h : h \in [0 .. n -> Seq(Legs)] /\ Recurses(h, n, <<>>, step)
    BY <1>2, <1>4, <2>1, RecursionExists
  <2>3. ASSUME NEW k \in 0 .. n PROVE h[k] = IF k = 0 THEN <<>> ELSE AddAll(h[k - 1], Expand(list[k]))
    <3>1. h[k] = IF k = 0 THEN <<>> ELSE step[k][h[k - 1]]
      BY <2>2 DEF Recurses
    <3>2. CASE k # 0
      <4>1. k - 1 \in 0 .. n /\ k \in 1 .. n /\ k \in Nat
        BY <3>2, <1>2
      <4> QED BY <3>1, <3>2, <4>1, <2>2 DEF step
    <3> QED BY <3>1, <3>2
  <2>4. Rec(h)
    BY <2>2, <2>3
  <2> HIDE DEF Rec
  <2> QED BY <2>4
<1>6. Rec(G)
  <2> HIDE DEF Rec
  <2> QED BY <1>5
<1>7. \A k \in 0 .. n : G[k] = IF k = 0 THEN <<>> ELSE AddAll(G[k - 1], Expand(list[k]))
  BY <1>6
<1> HIDE DEF G, Rec, step
<1> DEFINE Asked(j, ns) == ns = list[j][1] \/ (list[j][2] /\ ns \in request.stored /\ Below(ns, list[j][1]))
           Upto(k) == {ns \in Paths : \E j \in 1 .. k : Asked(j, ns)}
           Good(k) == G[k] \in Seq(Legs) /\ Exact(G[k]) /\ Names(G[k]) = Upto(k)
           T == {k \in Nat : k <= n => Good(k)}
<1>8. \A k \in 1 .. n : \A ns \in Paths : Asked(k, ns) => Granted(ns) = Unrestricted
  BY <1>1, <1>2 DEF Granted, list
<1>9. \A k \in 1 .. n : Names(Expand(list[k])) = {ns \in Paths : Asked(k, ns)}
  BY <1>1, <1>2, ExpandFacts
<1>10. 0 \in T
  <2>1. G[0] = <<>>
    <3>1. 0 \in 0 .. n
      BY <1>2
    <3> HIDE DEF T
    <3> QED BY <3>1, <1>7
  <2>2. Upto(0) = {} /\ Names(<<>>) = {} /\ Exact(<<>>) /\ <<>> \in Seq(Legs)
    BY DEF Names, Exact
  <2> HIDE DEF Upto
  <2>3. Good(0)
    BY <2>1, <2>2
  <2> HIDE DEF Good
  <2> QED BY <2>3
<1>11. \A k \in T : k + 1 \in T
  <2> HIDE DEF Good
  <2> SUFFICES ASSUME NEW k \in Nat, k + 1 <= n, Good(k) PROVE Good(k + 1)
    BY <1>2
  <2>1. k + 1 \in 1 .. n /\ k + 1 \in 0 .. n /\ k + 1 # 0 /\ (k + 1) - 1 = k
    BY <1>2
  <2> DEFINE more == Expand(list[k + 1])
  <2>2. G[k + 1] = AddAll(G[k], more) /\ more \in Seq(Legs)
    BY <1>3, <1>7, <2>1
  <2>3. \A j \in DOMAIN more : more[j].tiers = Unrestricted
    BY <1>1, <1>2, <2>1, ExpandFacts
  <2>4. Names(more) = {ns \in Paths : Asked(k + 1, ns)}
    BY <1>9, <2>1
  <2> HIDE DEF more
  <2>5. ASSUME NEW j \in DOMAIN more PROVE Fits(G[k], more[j])
    <3>1. more[j] \in Legs /\ more[j].ns \in Names(more)
      BY <2>2 DEF Names
    <3>2. Granted(more[j].ns) = Unrestricted
      BY <1>8, <2>1, <2>4, <3>1
    <3> QED BY <2>3, <3>1, <3>2 DEF Fits
  <2>6. G[k] \in Seq(Legs) /\ Exact(G[k]) /\ Names(G[k]) = Upto(k)
    BY DEF Good
  <2>7. G[k + 1] \in Seq(Legs) /\ Exact(G[k + 1]) /\ Names(G[k + 1]) = Names(G[k]) \cup Names(more)
    <3>1. /\ AddAll(G[k], more) \in Seq(Legs) /\ Exact(AddAll(G[k], more))
          /\ Names(AddAll(G[k], more)) = Names(G[k]) \cup Names(more)
      BY <2>2, <2>5, <2>6, AddAllFacts
    <3> QED BY <2>2, <3>1
  <2>8. Upto(k + 1) = Upto(k) \cup {ns \in Paths : Asked(k + 1, ns)}
    <3> HIDE DEF Asked
    <3>1. 1 .. k + 1 = (1 .. k) \cup {k + 1}
      OBVIOUS
    <3> QED BY <3>1
  <2> HIDE DEF Upto
  <2> QED BY <2>4, <2>6, <2>7, <2>8 DEF Good
<1> HIDE DEF Good
<1>12. T = Nat
  <2> HIDE DEF T
  <2>1. T \in SUBSET Nat
    BY DEF T
  <2> QED BY <1>10, <1>11, <2>1, InductiveSet
<1>13. Good(n)
  BY <1>2, <1>12
<1>14. Upto(n) = {ns \in Paths : Granted(ns) # {}}
  BY <1>1, <1>2, TierFacts DEF Granted, list
<1>15. Exact(legs') /\ Names(legs') = {ns \in Paths : Granted(ns) # {}}
  BY <1>1, <1>13, <1>14 DEF Good
<1>16. StagesOK("clamp", legs')
  <2>1. request.home = NoPath
    BY <1>1 DEF ReadSetInv, Sound, StagesOK, list
  <2> QED BY <1>15, <2>1 DEF StagesOK, Reached, Cascading
<1>17. FrontOK("clamp", legs')
  BY <1>1 DEF FrontOK, list
<1> QED BY <1>1, <1>15, <1>16, <1>17, SameRequest DEF Sound
(***************************************************************************)
(* The cut keeps the front.                                                *)
(***************************************************************************)
LEMMA CutFacts ==
    ASSUME NEW s, Exact(s), NEW m, m \in Nat, m <= Len(s)
    PROVE  /\ Exact(SubSeq(s, 1, m)) /\ DOMAIN SubSeq(s, 1, m) = 1 .. m /\ Len(SubSeq(s, 1, m)) = m
           /\ \A k \in 1 .. m : SubSeq(s, 1, m)[k] = s[k]
           /\ m = Len(s) => Names(SubSeq(s, 1, m)) = Names(s)
<1> DEFINE t == SubSeq(s, 1, m)
<1>1. s \in Seq(Legs) /\ Len(s) \in Nat /\ DOMAIN s = 1 .. Len(s)
  BY DEF Exact
<1>2. t \in Seq(Legs) /\ DOMAIN t = 1 .. m /\ Len(t) = m /\ \A k \in 1 .. m : t[k] = s[k]
  BY <1>1
<1> HIDE DEF t
<1>3. Exact(t)
  BY <1>1, <1>2 DEF Exact
<1>4. m = Len(s) => Names(t) = Names(s)
  BY <1>1, <1>2 DEF Names
<1> QED BY <1>2, <1>3, <1>4 DEF t

LEMMA ClampKeeps == ReadSetInv /\ Clamp => ReadSetInv'
<1> USE ReadSetAssumption
<1> SUFFICES ASSUME ReadSetInv, Clamp PROVE ReadSetInv'
  OBVIOUS
<1> DEFINE s == PrimaryFirst(legs)
           m == IF Len(s) > MaxEntries THEN MaxEntries ELSE Len(s)
           t == SubSeq(s, 1, m)
<1>1. /\ ReadSetTypeOK /\ stage = "clamp" /\ legs' = t /\ stage' = "done" /\ UNCHANGED request
      /\ Exact(legs) /\ legs \in Seq(Legs) /\ (request.list # <<>> => request.home = NoPath)
      /\ Names(legs) = {ns \in Paths : Granted(ns) # {}}
      /\ FrontOK("clamp", legs)
  BY DEF ReadSetInv, Sound, StagesOK, Exact, Reached, Clamp, Cascading
<1>2. Len(legs) \in Nat /\ DOMAIN legs = 1 .. Len(legs)
  BY <1>1
<1>3. /\ Exact(s) /\ Names(s) = Names(legs) /\ Len(s) = Len(legs) /\ s \in Seq(Legs)
      /\ request.primary \in Names(s) => 1 \in DOMAIN s /\ s[1].ns = request.primary
      /\ legs # <<>> /\ legs[1].ns = request.primary => s = legs
  <2>1. CASE request.primary \in Names(legs)
    <3>1. s = MovedUp(legs, request.primary, 1)
      BY <2>1 DEF PrimaryFirst
    <3>2. 1 \in 1 .. Len(legs) /\ \A j \in 1 .. 1 - 1 : legs[j].ns # request.primary
      BY <1>2, <2>1 DEF Names
    <3> HIDE DEF s
    <3>3. /\ Exact(s) /\ Names(s) = Names(legs) /\ Len(s) = Len(legs) /\ s \in Seq(Legs)
          /\ s[1].ns = request.primary /\ (legs[1].ns = request.primary => s = legs)
      <4>1. legs \in Seq(Legs) /\ Exact(legs) /\ 1 \in 1 .. Len(legs)
        BY ONLY <1>1, <3>2
      <4>2. /\ MovedUp(legs, request.primary, 1) \in Seq(Legs)
            /\ Len(MovedUp(legs, request.primary, 1)) = Len(legs)
            /\ MovedUp(legs, request.primary, 1)[1].ns = request.primary
            /\ Names(MovedUp(legs, request.primary, 1)) = Names(legs)
            /\ legs[1].ns = request.primary => MovedUp(legs, request.primary, 1) = legs
            /\ Exact(legs) => Exact(MovedUp(legs, request.primary, 1))
        BY ONLY <4>1, <2>1, <3>2, MovedUpFacts
      <4> QED BY ONLY <4>1, <4>2, <3>1
    <3>4. 1 \in DOMAIN s
      BY <3>2, <3>3
    <3> QED BY <3>3, <3>4
  <2>2. CASE request.primary \notin Names(legs)
    <3>1. s = legs
      BY <2>2 DEF PrimaryFirst
    <3> QED BY <1>1, <2>2, <3>1
  <2> QED BY <2>1, <2>2
<1> HIDE DEF s
<1>4. m \in Nat /\ m <= Len(s) /\ (m = MaxEntries \/ m = Len(s)) /\ m <= MaxEntries /\ (Len(s) # 0 => m >= 1)
  BY <1>2, <1>3
<1>5. /\ Exact(t) /\ DOMAIN t = 1 .. m /\ Len(t) = m /\ \A k \in 1 .. m : t[k] = s[k]
      /\ m = Len(s) => Names(t) = Names(s)
  BY <1>3, <1>4, CutFacts
<1> HIDE DEF t, m
<1>6. request.list = <<>> => 1 \in DOMAIN t /\ t[1].ns = request.primary /\ s = legs
  <2> SUFFICES ASSUME request.list = <<>> PROVE 1 \in DOMAIN t /\ t[1].ns = request.primary /\ s = legs
    OBVIOUS
  <2>1. 1 \in DOMAIN legs /\ legs[1].ns = request.primary
    BY <1>1 DEF FrontOK
  <2>2. legs # <<>> /\ Len(legs) >= 1
    BY <2>1, <1>2
  <2>3. s = legs
    BY <2>1, <2>2, <1>3
  <2>4. 1 \in 1 .. m
    <3>1. Len(s) # 0
      BY <2>2, <1>2, <1>3
    <3>2. m \in Nat /\ m >= 1
      BY <3>1, <1>4
    <3> QED BY <3>2
  <2>5. t[1] = s[1] /\ 1 \in DOMAIN t
    BY <2>4, <1>5
  <2> QED BY <2>1, <2>3, <2>5
<1>7. Granted(request.primary) # {} => request.primary \in Names(t)
  <2> SUFFICES ASSUME Granted(request.primary) # {} PROVE request.primary \in Names(t)
    OBVIOUS
  <2>1. request.primary \in Names(s)
    BY <1>1, <1>3, RequestFacts
  <2>2. 1 \in DOMAIN s /\ s[1].ns = request.primary
    BY <2>1, <1>3
  <2>3. 1 \in DOMAIN t /\ t[1] = s[1]
    BY <2>2, <1>3, <1>4, <1>5
  <2> QED BY <2>2, <2>3 DEF Names
<1>8. Cascades /\ GT # {} /\ request.home # NoPath /\ MaxEntries > 1 => request.home \in Names(t)
  <2> SUFFICES ASSUME Cascades, GT # {}, request.home # NoPath, MaxEntries > 1 PROVE request.home \in Names(t)
    OBVIOUS
  <2>1. request.list = <<>> /\ s = legs
    BY <1>1, <1>6
  <2>2. PICK k \in DOMAIN legs : legs[k].ns = request.home /\ (k <= 2 \/ Len(legs) <= MaxEntries)
    BY <1>1, <2>1 DEF FrontOK
  <2>3. k \in Nat /\ 1 <= k /\ k <= Len(legs) /\ Len(s) = Len(legs) /\ MaxEntries \in Nat
    BY <1>2, <1>3
  <2>4. k \in 1 .. m
    BY <2>2, <2>3, <1>2, <1>4
  <2> QED BY <1>5, <2>1, <2>2, <2>4 DEF Names
<1>9. Len(t) = MaxEntries \/ Names(t) = {ns \in Paths : Granted(ns) # {}}
  BY <1>1, <1>3, <1>4, <1>5
<1>10. Exact(legs)'
  BY <1>1, <1>5, ExactStays
<1>11. StagesOK(stage, legs)'
  BY <1>1 DEF StagesOK, Cascading
<1>12. FrontOK(stage, legs)'
  BY <1>1, <1>6 DEF FrontOK
<1>13. CutSpares'
  BY <1>1, <1>6, <1>7, <1>8, <1>9 DEF CutSpares, Granted, Own, Cascades, GT, LinkTiers
<1>14. ReadSetTypeOK'
  BY <1>1, <1>5 DEF ReadSetTypeOK, Exact
<1> QED BY <1>10, <1>11, <1>12, <1>13, <1>14 DEF ReadSetInv, Sound

LEMMA ReadSetInvariance == ReadSetSpec => []ReadSetInv
<1>1. ReadSetInv /\ [ReadSetNext]_readSetVars => ReadSetInv'
  <2> SUFFICES ASSUME ReadSetInv, [ReadSetNext]_readSetVars PROVE ReadSetInv'
    OBVIOUS
  <2>1. CASE Subtree
    BY <2>1, SubtreeKeeps
  <2>2. CASE Ancestors
    BY <2>2, AncestorsKeeps
  <2>3. CASE Home
    BY <2>3, HomeKeeps
  <2>4. CASE Links
    BY <2>4, LinksKeeps
  <2>5. CASE Protect
    BY <2>5, ProtectKeeps
  <2>6. CASE Explicit
    BY <2>6, ExplicitKeeps
  <2>7. CASE Clamp
    BY <2>7, ClampKeeps
  <2>8. CASE UNCHANGED readSetVars
    <3>1. UNCHANGED <<request, stage, legs>> /\ ReadSetTypeOK /\ Sound(stage, legs) /\ CutSpares
      BY <2>8 DEF readSetVars, ReadSetInv
    <3>2. ReadSetTypeOK' /\ FrontOK(stage, legs)'
      BY <3>1 DEF ReadSetTypeOK, Sound, FrontOK, Cascades, GT
    <3>3. Exact(legs)'
      <4>1. Exact(legs')
        BY <3>1 DEF Sound
      <4> QED BY <3>1, <4>1, ExactStays
    <3>4. StagesOK(stage, legs)'
      BY <3>1 DEF Sound, StagesOK, Reached, Granted, Own, Cascades, GT, LinkTiers
    <3>5. CutSpares'
      BY <3>1 DEF CutSpares, Granted, Own, Cascades, GT, LinkTiers
    <3> QED BY <3>2, <3>3, <3>4, <3>5 DEF ReadSetInv, Sound
  <2> QED BY <2>1, <2>2, <2>3, <2>4, <2>5, <2>6, <2>7, <2>8 DEF ReadSetNext
<1> QED BY <1>1, ReadSetInitInv, PTL DEF ReadSetSpec

(***************************************************************************)
(* Type correctness.                                                       *)
(***************************************************************************)
THEOREM ReadSetTypeCorrect == ReadSetSpec => []ReadSetTypeOK
<1>1. ReadSetInv => ReadSetTypeOK
  BY DEF ReadSetInv
<1> QED BY <1>1, ReadSetInvariance, PTL

(***************************************************************************)
(* However many segments, links and listed namespaces there are, the stages*)
(* of readset.go build exactly what a request is granted, each namespace   *)
(* once and with the widest of its grants: only durable tiers of another   *)
(* namespace, unless it is listed or in the subtree.                       *)
(***************************************************************************)
THEOREM ReadSetsExact == ReadSetSpec => []ReadSetExact
<1>1. ReadSetInv => ReadSetExact
  <2> SUFFICES ASSUME ReadSetInv PROVE ReadSetExact
    OBVIOUS
  <2>1. Exact(legs) /\ StagesOK(stage, legs)
    BY DEF ReadSetInv, Sound
  <2>2. stage \in {"protect", "clamp"} => Names(legs) = {ns \in Paths : Granted(ns) # {}}
    BY <2>1 DEF StagesOK, Reached, Cascading
  <2> QED BY <2>1, <2>2 DEF Exact, ReadSetExact
<1> QED BY <1>1, ReadSetInvariance, PTL

(***************************************************************************)
(* Whatever the cap, clampReadSet spares the namespace of the request and, *)
(* on the cascade, the home of the caller, and drops nothing that fits.    *)
(***************************************************************************)
THEOREM CutsSpare == ReadSetSpec => []CutSpares
<1>1. ReadSetInv => CutSpares
  BY DEF ReadSetInv
<1> QED BY <1>1, ReadSetInvariance, PTL

-----------------------------------------------------------------------------
(***************************************************************************)
(* Sets of places in ascending order.                                      *)
(***************************************************************************)
LEMMA FewPlaces ==
    ASSUME NEW N \in Nat, NEW S \in SUBSET (1 .. N)
    PROVE  IsFiniteSet(S) /\ Cardinality(S) \in Nat /\ Cardinality(S) <= N
<1>1. IsFiniteSet(1 .. N) /\ Cardinality(1 .. N) = N
  BY FS_Interval
<1>2. IsFiniteSet(S) /\ Cardinality(S) <= N
  BY <1>1, FS_Subset
<1> QED BY <1>2, FS_CardinalityType

Rising(f) == \A j, k \in DOMAIN f : j < k => f[j] < f[k]
Onto(f, S) == \A x \in S : \E k \in DOMAIN f : f[k] = x

LEMMA Enumerated ==
    ASSUME NEW N \in Nat, NEW S \in SUBSET (1 .. N)
    PROVE  \E f \in [1 .. Cardinality(S) -> S] : Rising(f) /\ Onto(f, S)
<1> DEFINE Listed(R) == \E f \in [1 .. Cardinality(R) -> R] : Rising(f) /\ Onto(f, R)
           T == {n \in Nat : \A R \in SUBSET (1 .. n) : Listed(R)}
<1>1. 0 \in T
  <2>1. ASSUME NEW R \in SUBSET (1 .. 0) PROVE Listed(R)
    <3>1. R = {} /\ Cardinality(R) = 0
      <4>1. R = {}
        OBVIOUS
      <4> QED BY <4>1, FS_EmptySet
    <3> DEFINE f == [k \in 1 .. 0 |-> k]
    <3>2. f \in [1 .. Cardinality(R) -> R] /\ Rising(f) /\ Onto(f, R)
      BY <3>1 DEF Rising, Onto
    <3> HIDE DEF f
    <3> QED BY <3>2
  <2> HIDE DEF Listed
  <2> QED BY <2>1
<1>2. \A n \in T : n + 1 \in T
  <2> HIDE DEF Listed
  <2> SUFFICES ASSUME NEW n \in Nat, \A R \in SUBSET (1 .. n) : Listed(R), NEW R \in SUBSET (1 .. n + 1)
               PROVE  Listed(R)
    OBVIOUS
  <2>1. CASE n + 1 \notin R
    <3>1. R \in SUBSET (1 .. n)
      BY <2>1
    <3> QED BY <3>1
  <2>2. CASE n + 1 \in R
    <3> DEFINE Q == R \ {n + 1}
               m == Cardinality(Q)
    <3>1. Q \in SUBSET (1 .. n)
      OBVIOUS
    <3>2. m \in Nat /\ Cardinality(R) = m + 1
      <4>1. IsFiniteSet(Q) /\ m \in Nat
        BY <3>1, FewPlaces
      <4>2. R = Q \cup {n + 1} /\ n + 1 \notin Q
        BY <2>2
      <4> HIDE DEF Q
      <4> QED BY <4>1, <4>2, FS_AddElement
    <3> HIDE DEF m
    <3>3. PICK g \in [1 .. m -> Q] : Rising(g) /\ Onto(g, Q)
      BY <3>1 DEF Listed, m
    <3> DEFINE f == [k \in 1 .. m + 1 |-> IF k = m + 1 THEN n + 1 ELSE g[k]]
    <3>4. f \in [1 .. m + 1 -> R]
      BY <2>2, <3>2
    <3>5. Rising(f)
      <4>1. \A k \in 1 .. m : g[k] \in 1 .. n
        BY <3>1
      <4>2. \A j, k \in 1 .. m : j < k => g[j] < g[k]
        BY <3>3 DEF Rising
      <4>3. ASSUME NEW j \in 1 .. m + 1, NEW k \in 1 .. m + 1, j < k PROVE f[j] < f[k]
        <5>1. CASE k = m + 1
          BY <4>1, <4>3, <5>1, <3>2
        <5>2. CASE k # m + 1
          BY <4>2, <4>3, <5>2, <3>2
        <5> QED BY <5>1, <5>2
      <4> QED BY <4>3 DEF Rising
    <3>6. Onto(f, R)
      <4>1. ASSUME NEW x \in R PROVE \E k \in 1 .. m + 1 : f[k] = x
        <5>1. CASE x = n + 1
          BY <5>1, <3>2
        <5>2. CASE x # n + 1
          <6>1. PICK k \in 1 .. m : g[k] = x
            BY <5>2, <3>3 DEF Onto
          <6>2. k \in 1 .. m + 1 /\ k # m + 1
            BY <3>2
          <6> QED BY <6>1, <6>2
        <5> QED BY <5>1, <5>2
      <4> QED BY <4>1 DEF Onto
    <3> HIDE DEF f
    <3> QED BY <3>2, <3>4, <3>5, <3>6 DEF Listed
  <2> QED BY <2>1, <2>2
<1> HIDE DEF Listed
<1>3. T = Nat
  <2> HIDE DEF T
  <2>1. T \in SUBSET Nat
    BY DEF T
  <2> QED BY <1>1, <1>2, <2>1, InductiveSet
<1>4. Listed(S)
  BY <1>3
<1> QED BY <1>4 DEF Listed

LEMMA AscendingFacts ==
    ASSUME NEW N \in Nat, NEW S \in SUBSET (1 .. N)
    PROVE  /\ Ascending(S) \in Seq(S) /\ Len(Ascending(S)) = Cardinality(S) /\ Cardinality(S) \in Nat
           /\ DOMAIN Ascending(S) = 1 .. Cardinality(S)
           /\ Rising(Ascending(S)) /\ Onto(Ascending(S), S)
           /\ \A k \in DOMAIN Ascending(S) : k <= Ascending(S)[k]
<1> DEFINE n == Cardinality(S)
           Lower(i) == {j \in S : j < i}
<1>1. n \in Nat
  BY FewPlaces
<1>2. PICK f \in [1 .. n -> S] : Rising(f) /\ Onto(f, S)
  BY Enumerated
<1> HIDE DEF n
<1>10. ASSUME NEW k \in 1 .. n PROVE f[k] \in S /\ f[k] \in Nat /\ f[k] >= 1
  <2>1. f[k] \in S
    BY <1>2
  <2>2. f[k] \in 1 .. N
    <3> HIDE DEF n
    <3> QED BY <2>1
  <2>3. \A j \in 1 .. N : j \in Nat /\ j >= 1
    OBVIOUS
  <2> QED BY <2>1, <2>2, <2>3
<1>3. ASSUME NEW k \in 1 .. n PROVE Cardinality(Lower(f[k])) = k - 1
  <2> DEFINE g == [m \in 1 .. k - 1 |-> f[m]]
             B == Lower(f[k])
  <2>1. \A i, j \in 1 .. n : f[i] \in Nat /\ (i < j => f[i] < f[j])
    BY <1>2, <1>10 DEF Rising
  <2>2. g \in [1 .. k - 1 -> B]
    BY <1>1, <2>1
  <2>3. \A i, j \in 1 .. k - 1 : g[i] = g[j] => i = j
    BY <1>1, <2>1
  <2>4. ASSUME NEW x \in B PROVE \E m \in 1 .. k - 1 : g[m] = x
    <3>1. PICK m \in 1 .. n : f[m] = x
      BY <1>2 DEF Onto
    <3>2. m < k
      BY <1>1, <2>1, <3>1
    <3> QED BY <1>1, <3>1, <3>2
  <2> HIDE DEF g, B
  <2>5. g \in Bijection(1 .. k - 1, B)
    BY <2>2, <2>3, <2>4 DEF Bijection, Injection, Surjection, IsInjective
  <2>6. k - 1 \in Nat /\ ExistsBijection(1 .. k - 1, B)
    BY <1>1, <2>5 DEF ExistsBijection
  <2> QED BY <2>6, FS_CountingElements DEF B
<1>4. \A k \in 1 .. n : \A i \in S : Cardinality(Lower(i)) = k - 1 => i = f[k]
  <2> SUFFICES ASSUME NEW k \in 1 .. n, NEW i \in S, Cardinality(Lower(i)) = k - 1 PROVE i = f[k]
    OBVIOUS
  <2>1. PICK m \in 1 .. n : f[m] = i
    BY <1>2 DEF Onto
  <2>2. Cardinality(Lower(i)) = m - 1
    BY <1>3, <2>1
  <2>3. m = k
    BY <1>1, <2>2
  <2> QED BY <2>1, <2>3
<1>5. ASSUME NEW k \in 1 .. n PROVE (CHOOSE i \in S : Cardinality(Lower(i)) = k - 1) = f[k]
  <2> HIDE DEF Lower
  <2>1. f[k] \in S /\ Cardinality(Lower(f[k])) = k - 1
    BY <1>3
  <2> QED BY <2>1, <1>4
<1>6. Ascending(S) = [k \in 1 .. n |-> CHOOSE i \in S : Cardinality(Lower(i)) = k - 1]
  BY DEF Ascending, n
<1> HIDE DEF Lower
<1>7. Ascending(S) = f
  BY <1>5, <1>6
<1>8. f \in Seq(S) /\ Len(f) = n /\ DOMAIN f = 1 .. n
  BY <1>1
<1>9. ASSUME NEW k \in 1 .. n PROVE k <= f[k]
  <2>1. f[k] \in Nat /\ f[k] >= 1
    BY <1>10
  <2>2. Lower(f[k]) \in SUBSET (1 .. f[k] - 1) /\ f[k] - 1 \in Nat
    <3>1. ASSUME NEW j \in Lower(f[k]) PROVE j \in 1 .. f[k] - 1
      <4>1. j \in S /\ j < f[k]
        BY DEF Lower
      <4>2. j \in Nat /\ j >= 1
        BY <4>1
      <4> QED BY <2>1, <4>1, <4>2
    <3> QED BY <2>1, <3>1
  <2>3. Cardinality(Lower(f[k])) <= f[k] - 1
    BY <2>2, FewPlaces
  <2>4. k - 1 <= f[k] - 1
    BY <2>3, <1>3
  <2> QED BY <2>1, <2>4, <1>1
<1> QED BY <1>1, <1>2, <1>7, <1>8, <1>9 DEF n
(***************************************************************************)
(* The inductive invariant of the durable reserve.                         *)
(*                                                                         *)
(* The places given up descend: behind each, the window has only durable   *)
(* candidates left.  The promoted ones descend in score too, so that the   *)
(* bar each passed beside one evicted holds beside every other.            *)
(***************************************************************************)
Window == DOMAIN ranked \cap 1 .. quota.limit
Promoted == selected \ 1 .. quota.limit
Dropped == Window \ selected

SortedOK == \A i, j \in DOMAIN ranked : i < j => Score(i) >= Score(j)

DurableOK ==
    phase = "durable" =>
        /\ order = [i \in DOMAIN ranked |-> i] /\ out = <<>>
        /\ next > quota.limit /\ \A i \in Promoted : i < next
        /\ Len(ranked) > quota.limit => Cardinality(selected) = quota.limit
        /\ Len(ranked) <= quota.limit => selected = DOMAIN ranked
        /\ \A i \in Promoted : Shows("durable", i)
        /\ \A e \in Dropped :
             ~Shows("durable", e) /\ \A l \in selected \cap 1 .. quota.limit : l > e => Shows("durable", l)
        /\ \A i \in Promoted, e \in Dropped : 2 * Score(i) >= Score(e)
        /\ 1 \in Dropped => quota.reserve >= quota.limit

(***************************************************************************)
(* Behind the first limit places, the order is still that of the score.    *)
(***************************************************************************)
RestOK ==
    phase # "durable" => \A k, l \in DOMAIN order : quota.limit < k /\ k < l => order[k] < order[l]

DedupOK ==
    phase = "dedup" =>
        /\ Earned("durable", Window, Places(First(order, quota.limit)))
        /\ Places(order) = DOMAIN ranked /\ Len(order) = Len(ranked)
        /\ quota.reserve < quota.limit /\ ranked # <<>> => order[1] = 1

(***************************************************************************)
(* The important reserve, of the places of the pool it has changed: they   *)
(* are behind the first limit, descend, and hold important candidates src *)
(* behind the pool.                                                        *)
(***************************************************************************)
Changed == {k \in DOMAIN order : k <= quota.pool /\ out[k] # order[k]}

ImportantOK ==
    phase \in {"important", "ranked"} =>
        /\ Len(out) = Len(order) /\ next > quota.pool
        /\ \A k \in DOMAIN order : k <= quota.limit \/ k >= next => out[k] = order[k]
        /\ \A k, l \in DOMAIN out : ranked[out[k]].text = ranked[out[l]].text => k = l
        /\ \A k \in Changed :
             /\ Shows("important", out[k]) /\ ~Shows("important", order[k])
             /\ \E j \in DOMAIN order : quota.pool < j /\ j < next /\ out[k] = order[j]
             /\ \A l \in Band : l > k => Shows("important", out[l])
        /\ \A k, l \in Changed : 2 * Score(out[k]) >= Score(order[l])

ReserveInv == ReserveTypeOK /\ SortedOK /\ DurableOK /\ RestOK /\ DedupOK /\ ImportantOK
LEMMA CallFacts ==
    ASSUME ReserveTypeOK
    PROVE  /\ Len(ranked) \in Nat /\ DOMAIN ranked = 1 .. Len(ranked)
           /\ quota.limit \in Nat /\ quota.limit >= 1 /\ quota.reserve \in Nat
           /\ quota.pool \in Nat /\ quota.pool > quota.limit /\ next \in Nat /\ next >= 1
           /\ \A i \in DOMAIN ranked : Score(i) \in Nat
           /\ Len(order) \in Nat /\ DOMAIN order = 1 .. Len(order) /\ \A k \in DOMAIN order : order[k] \in DOMAIN ranked
           /\ Len(out) \in Nat /\ DOMAIN out = 1 .. Len(out) /\ \A k \in DOMAIN out : out[k] \in DOMAIN ranked
<1> USE ReserveAssumption DEF ReserveTypeOK
<1>1. Len(ranked) \in Nat /\ DOMAIN ranked = 1 .. Len(ranked) /\ \A i \in DOMAIN ranked : ranked[i] \in Candidates
  OBVIOUS
<1>2. \A i \in DOMAIN ranked : Score(i) \in Nat
  BY <1>1 DEF Candidates, Score
<1>3. /\ quota.limit \in Nat /\ quota.limit >= 1 /\ quota.reserve \in Nat
      /\ quota.pool \in Nat /\ quota.pool > quota.limit
  OBVIOUS
<1>4. Len(order) \in Nat /\ DOMAIN order = 1 .. Len(order) /\ \A k \in DOMAIN order : order[k] \in DOMAIN ranked
  OBVIOUS
<1>5. Len(out) \in Nat /\ DOMAIN out = 1 .. Len(out) /\ \A k \in DOMAIN out : out[k] \in DOMAIN ranked
  OBVIOUS
<1>6. next \in Nat /\ next >= 1
  OBVIOUS
<1> QED BY <1>1, <1>2, <1>3, <1>4, <1>5, <1>6

LEMMA ConcatFacts ==
    ASSUME NEW S, NEW s \in Seq(S), NEW t \in Seq(S)
    PROVE  /\ s \o t \in Seq(S) /\ Len(s \o t) = Len(s) + Len(t)
           /\ \A k \in DOMAIN s : k \in DOMAIN (s \o t) /\ (s \o t)[k] = s[k]
           /\ \A k \in DOMAIN t : Len(s) + k \in DOMAIN (s \o t) /\ (s \o t)[Len(s) + k] = t[k]
           /\ Places(s \o t) = Places(s) \cup Places(t)
<1> DEFINE u == s \o t
<1>1. /\ Len(s) \in Nat /\ Len(t) \in Nat /\ DOMAIN s = 1 .. Len(s) /\ DOMAIN t = 1 .. Len(t)
      /\ u \in Seq(S) /\ Len(u) = Len(s) + Len(t) /\ DOMAIN u = 1 .. Len(s) + Len(t)
      /\ \A k \in 1 .. Len(s) + Len(t) : u[k] = IF k <= Len(s) THEN s[k] ELSE t[k - Len(s)]
  OBVIOUS
<1> HIDE DEF u
<1>2. \A k \in DOMAIN s : k \in DOMAIN u /\ u[k] = s[k]
  BY <1>1
<1>3. \A k \in DOMAIN t : Len(s) + k \in DOMAIN u /\ u[Len(s) + k] = t[k]
  BY <1>1
<1>4. \A k \in DOMAIN u : (k \in DOMAIN s /\ u[k] = s[k]) \/ (k - Len(s) \in DOMAIN t /\ u[k] = t[k - Len(s)])
  BY <1>1
<1>5. Places(u) \subseteq Places(s) \cup Places(t)
  BY <1>4 DEF Places
<1>6. Places(s) \cup Places(t) \subseteq Places(u)
  BY <1>2, <1>3 DEF Places
<1> QED BY <1>1, <1>2, <1>3, <1>5, <1>6 DEF u

LEMMA FirstFacts ==
    ASSUME NEW S, NEW s \in Seq(S), NEW m \in Nat
    PROVE  /\ First(s, m) \in Seq(S)
           /\ Len(First(s, m)) = IF m < Len(s) THEN m ELSE Len(s)
           /\ \A k \in DOMAIN First(s, m) : First(s, m)[k] = s[k]
           /\ Places(First(s, m)) = {s[k] : k \in {l \in DOMAIN s : l <= m}}
<1> DEFINE n == IF m < Len(s) THEN m ELSE Len(s)
           f == First(s, m)
<1>1. Len(s) \in Nat /\ DOMAIN s = 1 .. Len(s) /\ n \in Nat /\ n <= Len(s)
  OBVIOUS
<1>2. f = SubSeq(s, 1, n)
  BY DEF First
<1> HIDE DEF f
<1>3. f \in Seq(S) /\ Len(f) = n /\ DOMAIN f = 1 .. n /\ \A k \in 1 .. n : f[k] = s[k]
  BY <1>1, <1>2
<1>4. \A l : l \in 1 .. n <=> l \in DOMAIN s /\ l <= m
  BY <1>1
<1>5. Places(f) = {s[k] : k \in {l \in DOMAIN s : l <= m}}
  BY <1>3, <1>4 DEF Places
<1> QED BY <1>3, <1>5 DEF f

LEMMA ReserveInitInv == ReserveInit => ReserveInv
<1> SUFFICES ASSUME ReserveInit PROVE ReserveInv
  OBVIOUS
<1> USE ReserveAssumption
<1>1. PICK n \in 0 .. MaxRanked :
         \E score \in [1 .. n -> Scores], trait \in [1 .. n -> Traits], text \in Texts(n) :
            /\ \A i, j \in 1 .. n : i < j => score[i] >= score[j]
            /\ ranked = [i \in 1 .. n |-> [score |-> score[i], trait |-> trait[i], text |-> text[i]]]
  BY DEF ReserveInit
<1>2. PICK score \in [1 .. n -> Scores], trait \in [1 .. n -> Traits], text \in Texts(n) :
            /\ \A i, j \in 1 .. n : i < j => score[i] >= score[j]
            /\ ranked = [i \in 1 .. n |-> [score |-> score[i], trait |-> trait[i], text |-> text[i]]]
  BY <1>1
<1>3. n \in Nat /\ \A i \in 1 .. n : text[i] \in Nat
  BY DEF Texts
<1>4. ranked \in Seq(Candidates) /\ Len(ranked) = n /\ DOMAIN ranked = 1 .. n
  BY <1>2, <1>3 DEF Candidates
<1>5. SortedOK
  BY <1>2, <1>4 DEF SortedOK, Score
<1>6. /\ quota \in Quotas /\ phase = "durable" /\ order = [i \in 1 .. n |-> i] /\ out = <<>>
      /\ selected = {i \in 1 .. n : i <= quota.limit} /\ next = quota.limit + 1
  BY <1>4 DEF ReserveInit
<1>7. quota.limit \in Nat /\ quota.limit >= 1
  BY <1>6
<1>8. ReserveTypeOK
  <2>1. order \in Seq(DOMAIN ranked)
    BY <1>3, <1>4, <1>6
  <2>2. selected \in SUBSET DOMAIN ranked /\ out \in Seq(DOMAIN ranked) /\ next \in Nat \ {0}
    BY <1>4, <1>6, <1>7
  <2> QED BY <1>4, <1>6, <2>1, <2>2 DEF ReserveTypeOK
<1>9. DurableOK
  <2>1. Promoted = {} /\ Dropped = {}
    BY <1>4, <1>6, <1>7 DEF Promoted, Dropped, Window
  <2>2. Len(ranked) > quota.limit => Cardinality(selected) = quota.limit
    <3> SUFFICES ASSUME n > quota.limit PROVE Cardinality(selected) = quota.limit
      BY <1>4
    <3>1. selected = 1 .. quota.limit
      BY <1>3, <1>6, <1>7
    <3> QED BY <3>1, <1>7, FS_Interval
  <2>3. Len(ranked) <= quota.limit => selected = DOMAIN ranked
    BY <1>3, <1>4, <1>6, <1>7
  <2>4. next > quota.limit
    BY <1>6, <1>7
  <2> QED BY <1>4, <1>6, <2>1, <2>2, <2>3, <2>4 DEF DurableOK
<1>10. RestOK /\ DedupOK /\ ImportantOK
  BY <1>6 DEF RestOK, DedupOK, ImportantOK
<1> QED BY <1>5, <1>8, <1>9, <1>10 DEF ReserveInv

(***************************************************************************)
(* reserveDurableTiers.                                                    *)
(***************************************************************************)
LEMMA SkipDurableKeeps == ReserveInv /\ SkipDurable => ReserveInv'
<1> SUFFICES ASSUME ReserveInv, SkipDurable PROVE ReserveInv'
  OBVIOUS
<1>1. /\ phase = "durable" /\ next' = next + 1 /\ UNCHANGED <<ranked, quota, phase, order, selected, out>>
      /\ ReserveTypeOK /\ SortedOK /\ DurableOK
  BY DEF SkipDurable, WantsDurable, ReserveInv
<1>2. next \in Nat /\ next + 1 \in Nat \ {0} /\ next + 1 > next /\ quota.limit \in Nat /\ DOMAIN ranked \in SUBSET Nat
  BY <1>1, CallFacts
<1>3. ReserveTypeOK' /\ SortedOK'
  BY <1>1, <1>2 DEF ReserveTypeOK, SortedOK, Score
<1>4. DurableOK'
  <2>1. \A i \in Promoted : i < next + 1
    <3>1. Promoted \in SUBSET Nat
      BY <1>1, <1>2 DEF Promoted, ReserveTypeOK
    <3> QED BY <1>1, <1>2, <3>1 DEF DurableOK
  <2>2. next + 1 > quota.limit
    BY <1>1, <1>2 DEF DurableOK
  <2> QED BY <1>1, <2>1, <2>2 DEF DurableOK, Promoted, Dropped, Window, Shows, Score
<1>5. RestOK' /\ DedupOK' /\ ImportantOK'
  BY <1>1 DEF RestOK, DedupOK, ImportantOK
<1> QED BY <1>3, <1>4, <1>5 DEF ReserveInv

LEMMA PromoteDurableKeeps == ReserveInv /\ PromoteDurable => ReserveInv'
<1> SUFFICES ASSUME ReserveInv, PromoteDurable PROVE ReserveInv'
  OBVIOUS
<1> DEFINE L == quota.limit
<1>1. /\ phase = "durable" /\ next' = next + 1 /\ UNCHANGED <<ranked, quota, phase, order, out>>
      /\ ReserveTypeOK /\ SortedOK /\ DurableOK /\ next <= Len(ranked) /\ Shows("durable", next)
      /\ Few("durable", selected, IF quota.reserve > quota.limit THEN quota.limit ELSE quota.reserve)
  BY DEF PromoteDurable, WantsDurable, ReserveInv
<1>2. PICK e \in selected : MayPromote(next, e) /\ selected' = (selected \ {e}) \cup {next}
  BY DEF PromoteDurable
<1>3. /\ order = [i \in DOMAIN ranked |-> i] /\ next > L /\ (\A i \in Promoted : i < next)
      /\ \A i \in Promoted : Shows("durable", i)
      /\ \A d \in Dropped : ~Shows("durable", d) /\ \A l \in selected \cap 1 .. L : l > d => Shows("durable", l)
      /\ \A i \in Promoted, d \in Dropped : 2 * Score(i) >= Score(d)
      /\ 1 \in Dropped => quota.reserve >= quota.limit
  BY <1>1 DEF DurableOK
<1>4. /\ Len(ranked) \in Nat /\ DOMAIN ranked = 1 .. Len(ranked) /\ L \in Nat /\ L >= 1 /\ quota.reserve \in Nat
      /\ next \in Nat /\ next + 1 \in Nat \ {0} /\ \A i \in DOMAIN ranked : Score(i) \in Nat
  BY <1>1, CallFacts
<1>5. selected \in SUBSET (1 .. Len(ranked))
  BY <1>1, <1>4 DEF ReserveTypeOK
<1> HIDE DEF L
<1>6. next \in 1 .. Len(ranked) /\ Len(ranked) > L
  BY <1>1, <1>3, <1>4
<1>7. Cardinality(selected) = L
  BY <1>1, <1>6 DEF DurableOK, L
<1>8. /\ e \in 1 .. L /\ ~Shows("durable", e) /\ 2 * Score(next) >= Score(e)
      /\ \A l \in selected \cap 1 .. L : l > e => Shows("durable", l)
  <2>1. \A l \in selected : order[l] = l
    BY <1>3, <1>4, <1>5
  <2> QED BY <1>2, <2>1 DEF MayPromote, Evicted, Earns, L
<1>9. next \notin selected
  BY <1>3, <1>4 DEF Promoted, L
<1>10. Promoted' = Promoted \cup {next} /\ Dropped' = Dropped \cup {e}
  <2>1. next \notin 1 .. L
    BY <1>3, <1>4
  <2>2. e \in DOMAIN ranked
    BY <1>4, <1>5
  <2> QED BY <1>1, <1>2, <1>8, <2>1, <2>2 DEF Promoted, Dropped, Window, L
<1>11. \A d \in Dropped : d \in 1 .. Len(ranked) /\ d \in 1 .. L /\ e < d
  <2> TAKE d \in Dropped
  <2>1. d \in 1 .. Len(ranked) /\ d \in 1 .. L /\ d # e
    BY <1>4 DEF Dropped, Window, L
  <2>2. ~(e > d)
    BY <1>3, <1>8
  <2> QED BY <2>1, <2>2, <1>4, <1>8
<1>12. \A d \in Dropped : Score(e) >= Score(d)
  BY <1>1, <1>4, <1>5, <1>11 DEF SortedOK
<1>13. \A i \in Promoted : i \in DOMAIN ranked /\ Score(i) >= Score(next)
  BY <1>1, <1>3, <1>4, <1>5, <1>6 DEF SortedOK, Promoted
<1>14. \A i \in Promoted', d \in Dropped' : 2 * Score(i) >= Score(d)
  <2> TAKE i \in Promoted', d \in Dropped'
  <2>1. Score(next) \in Nat /\ Score(e) \in Nat
    BY <1>4, <1>5, <1>6
  <2>2. CASE i \in Promoted /\ d \in Dropped
    BY <1>3, <2>2
  <2>3. CASE i = next /\ d = e
    BY <1>8, <2>3
  <2>4. CASE i = next /\ d \in Dropped
    BY <1>4, <1>8, <1>11, <1>12, <2>1, <2>4
  <2>5. CASE i \in Promoted /\ d = e
    BY <1>4, <1>8, <1>13, <2>1, <2>5
  <2> QED BY <1>10, <2>2, <2>3, <2>4, <2>5
<1>15. Cardinality(selected') = L
  <2>1. IsFiniteSet(selected)
    BY <1>4, <1>5, FewPlaces
  <2>2. IsFiniteSet(selected \ {e}) /\ Cardinality(selected \ {e}) = L - 1
    BY <1>7, <2>1, FS_RemoveElement
  <2>3. Cardinality((selected \ {e}) \cup {next}) = (L - 1) + 1
    BY <1>9, <2>2, FS_AddElement
  <2> QED BY <1>2, <1>4, <2>3
<1>16. 1 \in Dropped' => quota.reserve >= L
  <2>1. CASE e = 1
    <3>1. {i \in selected : Shows("durable", i)} = selected \ {1}
      <4>1. \A i \in selected : i # 1 => Shows("durable", i)
        <5> TAKE i \in selected
        <5>1. i \in 1 .. Len(ranked)
          BY <1>5
        <5>2. CASE i \in 1 .. L
          BY <1>8, <2>1, <5>1, <5>2
        <5>3. CASE i \notin 1 .. L
          BY <1>3, <5>3 DEF Promoted, L
        <5> QED BY <5>2, <5>3
      <4> QED BY <4>1, <1>8, <2>1
    <3>2. Cardinality(selected \ {1}) = L - 1
      <4>1. IsFiniteSet(selected)
        BY <1>4, <1>5, FewPlaces
      <4> QED BY <4>1, <2>1, <1>7, FS_RemoveElement
    <3>3. L - 1 < IF quota.reserve > L THEN L ELSE quota.reserve
      BY <1>1, <3>1, <3>2 DEF Few, L
    <3> QED BY <1>4, <3>3
  <2>2. CASE 1 \in Dropped
    BY <1>3, <2>2 DEF L
  <2> QED BY <1>10, <2>1, <2>2
<1>17. \A d \in Dropped' : ~Shows("durable", d) /\ \A l \in selected' \cap 1 .. L : l > d => Shows("durable", l)
  <2>1. selected' \cap 1 .. L \subseteq selected \cap 1 .. L
    BY <1>2, <1>3, <1>4
  <2> QED BY <1>3, <1>8, <1>10, <2>1
<1>18. DurableOK'
  <2>1. next' > L /\ \A i \in Promoted' : i < next'
    BY <1>1, <1>3, <1>4, <1>10, <1>13
  <2>2. \A i \in Promoted' : Shows("durable", i)
    BY <1>1, <1>3, <1>10
  <2>3. UNCHANGED <<ranked, quota, order, out>> /\ L' = L /\ Len(ranked) > L /\ out = <<>>
    BY <1>1, <1>6 DEF L, DurableOK
  <2>4. ~(Len(ranked) <= L)
    BY <1>4, <1>6
  <2> QED BY <1>3, <1>14, <1>15, <1>16, <1>17, <2>1, <2>2, <2>3, <2>4 DEF DurableOK, L, Shows, Score
<1>19. ReserveTypeOK' /\ SortedOK'
  BY <1>1, <1>2, <1>4, <1>6 DEF ReserveTypeOK, SortedOK, Score
<1>20. RestOK' /\ DedupOK' /\ ImportantOK'
  BY <1>1 DEF RestOK, DedupOK, ImportantOK
<1> QED BY <1>18, <1>19, <1>20 DEF ReserveInv
(***************************************************************************)
(* The order the durable reserve returns: the selected first, whichever of *)
(* them were promoted, then the rest by score.                             *)
(***************************************************************************)
LEMMA ComposedFacts ==
    ASSUME ReserveTypeOK
    PROVE  /\ Composed \in Seq(DOMAIN ranked) /\ Len(Composed) = Len(ranked) /\ Places(Composed) = DOMAIN ranked
           /\ Cardinality(selected) \in Nat
           /\ {Composed[k] : k \in {l \in DOMAIN Composed : l <= Cardinality(selected)}} = selected
           /\ \A k, l \in DOMAIN Composed : Cardinality(selected) < k /\ k < l => Composed[k] < Composed[l]
           /\ 1 \in selected => Composed[1] = 1
<1> DEFINE n == Len(ranked)
           D == DOMAIN ranked
           W == selected \cap 1 .. quota.limit
           P == selected \ 1 .. quota.limit
           R == D \ selected
           window == Ascending(W)
           promoted == Ascending(P)
           rest == Ascending(R)
           head == First(window, 1)
           tail == SubSeq(window, 2, Len(window))
           front == head \o promoted \o tail
           c == front \o rest
<1>1. n \in Nat /\ D = 1 .. n /\ quota.limit \in Nat /\ quota.limit >= 1 /\ selected \in SUBSET D
  BY CallFacts DEF ReserveTypeOK
<1>2. W \in SUBSET (1 .. n) /\ P \in SUBSET (1 .. n) /\ R \in SUBSET (1 .. n)
  BY <1>1
<1>3. Composed = c
  BY DEF Composed
<1> HIDE DEF W, P, R, n
<1>4. /\ window \in Seq(W) /\ Len(window) = Cardinality(W) /\ Cardinality(W) \in Nat
      /\ Rising(window) /\ Onto(window, W) /\ DOMAIN window = 1 .. Cardinality(W)
      /\ \A k \in DOMAIN window : k <= window[k]
  BY <1>1, <1>2, AscendingFacts
<1>5. /\ promoted \in Seq(P) /\ Len(promoted) = Cardinality(P) /\ Cardinality(P) \in Nat /\ Onto(promoted, P)
      /\ DOMAIN promoted = 1 .. Cardinality(P)
  BY <1>1, <1>2, AscendingFacts
<1>6. /\ rest \in Seq(R) /\ Len(rest) = Cardinality(R) /\ Cardinality(R) \in Nat /\ Rising(rest) /\ Onto(rest, R)
      /\ DOMAIN rest = 1 .. Cardinality(R)
  BY <1>1, <1>2, AscendingFacts
<1> HIDE DEF window, promoted, rest
<1>7. Places(window) = W /\ Places(promoted) = P /\ Places(rest) = R
  BY <1>4, <1>5, <1>6 DEF Places, Onto
<1>8. W \subseteq D /\ P \subseteq D /\ R \subseteq D
  BY <1>1, <1>2
<1>9. window \in Seq(D) /\ promoted \in Seq(D) /\ rest \in Seq(D)
  BY <1>4, <1>5, <1>6, <1>8
<1>10. /\ head \in Seq(D) /\ tail \in Seq(D) /\ Len(head) + Len(tail) = Len(window)
       /\ Places(head) \cup Places(tail) = Places(window)
       /\ Len(window) # 0 => 1 \in DOMAIN head /\ head[1] = window[1]
  <2> DEFINE a == Len(window)
  <2>1. a \in Nat /\ DOMAIN window = 1 .. a /\ 1 \in Nat
    BY <1>4
  <2>2. /\ head \in Seq(D) /\ Len(head) = (IF 1 < a THEN 1 ELSE a)
        /\ \A k \in DOMAIN head : head[k] = window[k]
        /\ Places(head) = {window[k] : k \in {l \in DOMAIN window : l <= 1}}
    BY <1>9, <2>1, FirstFacts
  <2> HIDE DEF head
  <2>3. /\ tail \in Seq(D) /\ Len(tail) = (IF a = 0 THEN 0 ELSE a - 1)
        /\ \A k \in 1 .. Len(tail) : tail[k] = window[k + 1]
    BY <1>9, <2>1
  <2> HIDE DEF tail, a
  <2>4. DOMAIN tail = 1 .. Len(tail) /\ DOMAIN head = 1 .. Len(head)
    <3>1. head \in Seq(D) /\ tail \in Seq(D)
      BY <2>2, <2>3
    <3> HIDE DEF D
    <3> QED BY <3>1
  <2>5. Places(tail) = {window[k] : k \in {l \in DOMAIN window : l > 1}}
    <3>1. ASSUME NEW k \in DOMAIN tail PROVE k + 1 \in DOMAIN window /\ k + 1 > 1 /\ tail[k] = window[k + 1]
      BY <2>1, <2>3, <2>4
    <3>2. ASSUME NEW l \in DOMAIN window, l > 1 PROVE l - 1 \in DOMAIN tail /\ tail[l - 1] = window[l]
      <4>1. l - 1 \in 1 .. Len(tail) /\ (l - 1) + 1 = l
        BY <2>1, <2>3, <3>2
      <4> QED BY <4>1, <2>3, <2>4
    <3> QED BY <3>1, <3>2 DEF Places
  <2>6. Places(head) \cup Places(tail) = Places(window)
    <3>1. Places(head) = {window[k] : k \in {l \in DOMAIN window : l <= 1}}
      BY <2>2
    <3>2. \A l \in DOMAIN window : l <= 1 \/ l > 1
      BY <2>1
    <3>3. Places(window) = {window[k] : k \in DOMAIN window}
      BY DEF Places
    <3> QED BY <3>1, <3>2, <3>3, <2>5
  <2>7. Len(head) + Len(tail) = a
    BY <2>1, <2>2, <2>3
  <2>8. a # 0 => 1 \in DOMAIN head /\ head[1] = window[1]
    BY <2>1, <2>2, <2>4
  <2> QED BY <2>2, <2>3, <2>6, <2>7, <2>8 DEF a
<1> HIDE DEF head, tail
<1> DEFINE start == head \o promoted
<1>11. /\ start \in Seq(D) /\ Len(start) = Len(head) + Len(promoted)
       /\ \A k \in DOMAIN head : k \in DOMAIN start /\ start[k] = head[k]
       /\ Places(start) = Places(head) \cup Places(promoted)
  BY <1>9, <1>10, ConcatFacts
<1>12. front = start \o tail
  OBVIOUS
<1> HIDE DEF start, front
<1>13. /\ front \in Seq(D) /\ Len(front) = Len(start) + Len(tail)
       /\ \A k \in DOMAIN start : k \in DOMAIN front /\ front[k] = start[k]
       /\ Places(front) = Places(start) \cup Places(tail)
  BY <1>10, <1>11, <1>12, ConcatFacts
<1>14. /\ c \in Seq(D) /\ Len(c) = Len(front) + Len(rest)
       /\ \A k \in DOMAIN front : k \in DOMAIN c /\ c[k] = front[k]
       /\ \A k \in DOMAIN rest : Len(front) + k \in DOMAIN c /\ c[Len(front) + k] = rest[k]
       /\ Places(c) = Places(front) \cup Places(rest)
  <2>1. front \in Seq(D) /\ rest \in Seq(D)
    BY <1>9, <1>13
  <2> HIDE DEF D
  <2> QED BY <2>1, ConcatFacts
<1> HIDE DEF c
<1>15. Places(front) = selected /\ Places(c) = D
  <2>1. Places(front) = W \cup P
    BY <1>7, <1>10, <1>11, <1>13
  <2>2. W \cup P = selected /\ selected \cup R = D
    BY <1>1 DEF W, P, R
  <2> QED BY <2>1, <2>2, <1>7, <1>14
<1>16. Len(front) = Cardinality(selected) /\ Cardinality(selected) \in Nat /\ Len(c) = n
  <2>1. IsFiniteSet(W) /\ IsFiniteSet(P) /\ IsFiniteSet(R)
    BY <1>1, <1>2, FewPlaces
  <2>2. W \cup P = selected /\ W \cap P = {} /\ selected \cup R = D /\ selected \cap R = {}
    BY <1>1 DEF W, P, R
  <2>3. Cardinality({}) = 0 /\ Cardinality(D) = n
    BY <1>1, FS_EmptySet, FS_Interval
  <2>4. IsFiniteSet(selected) /\ Cardinality(selected) = Cardinality(W) + Cardinality(P) - 0
    BY <2>1, <2>2, <2>3, FS_Union
  <2>5. Cardinality(D) = Cardinality(selected) + Cardinality(R) - 0
    BY <2>1, <2>2, <2>3, <2>4, FS_Union
  <2>6. Len(front) = Len(head) + Len(promoted) + Len(tail) /\ Len(head) \in Nat /\ Len(tail) \in Nat
    BY <1>10, <1>11, <1>13
  <2>7. Len(front) = Cardinality(selected)
    BY <2>4, <2>6, <1>4, <1>5, <1>10
  <2> QED BY <2>3, <2>4, <2>5, <2>7, <1>4, <1>5, <1>6, <1>14
<1> DEFINE m == Cardinality(selected)
<1> HIDE DEF m
<1>17. /\ m \in Nat /\ Len(front) = m /\ DOMAIN front = 1 .. m /\ DOMAIN c = 1 .. n /\ Len(rest) = n - m /\ m <= n
  BY <1>6, <1>13, <1>14, <1>16 DEF m
<1>18. {c[k] : k \in {l \in DOMAIN c : l <= m}} = selected
  <2>1. \A l : l \in DOMAIN c /\ l <= m <=> l \in DOMAIN front
    BY <1>1, <1>17
  <2> QED BY <2>1, <1>14, <1>15 DEF Places
<1>19. \A k, l \in DOMAIN c : m < k /\ k < l => c[k] < c[l]
  <2> SUFFICES ASSUME NEW k \in DOMAIN c, NEW l \in DOMAIN c, m < k, k < l PROVE c[k] < c[l]
    OBVIOUS
  <2>1. k - m \in DOMAIN rest /\ l - m \in DOMAIN rest /\ k - m < l - m /\ m + (k - m) = k /\ m + (l - m) = l
    <3>1. DOMAIN rest = 1 .. n - m
      BY <1>6, <1>17
    <3>2. k \in 1 .. n /\ l \in 1 .. n
      BY <1>17
    <3>3. n \in Nat /\ m \in Nat
      BY <1>1, <1>17
    <3>4. k - m \in 1 .. n - m /\ l - m \in 1 .. n - m /\ k - m < l - m /\ m + (k - m) = k /\ m + (l - m) = l
      BY <3>2, <3>3
    <3> QED BY <3>1, <3>4
  <2>2. c[k] = rest[k - m] /\ c[l] = rest[l - m]
    BY <2>1, <1>14, <1>17
  <2> QED BY <2>1, <2>2, <1>6 DEF Rising
<1>20. 1 \in selected => c[1] = 1
  <2> SUFFICES ASSUME 1 \in selected PROVE c[1] = 1
    OBVIOUS
  <2>1. 1 \in W
    BY <1>1 DEF W
  <2>2. PICK k \in DOMAIN window : window[k] = 1
    BY <2>1, <1>4 DEF Onto
  <2>3. k = 1 /\ Len(window) # 0
    BY <2>2, <1>4
  <2>4. 1 \in DOMAIN head /\ head[1] = 1
    BY <2>2, <2>3, <1>10
  <2> QED BY <2>4, <1>11, <1>13, <1>14
<1> QED BY <1>3, <1>14, <1>15, <1>16, <1>18, <1>19, <1>20 DEF m, n

LEMMA EndDurableKeeps == ReserveInv /\ EndDurable => ReserveInv'
<1> SUFFICES ASSUME ReserveInv, EndDurable PROVE ReserveInv'
  OBVIOUS
<1> DEFINE c == Composed
           L == quota.limit
           n == Len(ranked)
           m == Cardinality(selected)
<1>1. /\ phase = "durable" /\ order' = c /\ phase' = "dedup" /\ UNCHANGED <<ranked, quota, selected, out, next>>
      /\ ReserveTypeOK /\ SortedOK /\ DurableOK
  BY DEF EndDurable, ReserveInv
<1>2. n \in Nat /\ DOMAIN ranked = 1 .. n /\ L \in Nat /\ L >= 1 /\ selected \in SUBSET (1 .. n)
  BY <1>1, CallFacts DEF ReserveTypeOK
<1>3. /\ c \in Seq(DOMAIN ranked) /\ Len(c) = n /\ Places(c) = DOMAIN ranked /\ m \in Nat
      /\ {c[k] : k \in {l \in DOMAIN c : l <= m}} = selected
      /\ \A k, l \in DOMAIN c : m < k /\ k < l => c[k] < c[l]
      /\ 1 \in selected => c[1] = 1
  BY <1>1, ComposedFacts
<1>4. DOMAIN c = 1 .. n
  BY <1>2, <1>3
<1>5. Len(ranked) > L => m = L
  BY <1>1 DEF DurableOK
<1>6. Len(ranked) <= L => selected = DOMAIN ranked /\ m = n
  <2>1. Cardinality(1 .. n) = n
    <3>1. n \in Nat
      BY <1>2
    <3> HIDE DEF n
    <3>2. 1 \in Int /\ n \in Int /\ (1 > n => n = 0) /\ n - 1 + 1 = n
      BY <3>1
    <3> QED BY <3>2, FS_Interval
  <2>2. Len(ranked) <= L => selected = 1 .. n
    BY <1>1, <1>2 DEF DurableOK
  <2> QED BY <1>2, <2>1, <2>2
<1> HIDE DEF c, m, n, L
<1>7. Places(First(c, L)) = selected
  <2>1. Places(First(c, L)) = {c[k] : k \in {l \in DOMAIN c : l <= L}}
    <3>1. c \in Seq(DOMAIN ranked) /\ L \in Nat
      BY <1>2, <1>3
    <3> QED BY <3>1, FirstFacts
  <2>2. \A l \in DOMAIN c : l <= L <=> l <= m
    BY <1>2, <1>4, <1>5, <1>6 DEF n
  <2> QED BY <2>1, <2>2, <1>3
<1>8. Earned("durable", Window, selected)
  <2>1. \A i \in selected \ Window : i \in Promoted
    BY <1>2 DEF Window, Promoted, n
  <2> QED BY <2>1, <1>1 DEF DurableOK, Dropped, Earned
<1>9. quota.reserve < quota.limit /\ ranked # <<>> => c[1] = 1
  <2> SUFFICES ASSUME quota.reserve < quota.limit, ranked # <<>> PROVE c[1] = 1
    OBVIOUS
  <2>1. 1 \in Window
    BY <1>1, <1>2 DEF Window, L, n, ReserveTypeOK
  <2>2. quota.reserve \in Nat /\ quota.limit \in Nat
    BY <1>1, CallFacts
  <2>3. 1 \notin Dropped
    BY <1>1, <2>2 DEF DurableOK
  <2> QED BY <2>1, <2>3, <1>3 DEF Dropped
<1>10. DedupOK'
  <2>1. Earned("durable", Window, Places(First(order, quota.limit)))'
    BY <1>1, <1>7, <1>8 DEF Earned, Window, Shows, Score, L
  <2>2. Places(order') = DOMAIN ranked' /\ Len(order') = Len(ranked')
    BY <1>1, <1>3 DEF n
  <2> QED BY <1>1, <1>9, <2>1, <2>2 DEF DedupOK
<1>11. RestOK'
  <2>1. ASSUME NEW k \in DOMAIN c, NEW l \in DOMAIN c, L < k, k < l PROVE c[k] < c[l]
    <3>1. n > L
      BY <2>1, <1>2, <1>4
    <3>2. m = L
      BY <3>1, <1>5 DEF n
    <3> QED BY <2>1, <3>2, <1>3
  <2> QED BY <1>1, <2>1 DEF RestOK, L
<1>12. ReserveTypeOK' /\ SortedOK'
  BY <1>1, <1>3 DEF ReserveTypeOK, SortedOK, Score
<1>13. DurableOK' /\ ImportantOK'
  BY <1>1 DEF DurableOK, ImportantOK
<1> QED BY <1>10, <1>11, <1>12, <1>13 DEF ReserveInv
(***************************************************************************)
(* Dedup.                                                                  *)
(***************************************************************************)
LEMMA DropDuplicatesKeeps == ReserveInv /\ DropDuplicates => ReserveInv'
<1> SUFFICES ASSUME ReserveInv, DropDuplicates PROVE ReserveInv'
  OBVIOUS
<1> DEFINE n == Len(order)
           K == {k \in DOMAIN order : \A l \in 1 .. k - 1 : ranked[order[l]].text # ranked[order[k]].text}
           kept == Ascending(K)
           left == [p \in DOMAIN kept |-> order[kept[p]]]
<1>1. /\ phase = "dedup" /\ order' = left /\ out' = left /\ phase' = "important" /\ next' = quota.pool + 1
      /\ UNCHANGED <<ranked, quota, selected>> /\ ReserveTypeOK /\ SortedOK /\ RestOK
  BY DEF DropDuplicates, ReserveInv
<1>2. /\ n \in Nat /\ DOMAIN order = 1 .. n /\ (\A k \in DOMAIN order : order[k] \in DOMAIN ranked)
      /\ quota.limit \in Nat /\ quota.pool \in Nat /\ quota.pool > quota.limit
  BY <1>1, CallFacts
<1>3. K \in SUBSET (1 .. n)
  BY <1>2
<1>4. /\ Cardinality(K) \in Nat /\ DOMAIN kept = 1 .. Cardinality(K) /\ kept \in Seq(K)
      /\ Rising(kept) /\ \A p \in DOMAIN kept : p <= kept[p]
  <2> HIDE DEF K, n
  <2> QED BY <1>2, <1>3, AscendingFacts
<1> HIDE DEF kept, n
<1>5. \A p \in DOMAIN kept : p \in Nat /\ kept[p] \in K /\ kept[p] \in 1 .. n
  <2>1. ASSUME NEW p \in DOMAIN kept PROVE p \in Nat /\ kept[p] \in K
    <3> HIDE DEF K
    <3> QED BY <1>4
  <2> QED BY <2>1, <1>3
<1>6. \A p, q \in DOMAIN kept : p < q => kept[p] < kept[q]
  BY <1>4 DEF Rising
<1>7. left \in Seq(DOMAIN ranked) /\ DOMAIN left = DOMAIN kept
  <2>1. \A p \in DOMAIN kept : order[kept[p]] \in DOMAIN ranked
    BY <1>2, <1>5
  <2>2. Cardinality(K) \in Nat /\ DOMAIN kept = 1 .. Cardinality(K)
    BY <1>4
  <2> HIDE DEF K
  <2> QED BY <2>1, <2>2
<1>8. \A p, q \in DOMAIN left : quota.limit < p /\ p < q => left[p] < left[q]
  <2> SUFFICES ASSUME NEW p \in DOMAIN kept, NEW q \in DOMAIN kept, quota.limit < p, p < q
               PROVE  order[kept[p]] < order[kept[q]]
    BY <1>7
  <2>1. kept[p] \in DOMAIN order /\ kept[q] \in DOMAIN order /\ quota.limit < kept[p] /\ kept[p] < kept[q]
    <3>1. kept[p] < kept[q] /\ p <= kept[p] /\ p \in Nat /\ kept[p] \in 1 .. n /\ kept[q] \in 1 .. n
      <4> HIDE DEF K
      <4>1. p <= kept[p]
        BY <1>4
      <4> QED BY <4>1, <1>5, <1>6
    <3>2. quota.limit < kept[p]
      BY <3>1, <1>2
    <3> QED BY <3>1, <3>2, <1>2
  <2> QED BY <2>1, <1>1 DEF RestOK
<1>9. \A p, q \in DOMAIN left : ranked[left[p]].text = ranked[left[q]].text => p = q
  <2>1. ASSUME NEW p \in DOMAIN kept, NEW q \in DOMAIN kept, p < q
        PROVE  ranked[order[kept[p]]].text # ranked[order[kept[q]]].text
    <3>1. kept[p] \in 1 .. kept[q] - 1 /\ kept[q] \in K
      BY <2>1, <1>2, <1>5, <1>6
    <3> QED BY <3>1
  <2> QED BY <2>1, <1>5, <1>7
<1> HIDE DEF left, K
<1>10. /\ ReserveTypeOK' /\ SortedOK' /\ DurableOK' /\ DedupOK'
  <2>1. quota.pool + 1 \in Nat \ {0}
    BY <1>2
  <2> QED BY <2>1, <1>1, <1>7 DEF ReserveTypeOK, SortedOK, Score, DurableOK, DedupOK
<1>11. RestOK'
  BY <1>1, <1>8 DEF RestOK
<1>12. ImportantOK'
  <2>1. Changed' = {}
    BY <1>1 DEF Changed
  <2>2. quota.pool + 1 > quota.pool
    BY <1>2
  <2> QED BY <2>1, <2>2, <1>1, <1>9 DEF ImportantOK
<1> QED BY <1>10, <1>11, <1>12 DEF ReserveInv

(***************************************************************************)
(* reserveImportantPool.                                                   *)
(***************************************************************************)
LEMMA SkipImportantKeeps == ReserveInv /\ SkipImportant => ReserveInv'
<1> SUFFICES ASSUME ReserveInv, SkipImportant PROVE ReserveInv'
  OBVIOUS
<1>1. /\ phase = "important" /\ next' = next + 1 /\ UNCHANGED <<ranked, quota, phase, order, selected, out>>
      /\ ReserveTypeOK /\ SortedOK /\ RestOK /\ ImportantOK
  BY DEF SkipImportant, WantsImportant, ReserveInv
<1>2. /\ next \in Nat /\ next + 1 \in Nat \ {0} /\ quota.pool \in Nat
      /\ DOMAIN order = 1 .. Len(order) /\ Len(order) \in Nat
  BY <1>1, CallFacts
<1>3. \A j \in DOMAIN order : (j < next => j < next + 1) /\ (j >= next + 1 => j >= next)
  BY <1>2
<1>4. next + 1 > quota.pool
  BY <1>1, <1>2 DEF ImportantOK
<1>5. ReserveTypeOK' /\ SortedOK' /\ DurableOK' /\ DedupOK' /\ RestOK'
  BY <1>1, <1>2 DEF ReserveTypeOK, SortedOK, Score, DurableOK, DedupOK, RestOK
<1>6. ImportantOK'
  BY <1>1, <1>3, <1>4 DEF ImportantOK, Changed, Band, Shows, Score
<1> QED BY <1>5, <1>6 DEF ReserveInv

LEMMA SwapImportantKeeps == ReserveInv /\ SwapImportant => ReserveInv'
<1> SUFFICES ASSUME ReserveInv, SwapImportant PROVE ReserveInv'
  OBVIOUS
<1> DEFINE n == Len(order)
           L == quota.limit
           pool == quota.pool
<1>1. /\ phase = "important" /\ next' = next + 1 /\ UNCHANGED <<ranked, quota, phase, order, selected>>
      /\ ReserveTypeOK /\ SortedOK /\ RestOK /\ ImportantOK /\ next <= Len(out) /\ Shows("important", out[next])
  BY DEF SwapImportant, WantsImportant, ReserveInv
<1>2. PICK e \in Band : MaySwap(next, e) /\ out' = [out EXCEPT ![e] = out[next], ![next] = out[e]]
  BY DEF SwapImportant
<1>3. /\ Len(out) = n /\ next > pool
      /\ \A k \in DOMAIN order : k <= L \/ k >= next => out[k] = order[k]
      /\ \A k, l \in DOMAIN out : ranked[out[k]].text = ranked[out[l]].text => k = l
      /\ \A k \in Changed :
           /\ Shows("important", out[k]) /\ ~Shows("important", order[k])
           /\ \E j \in DOMAIN order : pool < j /\ j < next /\ out[k] = order[j]
           /\ \A l \in Band : l > k => Shows("important", out[l])
      /\ \A k, l \in Changed : 2 * Score(out[k]) >= Score(order[l])
  BY <1>1 DEF ImportantOK
<1>4. /\ L \in Nat /\ L >= 1 /\ pool \in Nat /\ pool > L /\ next \in Nat /\ next + 1 \in Nat \ {0}
      /\ n \in Nat /\ DOMAIN order = 1 .. n
      /\ (\A i \in DOMAIN ranked : Score(i) \in Nat)
      /\ DOMAIN ranked \in SUBSET Nat
      /\ (\A k \in DOMAIN order : order[k] \in DOMAIN ranked) /\ (\A k \in DOMAIN out : out[k] \in DOMAIN ranked)
      /\ DOMAIN out = 1 .. Len(out)
  BY <1>1, CallFacts
<1> HIDE DEF n
<1>5. DOMAIN out = 1 .. n /\ next \in 1 .. n
  BY <1>1, <1>3, <1>4
<1>6. e \in 1 .. n /\ e > L /\ e <= pool /\ e < next /\ Band = L + 1 .. pool
  BY <1>3, <1>4, <1>5 DEF Band
<1> HIDE DEF L, pool
<1>7. /\ ~Shows("important", out[e]) /\ 2 * Score(out[next]) >= Score(out[e])
      /\ \A l \in Band : l > e => Shows("important", out[l])
  BY <1>2 DEF MaySwap, Evicted, Earns
<1>8. e \notin Changed /\ out[e] = order[e] /\ out[next] = order[next]
  <2>1. e \notin Changed
    BY <1>3, <1>7
  <2> QED BY <2>1, <1>3, <1>4, <1>5, <1>6 DEF Changed, pool
<1>9. /\ out'[e] = out[next] /\ out'[next] = out[e] /\ DOMAIN out' = 1 .. n
      /\ \A k \in 1 .. n : k # e /\ k # next => out'[k] = out[k]
  BY <1>2, <1>5, <1>6
<1>10. out' \in Seq(DOMAIN ranked) /\ Len(out') = n
  <2>1. out[e] \in DOMAIN ranked /\ out[next] \in DOMAIN ranked
    BY <1>4, <1>5, <1>6
  <2>2. out \in Seq(DOMAIN ranked)
    BY <1>1 DEF ReserveTypeOK
  <2>3. \A k \in 1 .. n : out'[k] \in DOMAIN ranked
    BY <1>4, <1>5, <1>9, <2>1
  <2>4. out' = [k \in 1 .. n |-> out'[k]]
    BY <1>2, <1>5
  <2> QED BY <2>3, <2>4, <1>4
<1>11. Changed' = Changed \cup {e}
  <2>1. order[next] # order[e]
    BY <1>1, <1>7, <1>8
  <2>2. \A k \in 1 .. n : k <= pool => k # next
    BY <1>3, <1>4 DEF pool
  <2>3. \A k \in 1 .. n : k <= pool => (out'[k] # order[k] <=> out[k] # order[k] \/ k = e)
    BY <2>1, <2>2, <1>8, <1>9
  <2> QED BY <2>3, <1>1, <1>4, <1>6 DEF Changed, pool
<1>12. \A k \in Changed : k \in 1 .. n /\ L < k /\ k <= pool /\ e < k /\ k # next
  <2> TAKE k \in Changed
  <2>1. k \in 1 .. n /\ k <= pool /\ out[k] # order[k]
    BY <1>4 DEF Changed, pool
  <2>2. ~(k <= L)
    BY <2>1, <1>3, <1>4
  <2>3. ~(e > k) /\ e # k
    BY <1>3, <1>7, <1>8
  <2>4. L < k
    <3>1. k \in Nat /\ L \in Nat
      BY <2>1, <1>4
    <3> QED BY <3>1, <2>2
  <2> QED BY <2>1, <2>4, <2>3, <1>3, <1>4, <1>6 DEF pool, L
<1>13. ASSUME NEW k \in 1 .. n, NEW l \in 1 .. n, L < k, k < l PROVE Score(order[k]) >= Score(order[l])
  <2>1. order[k] < order[l]
    BY <1>1, <1>4, <1>13 DEF RestOK, L
  <2> QED BY <2>1, <1>1, <1>4 DEF SortedOK
<1>14. \A k \in Changed : Score(order[e]) >= Score(order[k])
  BY <1>6, <1>12, <1>13
<1>15. \A k \in Changed : Score(out[k]) >= Score(order[next])
  <2> TAKE k \in Changed
  <2>1. PICK j \in DOMAIN order : pool < j /\ j < next /\ out[k] = order[j]
    BY <1>3 DEF pool
  <2>2. L < j
    BY <2>1, <1>4 DEF L, pool
  <2> QED BY <2>1, <2>2, <1>4, <1>5, <1>13
<1>16. \A k \in Changed' :
         /\ Shows("important", out'[k]) /\ ~Shows("important", order[k])
         /\ \E j \in DOMAIN order : pool < j /\ j < next + 1 /\ out'[k] = order[j]
         /\ \A l \in Band : l > k => Shows("important", out'[l])
  <2> TAKE k \in Changed'
  <2>1. \A l \in Band : l # next /\ l \in 1 .. n
    BY <1>3, <1>4, <1>5, <1>6 DEF L, pool
  <2>2. \A l \in Band : Shows("important", out[l]) => Shows("important", out'[l])
    <3> TAKE l \in Band
    <3>1. CASE l = e
      BY <3>1, <1>1, <1>9
    <3>2. CASE l # e
      BY <3>2, <2>1, <1>9
    <3> QED BY <3>1, <3>2
  <2>3. CASE k = e
    <3>1. next \in DOMAIN order /\ pool < next /\ next < next + 1 /\ out'[k] = order[next]
      BY <2>3, <1>3, <1>4, <1>5, <1>8, <1>9 DEF pool
    <3>2. Shows("important", out'[k]) /\ ~Shows("important", order[k])
      BY <2>3, <1>1, <1>7, <1>8, <1>9
    <3> QED BY <3>1, <3>2, <2>2, <2>3, <1>7
  <2>4. CASE k \in Changed
    <3>1. out'[k] = out[k]
      BY <2>4, <1>9, <1>12
    <3>2. PICK j \in DOMAIN order : pool < j /\ j < next /\ out[k] = order[j]
      BY <2>4, <1>3 DEF pool
    <3>3. j < next + 1
      BY <3>2, <1>4
    <3> QED BY <3>1, <3>2, <3>3, <2>2, <2>4, <1>3
  <2> QED BY <2>3, <2>4, <1>11
<1>17. \A k, l \in Changed' : 2 * Score(out'[k]) >= Score(order[l])
  <2> TAKE k \in Changed', l \in Changed'
  <2>1. \A i \in 1 .. n : Score(order[i]) \in Nat /\ Score(out[i]) \in Nat
    BY <1>4, <1>5
  <2>2. \A i \in Changed : out'[i] = out[i] /\ i \in 1 .. n
    BY <1>9, <1>12
  <2>3. CASE k \in Changed /\ l \in Changed
    BY <2>2, <2>3, <1>3
  <2>4. CASE k = e /\ l = e
    BY <2>4, <1>7, <1>8, <1>9
  <2>5. CASE k = e /\ l \in Changed
    <3>1. Score(order[e]) >= Score(order[l]) /\ 2 * Score(out[next]) >= Score(order[e]) /\ out'[k] = out[next]
      BY <2>5, <1>7, <1>8, <1>9, <1>14
    <3>2. Score(order[e]) \in Nat /\ Score(order[l]) \in Nat /\ Score(out[next]) \in Nat
      BY <2>1, <2>2, <2>5, <1>5, <1>6
    <3> QED BY <3>1, <3>2
  <2>6. CASE k \in Changed /\ l = e
    <3>1. Score(out[k]) >= Score(out[next]) /\ 2 * Score(out[next]) >= Score(order[e]) /\ out'[k] = out[k]
      BY <2>2, <2>6, <1>7, <1>8, <1>15
    <3>2. Score(order[e]) \in Nat /\ Score(out[k]) \in Nat /\ Score(out[next]) \in Nat
      BY <2>1, <2>2, <2>6, <1>5, <1>6
    <3> QED BY <2>6, <3>1, <3>2
  <2> QED BY <2>3, <2>4, <2>5, <2>6, <1>11
<1>18. \A k, l \in DOMAIN out' : ranked[out'[k]].text = ranked[out'[l]].text => k = l
  <2> DEFINE src == [k \in 1 .. n |-> IF k = e THEN next ELSE IF k = next THEN e ELSE k]
  <2>1. \A k \in 1 .. n : src[k] \in 1 .. n /\ out'[k] = out[src[k]]
    BY <1>5, <1>6, <1>9
  <2>2. \A k, l \in 1 .. n : src[k] = src[l] => k = l
    BY <1>5, <1>6
  <2> HIDE DEF src
  <2> QED BY <2>1, <2>2, <1>3, <1>5, <1>9
<1>19. \A k \in DOMAIN order : k <= L \/ k >= next + 1 => out'[k] = order[k]
  <2> TAKE k \in DOMAIN order
  <2>1. k \in 1 .. n /\ (k <= L \/ k >= next + 1 => k # e /\ k # next /\ (k <= L \/ k >= next))
    BY <1>4, <1>6
  <2> QED BY <2>1, <1>3, <1>9 DEF L
<1>20. ImportantOK'
  <2>1. next + 1 > pool
    BY <1>3, <1>4 DEF pool
  <2> QED BY <2>1, <1>1, <1>10, <1>16, <1>17, <1>18, <1>19 DEF ImportantOK, Band, Shows, Score, L, pool, n
<1>21. ReserveTypeOK' /\ SortedOK' /\ DurableOK' /\ DedupOK' /\ RestOK'
  BY <1>1, <1>4, <1>10 DEF ReserveTypeOK, SortedOK, Score, DurableOK, DedupOK, RestOK
<1> QED BY <1>20, <1>21 DEF ReserveInv

LEMMA EndImportantKeeps == ReserveInv /\ EndImportant => ReserveInv'
<1> SUFFICES ASSUME ReserveInv, EndImportant PROVE ReserveInv'
  OBVIOUS
<1>1. /\ phase = "important" /\ phase' = "ranked" /\ UNCHANGED <<ranked, quota, order, selected, out, next>>
      /\ ReserveTypeOK /\ SortedOK /\ RestOK /\ ImportantOK
  BY DEF EndImportant, ReserveInv
<1>2. ReserveTypeOK' /\ SortedOK' /\ DurableOK' /\ DedupOK' /\ RestOK'
  BY <1>1 DEF ReserveTypeOK, SortedOK, Score, DurableOK, DedupOK, RestOK
<1>3. ImportantOK'
  BY <1>1 DEF ImportantOK, Changed, Band, Shows, Score
<1> QED BY <1>2, <1>3 DEF ReserveInv

LEMMA ReserveInvariance == ReserveSpec => []ReserveInv
<1>1. ReserveInv /\ [ReserveNext]_reserveVars => ReserveInv'
  <2> SUFFICES ASSUME ReserveInv, [ReserveNext]_reserveVars PROVE ReserveInv'
    OBVIOUS
  <2>1. CASE SkipDurable
    BY <2>1, SkipDurableKeeps
  <2>2. CASE PromoteDurable
    BY <2>2, PromoteDurableKeeps
  <2>3. CASE EndDurable
    BY <2>3, EndDurableKeeps
  <2>4. CASE DropDuplicates
    BY <2>4, DropDuplicatesKeeps
  <2>5. CASE SkipImportant
    BY <2>5, SkipImportantKeeps
  <2>6. CASE SwapImportant
    BY <2>6, SwapImportantKeeps
  <2>7. CASE EndImportant
    BY <2>7, EndImportantKeeps
  <2>8. CASE UNCHANGED reserveVars
    <3> USE <2>8 DEF reserveVars, ReserveInv
    <3>1. ReserveTypeOK' /\ SortedOK' /\ RestOK'
      BY DEF ReserveTypeOK, SortedOK, Score, RestOK
    <3>2. DurableOK'
      BY DEF DurableOK, Promoted, Dropped, Window, Shows, Score
    <3>3. DedupOK'
      BY DEF DedupOK, Earned, Window, Shows, Score
    <3>4. ImportantOK'
      BY DEF ImportantOK, Changed, Band, Shows, Score
    <3> QED BY <3>1, <3>2, <3>3, <3>4
  <2> QED BY <2>1, <2>2, <2>3, <2>4, <2>5, <2>6, <2>7, <2>8 DEF ReserveNext
<1> QED BY <1>1, ReserveInitInv, PTL DEF ReserveSpec

(***************************************************************************)
(* Type correctness.                                                       *)
(***************************************************************************)
THEOREM ReserveTypeCorrect == ReserveSpec => []ReserveTypeOK
<1>1. ReserveInv => ReserveTypeOK
  BY DEF ReserveInv
<1> QED BY <1>1, ReserveInvariance, PTL

(***************************************************************************)
(* However many candidates, whatever their scores and the sizes of window  *)
(* and pool: nothing promoted is under the bar of anything it made room    *)
(* for, though each walk compares one pair at a time; the durable reserve  *)
(* loses nothing and keeps the best first, and the important one leaves    *)
(* the served prefix alone and brings no text in twice.                    *)
(***************************************************************************)
THEOREM ReservesEarn == ReserveSpec => []PromotionsAreEarned
<1>1. ReserveInv => PromotionsAreEarned
  <2> SUFFICES ASSUME ReserveInv PROVE PromotionsAreEarned
    OBVIOUS
  <2>1. CASE phase = "dedup"
    BY <2>1 DEF ReserveInv, DedupOK, Window, PromotionsAreEarned
  <2>2. CASE phase = "ranked"
    <3>1. ReserveTypeOK /\ ImportantOK
      BY DEF ReserveInv
    <3>2. /\ Len(order) \in Nat /\ DOMAIN order = 1 .. Len(order) /\ DOMAIN out = 1 .. Len(out)
          /\ quota.limit \in Nat /\ quota.pool \in Nat
          /\ order \in Seq(DOMAIN ranked) /\ out \in Seq(DOMAIN ranked)
      BY <3>1, CallFacts DEF ReserveTypeOK
    <3>3. Len(out) = Len(order) /\ \A k \in DOMAIN order : k <= quota.limit => out[k] = order[k]
      BY <2>2, <3>1 DEF ImportantOK
    <3>4. First(out, quota.limit) = First(order, quota.limit)
      <4> DEFINE f == First(out, quota.limit)
                 g == First(order, quota.limit)
      <4>1. /\ f \in Seq(DOMAIN ranked) /\ g \in Seq(DOMAIN ranked) /\ Len(f) = Len(g)
            /\ Len(g) = IF quota.limit < Len(order) THEN quota.limit ELSE Len(order)
            /\ (\A k \in DOMAIN f : f[k] = out[k]) /\ (\A k \in DOMAIN g : g[k] = order[k])
        BY <3>2, <3>3, FirstFacts
      <4> HIDE DEF f, g
      <4>2. DOMAIN f = 1 .. Len(g) /\ DOMAIN g = 1 .. Len(g)
        BY <4>1
      <4>3. \A k \in 1 .. Len(g) : k \in DOMAIN order /\ k <= quota.limit
        BY <4>1, <3>2
      <4>4. \A k \in 1 .. Len(g) : f[k] = g[k]
        BY <4>1, <4>2, <4>3, <3>3
      <4>5. f = g
        BY <4>1, <4>2, <4>4
      <4> QED BY <4>5 DEF f, g
    <3>5. Earned("important", Places(First(order, quota.pool)), Places(First(out, quota.pool)))
      <4>1. /\ Places(First(order, quota.pool)) = {order[k] : k \in {l \in DOMAIN order : l <= quota.pool}}
            /\ Places(First(out, quota.pool)) = {out[k] : k \in {l \in DOMAIN out : l <= quota.pool}}
        <5>1. quota.pool \in Nat /\ order \in Seq(DOMAIN ranked) /\ out \in Seq(DOMAIN ranked)
          BY <3>2
        <5>2. Places(First(order, quota.pool)) = {order[k] : k \in {l \in DOMAIN order : l <= quota.pool}}
          BY <5>1, FirstFacts
        <5>3. Places(First(out, quota.pool)) = {out[k] : k \in {l \in DOMAIN out : l <= quota.pool}}
          BY <5>1, FirstFacts
        <5> QED BY <5>2, <5>3
      <4>2. DOMAIN out = DOMAIN order
        BY <3>2, <3>3
      <4>3. ASSUME NEW i \in Places(First(out, quota.pool)) \ Places(First(order, quota.pool))
            PROVE  \E k \in Changed : i = out[k]
        BY <4>1, <4>2 DEF Changed
      <4>4. ASSUME NEW i \in Places(First(order, quota.pool)) \ Places(First(out, quota.pool))
            PROVE  \E k \in Changed : i = order[k]
        BY <4>1, <4>2 DEF Changed
      <4> QED BY <4>3, <4>4, <2>2, <3>1 DEF Earned, ImportantOK
    <3> QED BY <2>2, <3>1, <3>4, <3>5 DEF PromotionsAreEarned, ImportantOK
  <2> QED BY <2>1, <2>2 DEF PromotionsAreEarned
<1> QED BY <1>1, ReserveInvariance, PTL
-----------------------------------------------------------------------------
(***************************************************************************)
(* The composition.  A step of one part leaves the others where they are,  *)
(* and a part at rest is in one of its own initial states: whatever is     *)
(* proved of a part holds of their composition.                            *)
(***************************************************************************)
LEMMA RestingRenames == RenamesRest => RenamesInit
<1> SUFFICES ASSUME RenamesRest PROVE RenamesInit
  OBVIOUS
<1>1. place \in [Entries -> {Shared, Tenant, NoSpace}] /\ pinned \in [Projects -> {Shared, NoSpace}]
  BY DEF RenamesRest
<1>2. edges \in {{}} \cup {{<<s, Shared>>} : s \in Outside}
  BY DEF RenamesRest
<1> QED BY <1>1, <1>2 DEF RenamesRest, RenamesInit

LEMMA RestingReads == ReadSetRest => ReadSetInit
<1> SUFFICES ASSUME ReadSetRest PROVE ReadSetInit
  OBVIOUS
<1> DEFINE p == CHOOSE q \in Paths : TRUE
<1>1. p \in Paths
  <2>1. PICK s : s \in Segments
    BY UpkeepAssumption
  <2>2. [k \in 1 .. 1 |-> s] \in [1 .. 1 -> Segments] /\ 1 \in 1 .. Depth
    BY <2>1, ReadSetAssumption
  <2>3. [k \in 1 .. 1 |-> s] \in Paths
    BY <2>2 DEF Paths
  <2> QED BY <2>3
<1>2. /\ NoPath \in Paths \cup {NoPath} /\ "full" \in {"project", "full", "everywhere"}
      /\ {} \in TierFilters /\ TRUE \in BOOLEAN /\ Paths \in {Paths, {q \in Paths : Len(q) = 1}}
  BY DEF TierFilters
<1>3. {} \in Linked
  <2>1. Cardinality({}) = 0
    BY FS_EmptySet
  <2> QED BY <2>1, ReadSetAssumption DEF Linked
<1>4. <<>> \in [{} -> TierFilters]
  OBVIOUS
<1>5. request = [primary |-> p, home |-> NoPath, scope |-> "full", tiers |-> {},
                 stored |-> Paths, links |-> <<>>, cascade |-> TRUE, list |-> <<>>]
  BY DEF ReadSetRest
<1> HIDE DEF p
<1>6. stage = "names" /\ legs = <<>>
  BY DEF ReadSetRest
<1> QED BY <1>1, <1>2, <1>3, <1>4, <1>5, <1>6 DEF ReadSetInit

LEMMA RestingReserves == ReserveRest => ReserveInit
<1> SUFFICES ASSUME ReserveRest PROVE ReserveInit
  OBVIOUS
<1>1. quota \in Quotas /\ MaxRanked \in Nat /\ MaxTwins \in Nat /\ 0 \in 0 .. MaxRanked
  BY ReserveAssumption DEF ReserveRest
<1>2. <<>> \in [1 .. 0 -> Scores] /\ <<>> \in [1 .. 0 -> Traits] /\ <<>> \in [1 .. 0 -> 1 .. 0]
  OBVIOUS
<1>3. <<>> \in Texts(0)
  <2>1. {i \in 1 .. 0 : <<>>[i] # i} = {} /\ Cardinality({}) = 0
    BY FS_EmptySet
  <2>2. Cardinality({i \in 1 .. 0 : <<>>[i] # i}) <= MaxTwins
    BY <2>1, <1>1
  <2> QED BY <1>2, <2>2 DEF Texts
<1>4. ranked = [i \in 1 .. 0 |-> [score |-> <<>>[i], trait |-> <<>>[i], text |-> <<>>[i]]]
  BY DEF ReserveRest
<1>5. \A i, j \in 1 .. 0 : i < j => <<>>[i] >= <<>>[j]
  OBVIOUS
<1>6. order = [i \in 1 .. Len(ranked) |-> i] /\ selected = {i \in 1 .. Len(ranked) : i <= quota.limit}
  BY DEF ReserveRest
<1>7. \E n \in 0 .. MaxRanked :
        \E score \in [1 .. n -> Scores], trait \in [1 .. n -> Traits], text \in Texts(n) :
          /\ \A i, j \in 1 .. n : i < j => score[i] >= score[j]
          /\ ranked = [i \in 1 .. n |-> [score |-> score[i], trait |-> trait[i], text |-> text[i]]]
  <2> USE <1>1, <1>2, <1>3
  <2> WITNESS 0 \in 0 .. MaxRanked
  <2> WITNESS <<>> \in [1 .. 0 -> Scores], <<>> \in [1 .. 0 -> Traits], <<>> \in Texts(0)
  <2> QED BY <1>4, <1>5
<1> QED BY <1>1, <1>6, <1>7 DEF ReserveRest, ReserveInit

LEMMA RestingSplit == SplitRest => SplitInit
<1> SUFFICES ASSUME SplitRest PROVE SplitInit
  OBVIOUS
<1>1. config \in [size : Sizes, overlap : Overlaps, cap : Caps]
  <2>1. PICK a \in Sizes, b \in Overlaps, c \in Caps : TRUE
    BY UpkeepAssumption
  <2>2. [size |-> a, overlap |-> b, cap |-> c] \in [size : Sizes, overlap : Overlaps, cap : Caps]
    OBVIOUS
  <2> QED BY <2>2 DEF SplitRest
<1>2. content \in UNION {[1 .. n -> Chars] : n \in 0 .. MaxLength}
  <2>1. content \in [1 .. 0 -> Chars] /\ 0 \in 0 .. MaxLength
    BY SplitAssumption DEF SplitRest
  <2> QED BY <2>1
<1> QED BY <1>1, <1>2 DEF SplitRest, SplitInit

LEMMA UpkeepSteps ==
    [UpkeepNext]_UpkeepVars =>
        /\ [RetentionNext]_retentionVars /\ [ConfidenceNext]_confidenceVars
        /\ [AccessNext]_accessVars /\ [RenamesNext]_renameVars
        /\ [ReadSetNext]_readSetVars /\ [ReserveNext]_reserveVars /\ [SplitNext]_splitVars
<1> SUFFICES ASSUME [UpkeepNext]_UpkeepVars
             PROVE  /\ RetentionNext \/ UNCHANGED retentionVars
                    /\ ConfidenceNext \/ UNCHANGED confidenceVars
                    /\ AccessNext \/ UNCHANGED accessVars
                    /\ RenamesNext \/ UNCHANGED renameVars
                    /\ ReadSetNext \/ UNCHANGED readSetVars
                    /\ ReserveNext \/ UNCHANGED reserveVars
                    /\ SplitNext \/ UNCHANGED splitVars
  OBVIOUS
<1>1. CASE UNCHANGED UpkeepVars
  BY <1>1 DEF UpkeepVars
<1>2. CASE UpkeepNext
  BY <1>2 DEF UpkeepNext
<1> QED BY <1>1, <1>2

\* The composition runs each of its parts as specified.
THEOREM UpkeepRunsParts ==
    UpkeepSpec => /\ RetentionSpec /\ ConfidenceSpec /\ AccessSpec /\ RenamesSpec
                  /\ ReadSetSpec /\ ReserveSpec /\ SplitSpec
<1>1. UpkeepInit => /\ RetentionInit /\ ConfidenceInit /\ AccessInit /\ RenamesInit
                    /\ ReadSetInit /\ ReserveInit /\ SplitInit
  BY RestingRenames, RestingReads, RestingReserves, RestingSplit DEF UpkeepInit
<1> QED
  BY <1>1, UpkeepSteps, PTL
  DEF UpkeepSpec, RetentionSpec, ConfidenceSpec, AccessSpec, RenamesSpec, ReadSetSpec, ReserveSpec, SplitSpec

\* Every variable of a part that runs keeps its type, for any number of memories, facts,
\* keys, namespaces, candidates and characters.
THEOREM UpkeepAlwaysTyped == UpkeepSpec => []UpkeepTypeOK
<1>1. SplitInv => SplitTypeOK
  BY DEF SplitInv
<1>2. RetentionTypeOK /\ ConfidenceTypeOK /\ AccessTypeOK /\ RenamesTypeOK
        /\ ReadSetTypeOK /\ ReserveTypeOK /\ SplitTypeOK => UpkeepTypeOK
  BY DEF UpkeepTypeOK
<1> QED
  BY <1>1, <1>2, UpkeepRunsParts, RetentionAlwaysTyped, ConfidenceTypeCorrect, AccessAlwaysTyped,
     RenamesTypeCorrect, ReadSetTypeCorrect, ReserveTypeCorrect, SplitInvAlways, PTL
=============================================================================
