------------------------------ MODULE Splitting ------------------------------
(***************************************************************************)
(* How the content of a long memory is cut into the parts that are         *)
(* embedded (internal/chunk/chunk.go): windows of at most Size characters, *)
(* each cut after its last strong separator and starting a little before   *)
(* the cut of the previous one, and trimmed of the blanks at its two ends. *)
(*                                                                         *)
(* Positions count from 0 as in the code.  A text is a sequence of         *)
(* letters, spaces and newlines; of the separators, those that tell the    *)
(* cases apart are kept: a long and strong one, a short one of the same    *)
(* character, a weak one.  A part that is blank is not emitted.            *)
(***************************************************************************)
EXTENDS Integers, Sequences

CONSTANTS
    Sizes,      \* Config.Size
    Overlaps,   \* Config.Overlap
    Caps,       \* Config.MaxChunks, 0 for none
    MaxLength   \* bound: length of a text

ASSUME SplitAssumption ==
    Sizes \subseteq Nat \ {0} /\ Overlaps \subseteq Nat /\ Caps \subseteq Nat /\ MaxLength \in Nat

Chars == {"x", " ", "n"}
Separators == <<<<"n", "n">>, <<"n">>, <<" ">>>>

VARIABLES
    content,  \* the text
    config,   \* size, overlap as given, cap
    from,     \* start: where the next part begins
    prevCut,  \* where the previous part was cut
    parts,    \* the parts so far: first position, the one after the last, and
              \* where the part was cut before it was trimmed
    split     \* "cutting", "done" or "truncated"

splitVars == <<content, config, from, prevCut, parts, split>>

Length == Len(content)
At(p) == content[p + 1]
OnlySpaces(a, b) == \A p \in a .. b - 1 : At(p) # "x"

SplitTypeOK ==
    /\ content \in Seq(Chars)
    /\ config \in [size : Sizes, overlap : Overlaps, cap : Caps]
    /\ from \in Nat /\ prevCut \in Nat
    /\ parts \in Seq([first : Nat, end : Nat, cut : Nat])
    /\ split \in {"cutting", "done", "truncated"}

SplitInit ==
    /\ content \in UNION {[1 .. n -> Chars] : n \in 0 .. MaxLength}
    /\ config \in [size : Sizes, overlap : Overlaps, cap : Caps]
    /\ from = 0 /\ prevCut = 0
    /\ parts = <<>>
    /\ split = "cutting"

\* An overlap as large as the window is halved.
Overlap == IF config.overlap >= config.size THEN config.size \div 2 ELSE config.overlap

\* Where the k-th separator occurs in the window [from, end), the first position
\* and what ends before the floor excluded.
Hits(k, end, floor) ==
    LET sep == Separators[k]
        low == IF floor - Len(sep) > from THEN floor - Len(sep) ELSE from
    IN {i \in low + 1 .. end - Len(sep) : \A j \in 1 .. Len(sep) : At(i + j - 1) = sep[j]}

\* Mutation of Floor: what was cut before is searched again.
NoFloor == 0

\* boundary's floor: the cut of the previous part.
Floor == prevCut

\* boundary: after the last occurrence of the strongest separator the window
\* has, or at its end.
Boundary(end, cut) ==
    \/ \E k \in DOMAIN Separators :
         /\ \A l \in 1 .. k - 1 : Hits(l, end, Floor) = {}
         /\ \E i \in Hits(k, end, Floor) :
              /\ \A j \in Hits(k, end, Floor) : j <= i
              /\ cut = i + Len(Separators[k])
    \/ (\A k \in DOMAIN Separators : Hits(k, end, Floor) = {}) /\ cut = end

\* The text from..end without the blanks around it, if there is more to it.
Emit(end) ==
    \/ OnlySpaces(from, end) /\ parts' = parts
    \/ \E a, b \in from .. end - 1 :
         /\ At(a) = "x" /\ OnlySpaces(from, a)
         /\ At(b) = "x" /\ OnlySpaces(b + 1, end)
         /\ parts' = Append(parts, [first |-> a, end |-> b + 1, cut |-> end])

AtCap == config.cap > 0 /\ Len(parts) >= config.cap

Finish ==
    /\ split = "cutting" /\ from >= Length
    /\ split' = "done"
    /\ UNCHANGED <<content, config, from, prevCut, parts>>

Truncate ==
    /\ split = "cutting" /\ from < Length /\ AtCap
    /\ split' = "truncated"
    /\ UNCHANGED <<content, config, from, prevCut, parts>>

LastPart ==
    /\ split = "cutting" /\ from < Length /\ ~AtCap
    /\ from + config.size >= Length
    /\ Emit(Length)
    /\ split' = "done"
    /\ UNCHANGED <<content, config, from, prevCut>>

\* Mutations of Resume: the next part begins one window further; it always
\* overlaps.
ResumeAfterWindow(cut) == from + config.size
ResumeBefore(cut) == cut - Overlap

\* The next part begins before the cut, unless that would not advance.
Resume(cut) == IF cut - Overlap <= from THEN cut ELSE cut - Overlap

NextPart ==
    /\ split = "cutting" /\ from < Length /\ ~AtCap
    /\ from + config.size < Length
    /\ \E cut \in 0 .. Length :
         /\ Boundary(from + config.size, cut)
         /\ Emit(cut)
         /\ prevCut' = cut
         /\ from' = Resume(cut)
    /\ UNCHANGED <<content, config, split>>

SplitNext == Finish \/ Truncate \/ LastPart \/ NextPart

SplitSpec == SplitInit /\ [][SplitNext]_splitVars

-----------------------------------------------------------------------------
(***************************************************************************)
(* Properties.                                                             *)
(***************************************************************************)

\* No text is lost between two parts: what has been cut so far is in some part,
\* and so is all of it when the split ends without reporting a truncation.
NothingSkipped ==
    \A p \in 0 .. Length - 1 :
        /\ At(p) = "x"
        /\ p < prevCut \/ split = "done"
        => \E k \in DOMAIN parts : parts[k].first <= p /\ p < parts[k].end

\* Each part is no longer than a window, is cut past the one before it, and
\* ends past it too unless nothing but blanks lies between the two cuts: only
\* then is a slot spent on a suffix of another part (boundary: "callers always
\* make progress", and gain new text wherever there is some).
EachPartGains ==
    /\ \A k \in DOMAIN parts : parts[k].end - parts[k].first <= config.size
    /\ \A k \in 2 .. Len(parts) :
         /\ parts[k - 1].cut < parts[k].cut
         /\ parts[k - 1].end < parts[k].end \/ OnlySpaces(parts[k - 1].cut, parts[k].cut)
=============================================================================
