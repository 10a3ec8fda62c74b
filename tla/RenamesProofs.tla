---------------------------- MODULE RenamesProofs ----------------------------
EXTENDS Renames, Induction, FiniteSetTheorems

(***************************************************************************)
(* The inductive invariant.                                                *)
(*                                                                         *)
(* Shape: a command is idle and has answered, or runs and has not; a move  *)
(* has two different namespaces.                                           *)
(***************************************************************************)
Moves == {"move", "migrate"}
Renaming == {"links", "keys", "pins"}

CommandOK ==
    /\ command.kind # "none" => command.from \in Spaces /\ command.to \in Spaces /\ answer.kind = "none"
    /\ command.kind = "none" => command.step = "list"
    /\ command.kind \in Moves => command.from # command.to
    /\ command.kind \in {"split", "repair"} => command.step = "memories"

(***************************************************************************)
(* What still names the old namespace of a move, table by table: the move  *)
(* under way has renamed the tables it is past, and one that answered has  *)
(* renamed them all.                                                       *)
(***************************************************************************)
HasLinks(s) == \E l \in edges : s \in {l[1], l[2]}
Keyed(s) == \E k \in Columns : bound[k] = s
Pinned(s) == \E p \in Projects : pinned[p] = s

Moving(s) == command.kind \in Moves /\ command.from = s /\ command.step \in Renaming

EmptiedOK ==
    \A s \in emptied :
        /\ In(s) = {}
        /\ Moving(s) => /\ command.step \in {"keys", "pins"} => ~HasLinks(s)
                        /\ command.step = "pins" => ~Keyed(s)
        /\ ~Moving(s) /\ s \notin half => ~HasLinks(s) /\ ~Keyed(s) /\ ~Pinned(s)

(***************************************************************************)
(* A memory and the one that replaces it are together, unless one of them  *)
(* was moved without the other; a move that has not yet taken its memories *)
(* knows all that were there when it listed them.                          *)
(***************************************************************************)
TogetherOK ==
    \A i \in Entries :
        /\ heir[i] # i => place[heir[i]] # NoSpace
        /\ place[i] \in Spaces /\ place[heir[i]] \in Spaces /\ {i, heir[i]} \cap parted = {}
             => place[i] = place[heir[i]]

ListedOK ==
    command.kind \in Moves /\ command.step = "memories" =>
        In(command.from) \subseteq DOMAIN command.todo \cup arrived

RenamesInv == RenamesTypeOK /\ CommandOK /\ EmptiedOK /\ TogetherOK /\ ListedOK

LEMMA SpacesFacts ==
    /\ NoSpace \notin Spaces /\ Gone \notin Spaces /\ Gone # NoSpace
    /\ Shared \in Spaces /\ Tenant \in Spaces /\ Shared # Tenant
BY RenamesAssumption DEF Spaces

LEMMA TodoTypes ==
    /\ \A todo \in Todos : DOMAIN todo \in SUBSET Entries /\ \A e \in DOMAIN todo : todo[e] \in Spaces
    /\ \A rows \in SUBSET Entries : \A todo \in [rows -> Spaces] : todo \in Todos
    /\ [e \in {} |-> NoSpace] \in Todos
<1>1. [e \in {} |-> NoSpace] \in [{} -> Spaces] /\ {} \in SUBSET Entries
  OBVIOUS
<1> QED BY <1>1 DEF Todos

LEMMA RenamesInitInv == RenamesInit => RenamesInv
<1> SUFFICES ASSUME RenamesInit PROVE RenamesInv
  OBVIOUS
<1>1. command = Idle /\ answer = NoAnswer /\ emptied = {} /\ parted = {} /\ arrived = {} /\ half = {}
  BY DEF RenamesInit
<1>2. RenamesTypeOK
  <2>1. place \in [Entries -> Spaces \cup {NoSpace, Gone}]
    BY SpacesFacts DEF RenamesInit
  <2>2. heir \in [Entries -> Entries]
    BY DEF RenamesInit
  <2>3. edges \subseteq Spaces \X Spaces
    BY DEF RenamesInit, Spaces
  <2>4. bound \in [Columns -> Spaces \cup {NoSpace}] /\ pinned \in [Projects -> Spaces \cup {NoSpace}]
    BY SpacesFacts DEF RenamesInit
  <2>5. changes \in 0 .. MaxChanges /\ commands \in 0 .. MaxCommands
    BY RenamesAssumption DEF RenamesInit
  <2> QED BY <1>1, <2>1, <2>2, <2>3, <2>4, <2>5, TodoTypes DEF RenamesTypeOK, Idle, NoAnswer
<1>3. CommandOK /\ EmptiedOK /\ ListedOK
  BY <1>1 DEF CommandOK, EmptiedOK, ListedOK, Idle, NoAnswer, Moves
<1>4. TogetherOK
  BY <1>1, SpacesFacts DEF RenamesInit, TogetherOK
<1> QED BY <1>2, <1>3, <1>4 DEF RenamesInv

(***************************************************************************)
(* Requests.  None touches the command; what they name is no longer        *)
(* counted as emptied, and a memory that comes to a namespace as arrived.  *)
(***************************************************************************)
LEMMA RememberKeeps ==
    ASSUME RenamesInv, NEW e \in Entries, NEW s \in Spaces, RememberIn(e, s)
    PROVE  RenamesInv'
<1> USE SpacesFacts DEF RememberIn, Requested, NowNamed, RenamesInv
<1>1. RenamesTypeOK'
  BY RenamesAssumption DEF RenamesTypeOK
<1>2. CommandOK'
  BY DEF CommandOK
<1>3. EmptiedOK'
  BY DEF EmptiedOK, RenamesTypeOK, In, Moving, HasLinks, Keyed, Pinned
<1>4. TogetherOK'
  BY DEF TogetherOK, RenamesTypeOK
<1>5. ListedOK'
  BY DEF ListedOK, RenamesTypeOK, In
<1> QED BY <1>1, <1>2, <1>3, <1>4, <1>5

LEMMA ReplaceKeeps ==
    ASSUME RenamesInv, NEW e \in Entries, NEW r \in Entries, Replace(e, r)
    PROVE  RenamesInv'
<1> USE SpacesFacts DEF Replace, Requested, renameHistories, RenamesInv
<1>1. RenamesTypeOK'
  BY RenamesAssumption DEF RenamesTypeOK
<1>2. CommandOK'
  BY DEF CommandOK
<1>3. EmptiedOK'
  BY DEF EmptiedOK, In, Moving, HasLinks, Keyed, Pinned
<1>4. TogetherOK'
  BY DEF TogetherOK, RenamesTypeOK
<1>5. ListedOK'
  BY DEF ListedOK, In
<1> QED BY <1>1, <1>2, <1>3, <1>4, <1>5

LEMMA ForgetKeeps ==
    ASSUME RenamesInv, NEW e \in Entries, ForgetEntry(e)
    PROVE  RenamesInv'
<1> USE SpacesFacts DEF ForgetEntry, Requested, renameHistories, RenamesInv
<1>1. RenamesTypeOK'
  BY RenamesAssumption DEF RenamesTypeOK
<1>2. CommandOK'
  BY DEF CommandOK
<1>3. EmptiedOK'
  BY DEF EmptiedOK, RenamesTypeOK, In, Moving, HasLinks, Keyed, Pinned
<1>4. TogetherOK'
  BY DEF TogetherOK, RenamesTypeOK
<1>5. ListedOK'
  BY DEF ListedOK, RenamesTypeOK, In, CommandOK, Moves
<1> QED BY <1>1, <1>2, <1>3, <1>4, <1>5

LEMMA DropSpaceKeeps ==
    ASSUME RenamesInv, NEW s \in Spaces, DropSpace(s)
    PROVE  RenamesInv'
<1> USE SpacesFacts DEF DropSpace, Requested, renameHistories, RenamesInv
<1>1. RenamesTypeOK'
  BY RenamesAssumption DEF RenamesTypeOK
<1>2. CommandOK'
  BY DEF CommandOK
<1>3. EmptiedOK'
  BY DEF EmptiedOK, RenamesTypeOK, In, Moving, HasLinks, Keyed, Pinned
<1>4. TogetherOK'
  BY DEF TogetherOK, RenamesTypeOK
<1>5. ListedOK'
  BY DEF ListedOK, RenamesTypeOK, In, CommandOK, Moves
<1> QED BY <1>1, <1>2, <1>3, <1>4, <1>5

LEMMA ReassignMemoryKeeps ==
    ASSUME RenamesInv, NEW e \in Entries, NEW s \in Spaces, ReassignMemory(e, s)
    PROVE  RenamesInv'
<1> USE SpacesFacts DEF ReassignMemory, Requested, NowNamed, RenamesInv
<1>1. RenamesTypeOK'
  BY RenamesAssumption DEF RenamesTypeOK
<1>2. CommandOK'
  BY DEF CommandOK
<1>3. EmptiedOK'
  BY DEF EmptiedOK, RenamesTypeOK, In, Moving, HasLinks, Keyed, Pinned
<1>4. TogetherOK'
  BY DEF TogetherOK, RenamesTypeOK
<1>5. ListedOK'
  BY DEF ListedOK, RenamesTypeOK, In
<1> QED BY <1>1, <1>2, <1>3, <1>4, <1>5

LEMMA PutLinkKeeps ==
    ASSUME RenamesInv, NEW s \in Spaces, NEW t \in Spaces, PutLink(s, t)
    PROVE  RenamesInv'
<1> USE SpacesFacts DEF PutLink, Requested, NowNamed, RenamesInv
<1>1. RenamesTypeOK'
  BY RenamesAssumption DEF RenamesTypeOK
<1>2. CommandOK' /\ TogetherOK' /\ ListedOK'
  BY DEF CommandOK, TogetherOK, ListedOK, In
<1>3. EmptiedOK'
  BY DEF EmptiedOK, RenamesTypeOK, In, Moving, HasLinks, Keyed, Pinned
<1> QED BY <1>1, <1>2, <1>3

LEMMA BindKeyKeeps ==
    ASSUME RenamesInv, NEW k \in Columns, NEW s \in Spaces, BindKey(k, s)
    PROVE  RenamesInv'
<1> USE SpacesFacts DEF BindKey, Requested, NowNamed, RenamesInv
<1>1. RenamesTypeOK'
  BY RenamesAssumption DEF RenamesTypeOK
<1>2. CommandOK' /\ TogetherOK' /\ ListedOK'
  BY DEF CommandOK, TogetherOK, ListedOK, In
<1>3. EmptiedOK'
  BY DEF EmptiedOK, RenamesTypeOK, In, Moving, HasLinks, Keyed, Pinned
<1> QED BY <1>1, <1>2, <1>3

LEMMA PutPinKeeps ==
    ASSUME RenamesInv, NEW p \in Projects, NEW s \in Spaces, PutPin(p, s)
    PROVE  RenamesInv'
<1> USE SpacesFacts DEF PutPin, Requested, NowNamed, RenamesInv
<1>1. RenamesTypeOK'
  BY RenamesAssumption DEF RenamesTypeOK
<1>2. CommandOK' /\ TogetherOK' /\ ListedOK'
  BY DEF CommandOK, TogetherOK, ListedOK, In
<1>3. EmptiedOK'
  BY DEF EmptiedOK, RenamesTypeOK, In, Moving, HasLinks, Keyed, Pinned
<1> QED BY <1>1, <1>2, <1>3

(***************************************************************************)
(* Commands.                                                               *)
(***************************************************************************)
LEMMA LaunchKeeps ==
    ASSUME RenamesInv, NEW kind \in {"move", "migrate", "split", "repair"},
           NEW from \in Spaces, NEW to \in Spaces, NEW todo \in Todos,
           kind \in Moves => from # to /\ In(from) \subseteq DOMAIN todo,
           Launch(kind, "memories", from, to, todo)
    PROVE  RenamesInv'
<1> USE SpacesFacts DEF Launch, tables, RenamesInv
<1>1. RenamesTypeOK'
  BY RenamesAssumption DEF RenamesTypeOK
<1>2. CommandOK'
  BY DEF CommandOK
<1>3. EmptiedOK'
  BY DEF EmptiedOK, In, Moving, HasLinks, Keyed, Pinned, Renaming, Idle
<1>4. TogetherOK'
  BY DEF TogetherOK
<1>5. ListedOK'
  BY DEF ListedOK, In
<1> QED BY <1>1, <1>2, <1>3, <1>4, <1>5

LEMMA MoveKeeps ==
    ASSUME RenamesInv, NEW kind \in Moves, NEW from \in Spaces, NEW to \in Spaces, Move(kind, from, to)
    PROVE  RenamesInv'
<1> DEFINE todo == [e \in ListAll(from) |-> to]
<1>1. ListAll(from) \in SUBSET Entries /\ ListAll(from) = In(from)
  BY DEF ListAll, In
<1>2. todo \in Todos /\ DOMAIN todo = In(from)
  <2>1. todo \in [ListAll(from) -> Spaces]
    OBVIOUS
  <2> QED BY <1>1, <2>1, TodoTypes
<1> HIDE DEF todo
<1> QED BY <1>2, LaunchKeeps DEF Move, Moves, todo

LEMMA SplitKeeps ==
    ASSUME RenamesInv, NEW from \in Spaces, Split(from)
    PROVE  RenamesInv'
<1>1. PICK leave \in SUBSET ListAll(from) :
        \E to \in [leave -> Spaces \ {from}] : Launch("split", "memories", from, from, to)
  BY DEF Split
<1>2. PICK to \in [leave -> Spaces \ {from}] : Launch("split", "memories", from, from, to)
  BY <1>1
<1>3. leave \in SUBSET Entries /\ to \in [leave -> Spaces]
  BY DEF ListAll, In
<1>4. to \in Todos
  BY <1>3, TodoTypes
<1> QED BY <1>2, <1>4, LaunchKeeps DEF Moves

LEMMA RepairKeeps ==
    ASSUME RenamesInv, NEW s \in Spaces, Repair(s)
    PROVE  RenamesInv'
<1> DEFINE rows == {i \in In(s) : heir[i] # i /\ ~ReachesLive(i, In(s))}
           todo == [e \in rows |-> s]
<1>1. rows \in SUBSET Entries /\ todo \in [rows -> Spaces]
  BY DEF In
<1>2. todo \in Todos
  BY <1>1, TodoTypes
<1> HIDE DEF todo
<1> QED BY <1>2, LaunchKeeps DEF Repair, Moves, todo

LEMMA MoveNothingKeeps ==
    ASSUME RenamesInv, NEW kind \in Moves, NEW from \in Spaces, MoveNothing(kind, from)
    PROVE  RenamesInv'
<1> USE SpacesFacts DEF MoveNothing, tables, renameHistories, RenamesInv
<1>1. RenamesTypeOK'
  BY RenamesAssumption DEF RenamesTypeOK, Moves
<1>2. CommandOK'
  BY DEF CommandOK, Idle
<1>3. EmptiedOK' /\ TogetherOK' /\ ListedOK'
  BY DEF EmptiedOK, TogetherOK, ListedOK, In, Moving, HasLinks, Keyed, Pinned
<1> QED BY <1>1, <1>2, <1>3

\* Idle is a command of its type, and moves nothing.
LEMMA IdleFacts ==
    /\ Idle \in [kind : {"none", "move", "migrate", "split", "repair"},
                 step : {"list", "memories", "links", "keys", "pins", "dedup"},
                 from : Spaces \cup {NoSpace}, to : Spaces \cup {NoSpace}, todo : Todos]
    /\ Idle.kind = "none" /\ Idle.step = "list" /\ Idle.kind \notin Moves
BY TodoTypes DEF Idle, Moves

LEMMA AnswerKeeps ==
    ASSUME RenamesInv, NEW ok \in BOOLEAN, Answer(ok)
    PROVE  /\ command' = Idle /\ CommandOK' /\ ListedOK'
           /\ command' \in [kind : {"none", "move", "migrate", "split", "repair"},
                 step : {"list", "memories", "links", "keys", "pins", "dedup"},
                 from : Spaces \cup {NoSpace}, to : Spaces \cup {NoSpace}, todo : Todos]
           /\ answer' \in [kind : {"none", "move", "migrate", "split", "repair"}, ok : BOOLEAN,
                 from : Spaces \cup {NoSpace}, moved : BOOLEAN]
           /\ \A s \in Spaces : ~Moving(s)'
<1>1. command' = Idle /\ answer' = [answer EXCEPT !.kind = command.kind, !.ok = ok]
  BY DEF Answer
<1>2. /\ answer \in [kind : {"none", "move", "migrate", "split", "repair"}, ok : BOOLEAN,
                 from : Spaces \cup {NoSpace}, moved : BOOLEAN]
      /\ command.kind \in {"none", "move", "migrate", "split", "repair"}
  BY DEF RenamesInv, RenamesTypeOK
<1>3. command'.kind = "none" /\ command'.step = "list" /\ command'.kind \notin Moves
  BY <1>1, IdleFacts
<1>4. CommandOK' /\ ListedOK' /\ \A s \in Spaces : ~Moving(s)'
  BY <1>3 DEF CommandOK, ListedOK, Moving, Moves
<1> QED BY <1>1, <1>2, <1>4, IdleFacts

LEMMA SplitEndsKeeps ==
    ASSUME RenamesInv, SplitEnds \/ DedupEnds \/ RepairEnds
    PROVE  RenamesInv'
<1>1. Answer(TRUE) /\ UNCHANGED <<tables, changes, commands, renameHistories>>
  BY DEF SplitEnds, DedupEnds, RepairEnds
<1>2. command.step \notin Renaming
  BY DEF SplitEnds, DedupEnds, RepairEnds, Doing, Renaming
<1>3. RenamesTypeOK' /\ CommandOK' /\ ListedOK'
  BY <1>1, AnswerKeeps DEF RenamesInv, RenamesTypeOK, tables, renameHistories
<1>4. EmptiedOK'
  <2>1. emptied \in SUBSET Spaces /\ \A s \in Spaces : ~Moving(s) /\ ~Moving(s)'
    BY <1>1, <1>2, AnswerKeeps DEF RenamesInv, RenamesTypeOK, Moving
  <2> QED BY <1>1, <2>1 DEF RenamesInv, EmptiedOK, tables, renameHistories, In, HasLinks, Keyed, Pinned
<1>5. TogetherOK'
  BY <1>1 DEF RenamesInv, TogetherOK, tables, renameHistories
<1> QED BY <1>3, <1>4, <1>5 DEF RenamesInv

LEMMA CommandFailsKeeps ==
    ASSUME RenamesInv, CommandFails
    PROVE  RenamesInv'
<1>1. /\ Answer(FALSE) /\ UNCHANGED <<tables, changes, commands, emptied, arrived, parted>>
      /\ half' = half \cup (IF command.step \in Renaming THEN {command.from} ELSE {})
      /\ command # Idle
  BY DEF CommandFails, Renaming
<1>2. command.step \in Renaming => command.from \in Spaces
  BY DEF RenamesInv, CommandOK, RenamesTypeOK, Renaming
<1>3. RenamesTypeOK' /\ CommandOK' /\ ListedOK'
  BY <1>1, <1>2, AnswerKeeps DEF RenamesInv, RenamesTypeOK, tables
<1>4. EmptiedOK'
  <2>1. emptied \in SUBSET Spaces /\ \A s \in Spaces : ~Moving(s)' /\ (s \notin half' => s \notin half /\ ~Moving(s))
    BY <1>1, AnswerKeeps DEF RenamesInv, RenamesTypeOK, Moving
  <2> QED BY <1>1, <2>1 DEF RenamesInv, EmptiedOK, tables, In, HasLinks, Keyed, Pinned
<1>5. TogetherOK'
  BY <1>1 DEF RenamesInv, TogetherOK, tables
<1> QED BY <1>3, <1>4, <1>5 DEF RenamesInv
\* The facts about a move under way that its statements use.
LEMMA MoveFacts ==
    ASSUME RenamesInv, NEW step \in {"memories", "links", "keys", "pins"}, Doing(Moves, step)
    PROVE  /\ command.kind \in Moves /\ command.step = step
           /\ command.from \in Spaces /\ command.to \in Spaces /\ command.from # command.to
           /\ command.todo \in Todos /\ answer.kind = "none"
BY DEF Doing, RenamesInv, RenamesTypeOK, CommandOK, Moves

LEMMA ReassignAllKeeps ==
    ASSUME RenamesInv, ReassignAll
    PROVE  RenamesInv'
<1> DEFINE from == command.from
           to == command.to
           rows == DOMAIN command.todo \cap In(from)
           left == In(from) \ rows
<1>1. /\ Doing(Moves, "memories") /\ place' = Reassigned(rows, to)
      /\ answer' = [answer EXCEPT !.moved = rows # {}]
      /\ emptied' = (IF left = {} THEN emptied \cup {from} ELSE emptied) \ {to}
      /\ parted' = parted \cup (IF arrived \cap left = {} THEN {} ELSE rows)
      /\ command' = [command EXCEPT !.step = "links"]
      /\ UNCHANGED <<heir, edges, bound, pinned, changes, commands, arrived, half>>
  BY DEF ReassignAll, Goto, Moves
<1>2. /\ command.kind \in Moves /\ command.step = "memories" /\ from # to
      /\ from \in Spaces /\ to \in Spaces /\ command.todo \in Todos /\ answer.kind = "none"
  BY <1>1, MoveFacts
<1>3. /\ place \in [Entries -> Spaces \cup {NoSpace, Gone}] /\ heir \in [Entries -> Entries]
      /\ emptied \in SUBSET Spaces
      /\ command \in [kind : {"none", "move", "migrate", "split", "repair"},
                 step : {"list", "memories", "links", "keys", "pins", "dedup"},
                 from : Spaces \cup {NoSpace}, to : Spaces \cup {NoSpace}, todo : Todos]
  BY DEF RenamesInv, RenamesTypeOK
<1>4. /\ rows \subseteq Entries /\ left \subseteq arrived /\ left \subseteq Entries
      /\ \A e \in Entries : (e \in rows \cup left <=> place[e] = from) /\ ~(e \in rows /\ e \in left)
  BY <1>2 DEF RenamesInv, ListedOK, In
<1>5. \A e \in Entries : place'[e] = IF e \in rows THEN to ELSE place[e]
  BY <1>1, <1>3, <1>4 DEF Reassigned
<1>6. left = {} \/ (rows \subseteq parted' /\ parted \subseteq parted')
  BY <1>1, <1>4
<1> HIDE DEF rows, left
<1>7. RenamesTypeOK'
  <2>1. place' \in [Entries -> Spaces \cup {NoSpace, Gone}]
    BY <1>1, <1>2, <1>3 DEF Reassigned
  <2>2. parted' \subseteq Entries /\ emptied' \subseteq Spaces
    BY <1>1, <1>2, <1>4 DEF RenamesInv, RenamesTypeOK
  <2>3. /\ command' \in [kind : {"none", "move", "migrate", "split", "repair"},
                 step : {"list", "memories", "links", "keys", "pins", "dedup"},
                 from : Spaces \cup {NoSpace}, to : Spaces \cup {NoSpace}, todo : Todos]
        /\ answer' \in [kind : {"none", "move", "migrate", "split", "repair"}, ok : BOOLEAN,
                 from : Spaces \cup {NoSpace}, moved : BOOLEAN]
    BY <1>1, <1>3 DEF RenamesInv, RenamesTypeOK
  <2> QED BY <1>1, <2>1, <2>2, <2>3 DEF RenamesInv, RenamesTypeOK
<1>8. CommandOK' /\ ListedOK'
  BY <1>1, <1>2, <1>3 DEF RenamesInv, RenamesTypeOK, CommandOK, ListedOK, Moves
<1>9. command'.step = "links" /\ command'.from = from /\ command'.kind \in Moves
  BY <1>1, <1>2, <1>3
<1>10. EmptiedOK'
  <2> SUFFICES ASSUME NEW s \in emptied'
               PROVE  /\ In(s)' = {}
                      /\ (~Moving(s))' /\ s \notin half => ~HasLinks(s) /\ ~Keyed(s) /\ ~Pinned(s)
    BY <1>1, <1>9 DEF EmptiedOK, HasLinks, Keyed, Pinned
  <2>1. s # to /\ s \in Spaces
    BY <1>1, <1>2, <1>3
  <2>2. CASE s = from
    <3>1. left = {}
      <4>1. In(from) # {} \/ rows \cup left = {}
        BY <1>4 DEF In
      <4>2. CASE from \in emptied
        BY <1>4, <4>2 DEF RenamesInv, EmptiedOK, In
      <4>3. CASE from \notin emptied
        BY <1>1, <2>2, <4>3
      <4> QED BY <4>2, <4>3
    <3>2. In(s)' = {}
      BY <1>2, <1>4, <1>5, <2>2, <3>1 DEF In
    <3> QED BY <1>9, <2>2, <3>2 DEF Moving, Renaming
  <2>3. CASE s # from
    <3>1. s \in emptied
      BY <1>1, <2>3
    <3>2. In(s)' = {}
      BY <1>4, <1>5, <2>1, <3>1 DEF RenamesInv, EmptiedOK, In
    <3>3. ~Moving(s)
      BY <1>2 DEF Moving, Renaming
    <3> QED BY <3>1, <3>2, <3>3 DEF RenamesInv, EmptiedOK
  <2> QED BY <2>2, <2>3
<1>11. TogetherOK'
  <2> SUFFICES ASSUME NEW i \in Entries
               PROVE  /\ heir[i] # i => place'[heir[i]] # NoSpace
                      /\ place'[i] \in Spaces /\ place'[heir[i]] \in Spaces /\ {i, heir[i]} \cap parted' = {}
                           => place'[i] = place'[heir[i]]
    BY <1>1 DEF TogetherOK
  <2>1. heir[i] \in Entries
    BY <1>3
  <2>2. heir[i] # i => place'[heir[i]] # NoSpace
    BY <1>2, <1>5, <2>1, SpacesFacts DEF RenamesInv, TogetherOK
  <2>3. ASSUME place'[i] \in Spaces, place'[heir[i]] \in Spaces, {i, heir[i]} \cap parted' = {}
        PROVE  place'[i] = place'[heir[i]]
    <3>1. {i, heir[i]} \cap parted = {}
      BY <1>1, <2>3
    <3>2. place[i] \in Spaces /\ place[heir[i]] \in Spaces
      BY <1>2, <1>4, <1>5, <2>1, <2>3
    <3>3. place[i] = place[heir[i]]
      BY <3>1, <3>2 DEF RenamesInv, TogetherOK
    <3> QED BY <1>4, <1>5, <1>6, <2>1, <2>3, <3>3
  <2> QED BY <2>2, <2>3
<1> QED BY <1>7, <1>8, <1>10, <1>11 DEF RenamesInv

LEMMA ReassignGroupKeeps ==
    ASSUME RenamesInv, NEW to \in Spaces, ReassignGroup(to)
    PROVE  RenamesInv'
<1> DEFINE group == {e \in DOMAIN command.todo : command.todo[e] = to}
           todo == [e \in DOMAIN command.todo \ group |-> command.todo[e]]
<1>1. /\ command.kind = "split" /\ command.step = "memories" /\ place' = Reassigned(group, to)
      /\ command' = [command EXCEPT !.todo = todo]
      /\ emptied' = emptied \ {to} /\ parted' = parted \cup group
      /\ UNCHANGED <<heir, edges, bound, pinned, changes, commands, answer, arrived, half>>
  BY DEF ReassignGroup, Doing
<1>2. /\ place \in [Entries -> Spaces \cup {NoSpace, Gone}] /\ heir \in [Entries -> Entries]
      /\ emptied \in SUBSET Spaces /\ command.todo \in Todos
      /\ command \in [kind : {"none", "move", "migrate", "split", "repair"},
                 step : {"list", "memories", "links", "keys", "pins", "dedup"},
                 from : Spaces \cup {NoSpace}, to : Spaces \cup {NoSpace}, todo : Todos]
  BY DEF RenamesInv, RenamesTypeOK
<1>3. command.from \in Spaces
  BY <1>1 DEF RenamesInv, CommandOK
<1>4. group \subseteq Entries /\ todo \in Todos
  <2>1. DOMAIN command.todo \ group \in SUBSET Entries /\ todo \in [DOMAIN command.todo \ group -> Spaces]
    BY <1>2, TodoTypes
  <2> QED BY <1>2, <2>1, TodoTypes
<1> HIDE DEF group, todo
<1>5. \A e \in Entries : place'[e] = IF e \in group /\ place[e] = command.from THEN to ELSE place[e]
  BY <1>1 DEF Reassigned
<1>6. /\ command' \in [kind : {"none", "move", "migrate", "split", "repair"},
                 step : {"list", "memories", "links", "keys", "pins", "dedup"},
                 from : Spaces \cup {NoSpace}, to : Spaces \cup {NoSpace}, todo : Todos]
      /\ command'.kind = command.kind /\ command'.step = command.step
      /\ command'.from = command.from /\ command'.to = command.to
  BY <1>1, <1>2, <1>4
<1>7. RenamesTypeOK'
  <2>1. place' \in [Entries -> Spaces \cup {NoSpace, Gone}]
    BY <1>1, <1>2 DEF Reassigned
  <2> QED BY <1>1, <1>4, <1>6, <2>1 DEF RenamesInv, RenamesTypeOK
<1>8. CommandOK' /\ ListedOK'
  BY <1>1, <1>6 DEF RenamesInv, CommandOK, ListedOK, Moves
<1>9. EmptiedOK'
  <2>1. \A s \in Spaces : ~Moving(s) /\ ~Moving(s)'
    BY <1>1, <1>6 DEF Moving, Moves
  <2>2. \A s \in emptied' : s \in Spaces /\ In(s)' = {}
    BY <1>1, <1>2, <1>5 DEF RenamesInv, EmptiedOK, In
  <2> QED BY <1>1, <2>1, <2>2 DEF RenamesInv, EmptiedOK, HasLinks, Keyed, Pinned
<1>10. TogetherOK'
  BY <1>1, <1>2, <1>3, <1>5, SpacesFacts DEF RenamesInv, TogetherOK
<1> QED BY <1>7, <1>8, <1>9, <1>10 DEF RenamesInv

LEMMA RestoreEntryKeeps ==
    ASSUME RenamesInv, NEW e \in Entries, RestoreEntry(e)
    PROVE  RenamesInv'
<1> DEFINE todo == [i \in DOMAIN command.todo \ {e} |-> command.todo[i]]
<1>1. /\ command.kind = "repair" /\ command.step = "memories"
      /\ heir' = IF place[e] = command.from THEN [heir EXCEPT ![e] = e] ELSE heir
      /\ command' = [command EXCEPT !.todo = todo]
      /\ UNCHANGED <<place, edges, bound, pinned, changes, commands, answer, renameHistories>>
  BY DEF RestoreEntry, Doing
<1>2. /\ heir \in [Entries -> Entries] /\ command.todo \in Todos
      /\ command \in [kind : {"none", "move", "migrate", "split", "repair"},
                 step : {"list", "memories", "links", "keys", "pins", "dedup"},
                 from : Spaces \cup {NoSpace}, to : Spaces \cup {NoSpace}, todo : Todos]
  BY DEF RenamesInv, RenamesTypeOK
<1>3. todo \in Todos
  <2>1. DOMAIN command.todo \ {e} \in SUBSET Entries /\ todo \in [DOMAIN command.todo \ {e} -> Spaces]
    BY <1>2, TodoTypes
  <2> QED BY <2>1, TodoTypes
<1> HIDE DEF todo
<1>4. /\ command' \in [kind : {"none", "move", "migrate", "split", "repair"},
                 step : {"list", "memories", "links", "keys", "pins", "dedup"},
                 from : Spaces \cup {NoSpace}, to : Spaces \cup {NoSpace}, todo : Todos]
      /\ command'.kind = command.kind /\ command'.step = command.step
      /\ command'.from = command.from /\ command'.to = command.to
  BY <1>1, <1>2, <1>3
<1>5. RenamesTypeOK'
  BY <1>1, <1>2, <1>4 DEF RenamesInv, RenamesTypeOK, renameHistories
<1>6. CommandOK' /\ ListedOK'
  BY <1>1, <1>4 DEF RenamesInv, CommandOK, ListedOK, Moves
<1>7. EmptiedOK'
  BY <1>1, <1>4 DEF RenamesInv, EmptiedOK, renameHistories, In, Moving, HasLinks, Keyed, Pinned
<1>8. TogetherOK'
  BY <1>1, <1>2 DEF RenamesInv, TogetherOK, renameHistories
<1> QED BY <1>5, <1>6, <1>7, <1>8 DEF RenamesInv

LEMMA RenameLinkEndpointsKeeps ==
    ASSUME RenamesInv, RenameLinkEndpoints
    PROVE  RenamesInv'
<1>1. /\ Doing(Moves, "links")
      /\ edges' = {<<Renamed(l[1]), Renamed(l[2])>> : l \in edges}
      /\ emptied' = emptied \ {command.to} /\ command' = [command EXCEPT !.step = "keys"]
      /\ UNCHANGED <<place, heir, bound, pinned, changes, commands, answer, arrived, parted, half>>
  BY DEF RenameLinkEndpoints, Goto, Moves
<1>2. /\ command.kind \in Moves /\ command.step = "links" /\ command.from # command.to
      /\ command.from \in Spaces /\ command.to \in Spaces /\ answer.kind = "none"
  BY <1>1, MoveFacts
<1>3. /\ edges \subseteq Spaces \X Spaces /\ emptied \in SUBSET Spaces
      /\ command \in [kind : {"none", "move", "migrate", "split", "repair"},
                 step : {"list", "memories", "links", "keys", "pins", "dedup"},
                 from : Spaces \cup {NoSpace}, to : Spaces \cup {NoSpace}, todo : Todos]
  BY DEF RenamesInv, RenamesTypeOK
<1>4. /\ command' \in [kind : {"none", "move", "migrate", "split", "repair"},
                 step : {"list", "memories", "links", "keys", "pins", "dedup"},
                 from : Spaces \cup {NoSpace}, to : Spaces \cup {NoSpace}, todo : Todos]
      /\ command'.kind = command.kind /\ command'.step = "keys"
      /\ command'.from = command.from /\ command'.to = command.to
  BY <1>1, <1>3
<1>5. RenamesTypeOK'
  <2>1. edges' \subseteq Spaces \X Spaces
    BY <1>1, <1>2, <1>3 DEF Renamed
  <2> QED BY <1>1, <1>4, <2>1 DEF RenamesInv, RenamesTypeOK
<1>6. CommandOK' /\ TogetherOK' /\ ListedOK'
  BY <1>1, <1>2, <1>4 DEF RenamesInv, CommandOK, TogetherOK, ListedOK, Moves
<1>7. EmptiedOK'
  <2> SUFFICES ASSUME NEW s \in emptied'
               PROVE  /\ In(s) = {} /\ (s = command.from => ~HasLinks(s)')
                      /\ s # command.from /\ s \notin half => ~HasLinks(s)' /\ ~Keyed(s) /\ ~Pinned(s)
    BY <1>1, <1>2, <1>4 DEF EmptiedOK, In, Moving, Keyed, Pinned, Renaming
  <2>1. s \in emptied /\ s # command.to
    BY <1>1
  <2>2. ASSUME HasLinks(s)' PROVE s # command.from /\ HasLinks(s)
    <3>1. PICK l \in edges : s \in {Renamed(l[1]), Renamed(l[2])}
      BY <1>1, <2>2 DEF HasLinks
    <3>2. s # command.from /\ s \in {l[1], l[2]}
      BY <1>2, <2>1, <3>1 DEF Renamed
    <3> QED BY <3>2 DEF HasLinks
  <2> QED BY <2>1, <2>2 DEF RenamesInv, EmptiedOK, Moving
<1> QED BY <1>5, <1>6, <1>7 DEF RenamesInv

LEMMA RenameAPIKeyNamespacesKeeps ==
    ASSUME RenamesInv, RenameAPIKeyNamespaces
    PROVE  RenamesInv'
<1>1. /\ Doing(Moves, "keys") /\ bound' = [k \in Columns |-> Renamed(bound[k])]
      /\ emptied' = emptied \ {command.to} /\ command' = [command EXCEPT !.step = "pins"]
      /\ UNCHANGED <<place, heir, edges, pinned, changes, commands, answer, arrived, parted, half>>
  BY DEF RenameAPIKeyNamespaces, RenamedKeys, Goto, Moves
<1>2. /\ command.kind \in Moves /\ command.step = "keys" /\ command.from # command.to
      /\ command.from \in Spaces /\ command.to \in Spaces /\ answer.kind = "none"
  BY <1>1, MoveFacts
<1>3. /\ bound \in [Columns -> Spaces \cup {NoSpace}] /\ emptied \in SUBSET Spaces
      /\ command \in [kind : {"none", "move", "migrate", "split", "repair"},
                 step : {"list", "memories", "links", "keys", "pins", "dedup"},
                 from : Spaces \cup {NoSpace}, to : Spaces \cup {NoSpace}, todo : Todos]
  BY DEF RenamesInv, RenamesTypeOK
<1>4. /\ command' \in [kind : {"none", "move", "migrate", "split", "repair"},
                 step : {"list", "memories", "links", "keys", "pins", "dedup"},
                 from : Spaces \cup {NoSpace}, to : Spaces \cup {NoSpace}, todo : Todos]
      /\ command'.kind = command.kind /\ command'.step = "pins"
      /\ command'.from = command.from /\ command'.to = command.to
  BY <1>1, <1>3
<1>5. RenamesTypeOK'
  <2>1. bound' \in [Columns -> Spaces \cup {NoSpace}]
    BY <1>1, <1>2, <1>3 DEF Renamed
  <2> QED BY <1>1, <1>4, <2>1 DEF RenamesInv, RenamesTypeOK
<1>6. CommandOK' /\ TogetherOK' /\ ListedOK'
  BY <1>1, <1>2, <1>4 DEF RenamesInv, CommandOK, TogetherOK, ListedOK, Moves
<1>7. EmptiedOK'
  <2> SUFFICES ASSUME NEW s \in emptied'
               PROVE  /\ In(s) = {} /\ (s = command.from => ~HasLinks(s) /\ ~Keyed(s)')
                      /\ s # command.from /\ s \notin half => ~HasLinks(s) /\ ~Keyed(s)' /\ ~Pinned(s)
    BY <1>1, <1>2, <1>4 DEF EmptiedOK, In, Moving, HasLinks, Pinned, Renaming
  <2>1. s \in emptied /\ s # command.to
    BY <1>1
  <2>2. Keyed(s)' => s # command.from /\ Keyed(s)
    BY <1>1, <1>2, <2>1 DEF Keyed, Renamed
  <2>3. s = command.from => ~HasLinks(s)
    BY <1>2, <2>1 DEF RenamesInv, EmptiedOK, Moving, Renaming
  <2> QED BY <2>1, <2>2, <2>3 DEF RenamesInv, EmptiedOK, Moving
<1> QED BY <1>5, <1>6, <1>7 DEF RenamesInv

LEMMA RenamePinNamespacesKeeps ==
    ASSUME RenamesInv, RenamePinNamespaces
    PROVE  RenamesInv'
<1>1. /\ Doing(Moves, "pins") /\ pinned' = [p \in Projects |-> Renamed(pinned[p])]
      /\ emptied' = emptied \ {command.to} /\ half' = half \ {command.from}
      /\ \/ command.kind = "migrate" /\ command' = [command EXCEPT !.step = "dedup"] /\ UNCHANGED answer
         \/ Answer(TRUE)
      /\ UNCHANGED <<place, heir, edges, bound, changes, commands, arrived, parted>>
  BY DEF RenamePinNamespaces, Goto, Moves
<1>2. /\ command.kind \in Moves /\ command.step = "pins" /\ command.from # command.to
      /\ command.from \in Spaces /\ command.to \in Spaces /\ answer.kind = "none"
  BY <1>1, MoveFacts
<1>3. /\ pinned \in [Projects -> Spaces \cup {NoSpace}] /\ emptied \in SUBSET Spaces
      /\ command \in [kind : {"none", "move", "migrate", "split", "repair"},
                 step : {"list", "memories", "links", "keys", "pins", "dedup"},
                 from : Spaces \cup {NoSpace}, to : Spaces \cup {NoSpace}, todo : Todos]
      /\ answer \in [kind : {"none", "move", "migrate", "split", "repair"}, ok : BOOLEAN,
                 from : Spaces \cup {NoSpace}, moved : BOOLEAN]
  BY DEF RenamesInv, RenamesTypeOK
<1>4. /\ command' \in [kind : {"none", "move", "migrate", "split", "repair"},
                 step : {"list", "memories", "links", "keys", "pins", "dedup"},
                 from : Spaces \cup {NoSpace}, to : Spaces \cup {NoSpace}, todo : Todos]
      /\ answer' \in [kind : {"none", "move", "migrate", "split", "repair"}, ok : BOOLEAN,
                 from : Spaces \cup {NoSpace}, moved : BOOLEAN]
      /\ CommandOK' /\ ListedOK' /\ \A s \in Spaces : ~Moving(s)'
  <2>1. CASE Answer(TRUE)
    BY <2>1, AnswerKeeps
  <2>2. CASE command' = [command EXCEPT !.step = "dedup"] /\ UNCHANGED answer
    BY <1>2, <1>3, <2>2 DEF RenamesInv, CommandOK, ListedOK, Moving, Moves, Renaming
  <2> QED BY <1>1, <2>1, <2>2
<1>5. RenamesTypeOK'
  <2>1. pinned' \in [Projects -> Spaces \cup {NoSpace}]
    BY <1>1, <1>2, <1>3 DEF Renamed
  <2> QED BY <1>1, <1>4, <2>1 DEF RenamesInv, RenamesTypeOK
<1>6. TogetherOK'
  BY <1>1 DEF RenamesInv, TogetherOK
<1>7. EmptiedOK'
  <2> SUFFICES ASSUME NEW s \in emptied', s \notin half'
               PROVE  ~HasLinks(s) /\ ~Keyed(s) /\ ~Pinned(s)'
    <3>1. \A s \in emptied' : s \in Spaces /\ In(s) = {}
      BY <1>1, <1>3 DEF RenamesInv, EmptiedOK
    <3> QED BY <1>1, <1>4, <3>1 DEF EmptiedOK, In, HasLinks, Keyed
  <2>1. s \in emptied /\ s # command.to
    BY <1>1
  <2>2. Pinned(s)' => s # command.from /\ Pinned(s)
    BY <1>1, <1>2, <2>1 DEF Pinned, Renamed
  <2>3. s = command.from => ~HasLinks(s) /\ ~Keyed(s)
    BY <1>2, <2>1 DEF RenamesInv, EmptiedOK, Moving, Renaming
  <2>4. s # command.from => s \notin half /\ ~Moving(s)
    BY <1>1 DEF Moving
  <2> QED BY <2>1, <2>2, <2>3, <2>4 DEF RenamesInv, EmptiedOK
<1> QED BY <1>4, <1>5, <1>6, <1>7 DEF RenamesInv

LEMMA RenamesStep == RenamesInv /\ [RenamesNext]_renameVars => RenamesInv'
<1> SUFFICES ASSUME RenamesInv, [RenamesNext]_renameVars PROVE RenamesInv'
  OBVIOUS
<1>1. CASE UNCHANGED renameVars
  BY <1>1 DEF renameVars, tables, renameHistories, RenamesInv, RenamesTypeOK, CommandOK, EmptiedOK,
     TogetherOK, ListedOK, In, Moving, HasLinks, Keyed, Pinned
<1>2. CASE RenamesNext
  BY <1>2, SpacesFacts, RememberKeeps, ReassignMemoryKeeps, ReplaceKeeps, ForgetKeeps, RestoreEntryKeeps,
     DropSpaceKeeps, SplitKeeps, RepairKeeps, ReassignGroupKeeps, PutLinkKeeps, MoveKeeps, BindKeyKeeps,
     PutPinKeeps, MoveNothingKeeps, ReassignAllKeeps, RenameLinkEndpointsKeeps,
     RenameAPIKeyNamespacesKeeps, RenamePinNamespacesKeeps, SplitEndsKeeps, CommandFailsKeeps
     DEF RenamesNext, Moves
<1> QED BY <1>1, <1>2

LEMMA RenamesInvariant == RenamesSpec => []RenamesInv
<1>1. RenamesInit => RenamesInv
  BY RenamesInitInv
<1>2. RenamesInv /\ [RenamesNext]_renameVars => RenamesInv'
  BY RenamesStep
<1> QED BY <1>1, <1>2, PTL DEF RenamesSpec
-----------------------------------------------------------------------------
(***************************************************************************)
(* The two recursions over the chain of heirs.                             *)
(***************************************************************************)
Longest == Cardinality(Entries)

LEMMA LongestNat == Longest \in Nat
BY RenamesAssumption, FS_CardinalityType DEF Longest

\* What ReachesLive computes, step by step.
EndsBy(g, rows) ==
    \A n \in 0 .. Longest :
        g[n] = [i \in Entries |-> i \in rows /\ (heir[i] = i \/ (n > 0 /\ g[n - 1][heir[i]]))]

LEMMA ReachesLiveRecurses ==
    ASSUME heir \in [Entries -> Entries], NEW rows
    PROVE  \E g : EndsBy(g, rows) /\ \A e \in Entries : ReachesLive(e, rows) = g[Longest][e]
<1> DEFINE
      S == [Entries -> BOOLEAN]
      c == [i \in Entries |-> i \in rows /\ heir[i] = i]
      after(x) == [i \in Entries |-> i \in rows /\ (heir[i] = i \/ x[heir[i]])]
      step == [n \in Nat |-> [x \in S |-> after(x)]]
      Rec(g) == g = [n \in 0 .. Cardinality(Entries) |->
                       [i \in Entries |-> i \in rows /\ (heir[i] = i \/ (n > 0 /\ g[n - 1][heir[i]]))]]
      G == CHOOSE g : Rec(g)
<1>1. c \in S /\ \A x \in S : after(x) \in S
  OBVIOUS
<1>2. step \in Steps(S) /\ \A n \in Nat, x \in S : step[n][x] = after(x)
  <2> HIDE DEF S, after
  <2> QED BY <1>1 DEF Steps
<1>3. PICK h : h \in [0 .. Longest -> S] /\ Recurses(h, Longest, c, step)
  <2> HIDE DEF S, c, step
  <2> QED BY <1>1, <1>2, LongestNat, RecursionExists
<1>4. ASSUME NEW n \in 0 .. Longest
      PROVE  h[n] = [i \in Entries |-> i \in rows /\ (heir[i] = i \/ (n > 0 /\ h[n - 1][heir[i]]))]
  <2>1. CASE n = 0
    <3>1. h[0] = c
      <4> HIDE DEF c, step
      <4> QED BY <1>3, <2>1 DEF Recurses
    <3> QED BY <2>1, <3>1
  <2>2. CASE n # 0
    <3>1. n \in Nat /\ n > 0 /\ n - 1 \in 0 .. Longest
      BY <2>2, LongestNat
    <3>2. h[n] = step[n][h[n - 1]] /\ h[n - 1] \in S
      <4> HIDE DEF c, step, S
      <4> QED BY <1>3, <2>2, <3>1 DEF Recurses
    <3>3. h[n] = after(h[n - 1])
      <4> HIDE DEF after, step, S
      <4> QED BY <1>2, <3>1, <3>2
    <3> QED BY <3>1, <3>3
  <2> QED BY <2>1, <2>2
<1>5. Rec(h)
  <2>1. h = [n \in 0 .. Longest |-> h[n]]
    BY <1>3
  <2> QED BY <1>4, <2>1 DEF Longest
<1>6. Rec(G)
  <2> HIDE DEF Rec
  <2> QED BY <1>5
<1>7. \A e \in Entries : ReachesLive(e, rows) = G[Longest][e]
  BY DEF ReachesLive, Longest
<1> HIDE DEF G
<1>8. EndsBy(G, rows)
  BY <1>6 DEF EndsBy, Longest
<1> QED BY <1>7, <1>8

\* What Line computes.
LineBy(g, e) ==
    \A n \in 0 .. Longest : g[n] = IF n = 0 THEN {e} ELSE g[n - 1] \cup {heir[i] : i \in g[n - 1]}

LEMMA LineRecurses ==
    ASSUME heir \in [Entries -> Entries], NEW e \in Entries
    PROVE  \E g : LineBy(g, e) /\ Line(e) = g[Longest]
<1> DEFINE
      S == SUBSET Entries
      after(x) == x \cup {heir[i] : i \in x}
      step == [n \in Nat |-> [x \in S |-> after(x)]]
      Rec(g) == g = [n \in 0 .. Cardinality(Entries) |->
                       IF n = 0 THEN {e} ELSE g[n - 1] \cup {heir[i] : i \in g[n - 1]}]
      G == CHOOSE g : Rec(g)
<1>1. {e} \in S /\ \A x \in S : after(x) \in S
  OBVIOUS
<1>2. step \in Steps(S) /\ \A n \in Nat, x \in S : step[n][x] = after(x)
  <2> HIDE DEF S, after
  <2> QED BY <1>1 DEF Steps
<1>3. PICK h : h \in [0 .. Longest -> S] /\ Recurses(h, Longest, {e}, step)
  <2> HIDE DEF S, step
  <2> QED BY <1>1, <1>2, LongestNat, RecursionExists
<1>4. ASSUME NEW n \in 0 .. Longest
      PROVE  h[n] = IF n = 0 THEN {e} ELSE after(h[n - 1])
  <2>1. n # 0 => n \in Nat /\ n - 1 \in 0 .. Longest
    BY LongestNat
  <2>2. n # 0 => h[n] = step[n][h[n - 1]] /\ h[n - 1] \in S
    <3> HIDE DEF step, S
    <3> QED BY <1>3, <2>1 DEF Recurses
  <2>3. n = 0 => h[n] = {e}
    <3> HIDE DEF step, S
    <3> QED BY <1>3 DEF Recurses
  <2> HIDE DEF after, step, S
  <2> QED BY <1>2, <2>1, <2>2, <2>3
<1>5. Rec(h)
  <2>1. h = [n \in 0 .. Longest |-> h[n]]
    BY <1>3
  <2> QED BY <1>4, <2>1 DEF Longest
<1>6. Rec(G)
  <2> HIDE DEF Rec
  <2> QED BY <1>5
<1>7. Line(e) = G[Longest]
  BY DEF Line, Longest
<1> HIDE DEF G
<1>8. LineBy(G, e)
  BY <1>6 DEF LineBy, Longest
<1> QED BY <1>7, <1>8

(***************************************************************************)
(* Every step of the line lies in the line.                                *)
(***************************************************************************)
LEMMA LineGrows ==
    ASSUME heir \in [Entries -> Entries], NEW e \in Entries, NEW g, LineBy(g, e), NEW k \in 0 .. Longest
    PROVE  g[k] \subseteq g[Longest]
<1> DEFINE T == {n \in Nat : k + n <= Longest => g[k] \subseteq g[k + n]}
<1>1. 0 \in T
  OBVIOUS
<1>2. ASSUME NEW n \in T PROVE n + 1 \in T
  <2> SUFFICES ASSUME k + (n + 1) <= Longest PROVE g[k] \subseteq g[k + (n + 1)]
    OBVIOUS
  <2>1. /\ k + (n + 1) \in 0 .. Longest /\ (k + (n + 1)) - 1 = k + n /\ k + (n + 1) # 0
        /\ g[k] \subseteq g[k + n]
    BY LongestNat
  <2>2. g[k + (n + 1)] = g[k + n] \cup {heir[i] : i \in g[k + n]}
    BY <2>1 DEF LineBy
  <2> QED BY <2>1, <2>2
<1>3. T = Nat
  <2> HIDE DEF T
  <2>1. T \in SUBSET Nat
    BY DEF T
  <2> QED BY <1>1, <1>2, <2>1, InductiveSet
<1>4. Longest - k \in Nat /\ k + (Longest - k) = Longest
  BY LongestNat
<1> QED BY <1>3, <1>4

(***************************************************************************)
(* A chain whose memories a move has never parted ends where it starts:    *)
(* what reaches a live memory somewhere reaches it in its own namespace.   *)
(***************************************************************************)
LEMMA ChainsStay ==
    ASSUME RenamesInv, NEW s \in Spaces, NEW e \in In(s), Line(e) \cap parted = {},
           ReachesLive(e, {i \in Entries : place[i] \in Spaces})
    PROVE  ReachesLive(e, In(s))
<1> DEFINE placed == {i \in Entries : place[i] \in Spaces}
<1>1. heir \in [Entries -> Entries] /\ e \in Entries
  BY DEF RenamesInv, RenamesTypeOK, In
<1>2. PICK g : EndsBy(g, placed) /\ \A i \in Entries : ReachesLive(i, placed) = g[Longest][i]
  BY <1>1, ReachesLiveRecurses
<1>3. PICK h : EndsBy(h, In(s)) /\ \A i \in Entries : ReachesLive(i, In(s)) = h[Longest][i]
  BY <1>1, ReachesLiveRecurses
<1>4. PICK u : LineBy(u, e) /\ Line(e) = u[Longest]
  BY <1>1, LineRecurses
<1> DEFINE T == {n \in Nat : n <= Longest => \A i \in u[Longest - n] \cap In(s) : g[n][i] => h[n][i]}
<1>5. ASSUME NEW n \in 0 .. Longest, NEW i \in u[Longest - n] \cap In(s), g[n][i],
             n > 0 => \A l \in u[Longest - (n - 1)] \cap In(s) : g[n - 1][l] => h[n - 1][l]
      PROVE  h[n][i]
  <2>1. i \in Entries /\ place[i] = s /\ heir[i] \in Entries /\ i \in placed
    BY <1>1 DEF In
  <2>2. heir[i] = i \/ (n > 0 /\ g[n - 1][heir[i]])
    <3>1. g[n] = [l \in Entries |-> l \in placed /\ (heir[l] = l \/ (n > 0 /\ g[n - 1][heir[l]]))]
      BY <1>2 DEF EndsBy
    <3>2. g[n][i] = (i \in placed /\ (heir[i] = i \/ (n > 0 /\ g[n - 1][heir[i]])))
      BY <2>1, <3>1
    <3> QED BY <1>5, <3>2
  <2>3. h[n][i] <=> heir[i] = i \/ (n > 0 /\ h[n - 1][heir[i]])
    BY <1>3, <2>1 DEF EndsBy
  <2>4. CASE heir[i] # i
    <3>1. n > 0 /\ g[n - 1][heir[i]] /\ n - 1 \in 0 .. Longest /\ Longest - (n - 1) \in 0 .. Longest
          /\ Longest - n \in 0 .. Longest
          /\ Longest - (n - 1) # 0 /\ (Longest - (n - 1)) - 1 = Longest - n
      BY <2>2, <2>4, LongestNat
    <3>2. heir[i] \in u[Longest - (n - 1)]
      <4>1. u[Longest - (n - 1)] = u[Longest - n] \cup {heir[l] : l \in u[Longest - n]}
        BY <1>4, <3>1 DEF LineBy
      <4> QED BY <4>1
    <3>3. i \in Line(e) /\ heir[i] \in Line(e)
      BY <1>1, <1>4, <3>1, <3>2, LineGrows
    <3>4. heir[i] \in placed
      BY <1>2, <2>1, <3>1 DEF EndsBy
    <3>5. place[heir[i]] = s
      BY <2>1, <3>3, <3>4 DEF RenamesInv, TogetherOK
    <3>6. h[n - 1][heir[i]]
      BY <1>5, <2>1, <3>1, <3>2, <3>5 DEF In
    <3> QED BY <2>3, <3>1, <3>6
  <2> QED BY <2>3, <2>4
<1>6. 0 \in T
  <2>1. 0 \in 0 .. Longest /\ ~(0 > 0)
    BY LongestNat
  <2> QED BY <1>5, <2>1
<1>7. ASSUME NEW n \in T PROVE n + 1 \in T
  <2> SUFFICES ASSUME n + 1 <= Longest, NEW i \in u[Longest - (n + 1)] \cap In(s), g[n + 1][i]
               PROVE  h[n + 1][i]
    OBVIOUS
  <2>1. n + 1 \in 0 .. Longest /\ (n + 1) - 1 = n
    BY LongestNat
  <2>2. \A l \in u[Longest - n] \cap In(s) : g[n][l] => h[n][l]
    BY LongestNat
  <2> QED BY <1>5, <2>1, <2>2
<1>8. T = Nat
  <2> HIDE DEF T
  <2>1. T \in SUBSET Nat
    BY DEF T
  <2> QED BY <1>6, <1>7, <2>1, InductiveSet
<1>9. Longest \in T /\ Longest - Longest = 0 /\ Longest \in 0 .. Longest
  BY <1>8, LongestNat
<1>10. e \in u[0]
  <2>1. 0 \in 0 .. Longest
    BY LongestNat
  <2>2. u[0] = {e}
    BY <1>4, <2>1 DEF LineBy
  <2> QED BY <2>2
<1>11. g[Longest][e]
  BY <1>1, <1>2
<1>12. h[Longest][e]
  BY <1>9, <1>10, <1>11
<1> QED BY <1>1, <1>3, <1>12

-----------------------------------------------------------------------------

\* Every variable keeps its type.
THEOREM RenamesTypeCorrect == RenamesSpec => []RenamesTypeOK
<1>1. RenamesInv => RenamesTypeOK
  BY DEF RenamesInv
<1> QED BY <1>1, RenamesInvariant, PTL

\* When a move answers without an error nothing names the old namespace any
\* more, unless a request did since or an earlier move stopped half way
\* (renamespace.go).
THEOREM MovesRenameAll == RenamesSpec => []MovedWhole
<1>1. RenamesInv => MovedWhole
  <2> SUFFICES ASSUME RenamesInv, answer.kind \in Moves, answer.from \in emptied \ half
               PROVE  ~Named(answer.from)
    BY DEF MovedWhole, Moves
  <2>1. command.kind = "none"
    BY DEF RenamesInv, CommandOK, Moves
  <2>2. ~Moving(answer.from)
    BY <2>1 DEF Moving, Moves
  <2> QED BY <2>2 DEF RenamesInv, EmptiedOK, Named, HasLinks, Keyed, Pinned
<1> QED BY <1>1, RenamesInvariant, PTL

\* A repair restores only what no live memory replaces, in any namespace, if
\* it and what replaced it were never parted (RepairSupersession, listAll).
THEOREM RepairsStranded == RenamesSpec => RestoresStrandedOnly
<1>1. RenamesInv /\ [RenamesNext]_renameVars =>
        [command.kind = "none" /\ command'.kind = "repair" =>
           \A e \in DOMAIN command'.todo :
              \/ ~ReachesLive(e, {i \in Entries : place[i] \in Spaces})
              \/ Line(e) \cap parted # {}]_renameVars
  <2> SUFFICES ASSUME RenamesInv, RenamesNext, command.kind = "none", command'.kind = "repair",
                      NEW e \in DOMAIN command'.todo
               PROVE  \/ ~ReachesLive(e, {i \in Entries : place[i] \in Spaces})
                      \/ Line(e) \cap parted # {}
    BY DEF renameVars
  <2>1. PICK s \in Spaces : Repair(s)
    <3> SUFFICES ASSUME \A s \in Spaces : ~Repair(s) PROVE FALSE
      OBVIOUS
    <3>1. \A ok : ~Answer(ok)
      BY IdleFacts DEF Answer
    <3>2. \A kind, step, from, to, todo : Launch(kind, step, from, to, todo) => kind = "repair"
      BY DEF Launch
    <3>3. command' # command /\ \A kinds, step : Doing(kinds, step) => "none" \in kinds
      BY DEF Doing
    <3> QED BY <3>1, <3>2, <3>3 DEF RenamesNext, RememberIn, ReassignMemory, Replace, ForgetEntry, DropSpace,
            PutLink, BindKey, PutPin, Requested, RestoreEntry, Split, ReassignGroup, Move, MoveNothing,
            ReassignAll, RenameLinkEndpoints, RenameAPIKeyNamespaces, RenamePinNamespaces,
            SplitEnds, DedupEnds, RepairEnds, CommandFails
  <2>2. e \in In(s) /\ ~ReachesLive(e, In(s))
    BY <2>1 DEF Repair, Launch
  <2> QED BY <2>2, ChainsStay
<1> QED BY <1>1, RenamesInvariant, PTL DEF RenamesSpec, RestoresStrandedOnly
=============================================================================
