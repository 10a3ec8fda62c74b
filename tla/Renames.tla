------------------------------- MODULE Renames -------------------------------
(***************************************************************************)
(* What names a namespace, and the commands that rename one.               *)
(*                                                                         *)
(* A namespace exists through what names it: memories, links, the home and *)
(* default of API keys, pins.  A move rewrites these tables one after the  *)
(* other, each in a transaction of its own; a migration moves a tenant's   *)
(* shared namespace into the tenant's own; a split regroups the memories   *)
(* alone; a repair restores, one namespace at a time, what no live memory  *)
(* replaces.  The server goes on serving requests meanwhile, and a command *)
(* may fail or be interrupted before any of its statements.                *)
(*                                                                         *)
(* Code: internal/maintenance/renamespace.go, scopes.go, repair.go; the    *)
(* statements of internal/store/sqlitevec; the handlers of internal/api/   *)
(* rest that write what names a namespace.  The tiers of a link are left   *)
(* out, and a supersession, which Lineage splits into its steps, is one.   *)
(***************************************************************************)
EXTENDS Integers, FiniteSets

CONSTANTS
    Entries,      \* memories that may exist
    Shared,       \* the namespace "<tenant>/_shared"
    Tenant,       \* its parent
    Outside,      \* other namespaces
    NoSpace,      \* of a memory not yet written, a key or a pin without one
    Gone,         \* of a memory that was deleted; ids are not used again
    Columns,      \* the home and the default of the API keys
    Projects,     \* what a pin binds to a namespace
    MaxChanges,   \* bound: requests that change something
    MaxCommands   \* bound: commands

Spaces == {Shared, Tenant} \cup Outside

ASSUME RenamesAssumption ==
    /\ NoSpace \notin Spaces /\ Gone \notin Spaces \cup {NoSpace} /\ Shared # Tenant
    /\ IsFiniteSet(Entries) /\ MaxChanges \in Nat /\ MaxCommands \in Nat

VARIABLES
    place,     \* memories.namespace
    heir,      \* memories.superseded_by; an entry is its own heir when NULL
    edges,     \* namespace_links
    bound,     \* api_keys.home_ns, default_ns
    pinned,    \* pins.namespace
    command,   \* the command that runs
    changes,   \* requests so far
    commands,  \* commands so far
    answer,    \* what the last command answered
    emptied,   \* history: namespaces a move has taken the memories of, unnamed since
    arrived,   \* history: memories that came to a namespace since the command listed
    parted,    \* history: memories moved without all of their namespace
    half       \* history: namespaces a move has left half-renamed

tables == <<place, heir, edges, bound, pinned>>
renameHistories == <<emptied, arrived, parted, half>>
renameVars == <<tables, command, changes, commands, answer, renameHistories>>

Idle == [kind |-> "none", step |-> "list", from |-> NoSpace, to |-> NoSpace,
         todo |-> [e \in {} |-> NoSpace]]
NoAnswer == [kind |-> "none", ok |-> TRUE, from |-> NoSpace, moved |-> FALSE]

In(s) == {e \in Entries : place[e] = s}

\* What names the namespace.
Named(s) ==
    \/ In(s) # {}
    \/ \E l \in edges : s \in {l[1], l[2]}
    \/ \E k \in Columns : bound[k] = s
    \/ \E p \in Projects : pinned[p] = s

\* A chain of superseded_by that ends at a live memory, within a set of rows.
ReachesLive(e, rows) ==
    LET ends[n \in 0 .. Cardinality(Entries)] ==
          [i \in Entries |-> i \in rows /\ (heir[i] = i \/ (n > 0 /\ ends[n - 1][heir[i]]))]
    IN  ends[Cardinality(Entries)][e]

\* The chain itself.
Line(e) ==
    LET upTo[n \in 0 .. Cardinality(Entries)] ==
          IF n = 0 THEN {e} ELSE upTo[n - 1] \cup {heir[i] : i \in upTo[n - 1]}
    IN  upTo[Cardinality(Entries)]

\* What a command has yet to do: where each of these memories goes.
Todos == UNION {[rows -> Spaces] : rows \in SUBSET Entries}

RenamesTypeOK ==
    /\ place \in [Entries -> Spaces \cup {NoSpace, Gone}]
    /\ heir \in [Entries -> Entries]
    /\ edges \subseteq Spaces \X Spaces
    /\ bound \in [Columns -> Spaces \cup {NoSpace}]
    /\ pinned \in [Projects -> Spaces \cup {NoSpace}]
    /\ command \in [kind : {"none", "move", "migrate", "split", "repair"},
                    step : {"list", "memories", "links", "keys", "pins", "dedup"},
                    from : Spaces \cup {NoSpace}, to : Spaces \cup {NoSpace}, todo : Todos]
    /\ answer \in [kind : {"none", "move", "migrate", "split", "repair"}, ok : BOOLEAN,
                   from : Spaces \cup {NoSpace}, moved : BOOLEAN]
    /\ changes \in 0 .. MaxChanges /\ commands \in 0 .. MaxCommands
    /\ emptied \subseteq Spaces /\ arrived \subseteq Entries /\ parted \subseteq Entries
    /\ half \subseteq Spaces

\* A store in use: some memories, one of them perhaps replaced, a link, a pin.
RenamesInit ==
    /\ place \in [Entries -> {Shared, Tenant, NoSpace}]
    /\ \/ heir = [e \in Entries |-> e]
       \/ \E e, r \in Entries : /\ place[e] = place[r] /\ place[e] # NoSpace
                                /\ heir = [i \in Entries |-> IF i = e THEN r ELSE i]
    /\ edges \in {{}} \cup {{<<s, Shared>>} : s \in Outside}
    /\ bound = [k \in Columns |-> NoSpace]
    /\ pinned \in [Projects -> {Shared, NoSpace}]
    /\ command = Idle /\ answer = NoAnswer
    /\ changes = 0 /\ commands = 0
    /\ emptied = {} /\ arrived = {} /\ parted = {} /\ half = {}

-----------------------------------------------------------------------------
(***************************************************************************)
(* Requests.                                                               *)
(***************************************************************************)
Requested ==
    /\ changes < MaxChanges
    /\ changes' = changes + 1
    /\ UNCHANGED <<command, commands, answer>>

\* A request names these namespaces, by these memories that come to them.
NowNamed(spaces, new) ==
    /\ emptied' = emptied \ spaces
    /\ arrived' = arrived \cup new

RememberIn(e, s) ==
    /\ Requested
    /\ place[e] = NoSpace
    /\ place' = [place EXCEPT ![e] = s]
    /\ heir' = [heir EXCEPT ![e] = e]
    /\ NowNamed({s}, {e})
    /\ UNCHANGED <<edges, bound, pinned, parted, half>>

\* A memory is replaced by another one of its namespace.
Replace(e, r) ==
    /\ Requested
    /\ e # r /\ place[e] \in Spaces /\ place[r] = place[e]
    /\ heir[e] = e /\ heir[r] = r
    /\ heir' = [heir EXCEPT ![e] = r]
    /\ UNCHANGED <<place, edges, bound, pinned, renameHistories>>

ForgetEntry(e) ==
    /\ Requested
    /\ place[e] \in Spaces
    /\ place' = [place EXCEPT ![e] = Gone]
    /\ UNCHANGED <<heir, edges, bound, pinned, renameHistories>>

\* DeleteNamespace: memories and links; keys and pins keep the name.
DropSpace(s) ==
    /\ Requested
    /\ place' = [e \in Entries |-> IF place[e] = s THEN Gone ELSE place[e]]
    /\ edges' = {l \in edges : s \notin {l[1], l[2]}}
    /\ UNCHANGED <<heir, bound, pinned, renameHistories>>

\* ReassignMemory moves one memory, whatever it replaced or replaces it.
ReassignMemory(e, s) ==
    /\ Requested
    /\ place[e] \in Spaces /\ s # place[e]
    /\ place' = [place EXCEPT ![e] = s]
    /\ NowNamed({s}, {e})
    /\ parted' = parted \cup {e}
    /\ UNCHANGED <<heir, edges, bound, pinned, half>>

PutLink(s, t) ==
    /\ Requested
    /\ s # t
    /\ edges' = edges \cup {<<s, t>>}
    /\ NowNamed({s, t}, {})
    /\ UNCHANGED <<place, heir, bound, pinned, parted, half>>

BindKey(k, s) ==
    /\ Requested
    /\ bound' = [bound EXCEPT ![k] = s]
    /\ NowNamed({s}, {})
    /\ UNCHANGED <<place, heir, edges, pinned, parted, half>>

PutPin(p, s) ==
    /\ Requested
    /\ pinned' = [pinned EXCEPT ![p] = s]
    /\ NowNamed({s}, {})
    /\ UNCHANGED <<place, heir, edges, bound, parted, half>>

-----------------------------------------------------------------------------
(***************************************************************************)
(* Commands.                                                               *)
(***************************************************************************)
Doing(kinds, step) == command.kind \in kinds /\ command.step = step
Goto(step) == command' = [command EXCEPT !.step = step]

Launch(kind, step, from, to, todo) ==
    /\ command = Idle /\ commands < MaxCommands
    /\ commands' = commands + 1
    /\ command' = [kind |-> kind, step |-> step, from |-> from, to |-> to, todo |-> todo]
    /\ answer' = [kind |-> "none", ok |-> TRUE, from |-> from, moved |-> FALSE]
    /\ arrived' = {}
    /\ UNCHANGED <<tables, changes, emptied, parted, half>>

Answer(ok) ==
    /\ command' = Idle
    /\ answer' = [answer EXCEPT !.kind = command.kind, !.ok = ok]

\* Mutation of ListAll: what is superseded is not listed.
ListLive(s) == {e \in In(s) : heir[e] = e}

\* Every memory of the namespace, superseded and expired ones included.
ListAll(s) == In(s)

\* Move with nothing to move returns at once: ListNamespaces, which a migration
\* walks, finds namespaces by their memories.
MoveNothing(kind, from) ==
    /\ command = Idle /\ commands < MaxCommands
    /\ ListAll(from) = {}
    /\ commands' = commands + 1
    /\ answer' = [kind |-> kind, ok |-> TRUE, from |-> from, moved |-> FALSE]
    /\ UNCHANGED <<tables, command, changes, renameHistories>>

Move(kind, from, to) ==
    /\ from # to /\ ListAll(from) # {}
    /\ Launch(kind, "memories", from, to, [e \in ListAll(from) |-> to])

\* Split: where each memory goes is in its metadata, or it stays.
Split(from) ==
    \E leave \in SUBSET ListAll(from) : \E to \in [leave -> Spaces \ {from}] :
        Launch("split", "memories", from, from, to)

\* The rows of `todo' that are still in the namespace move, in one transaction.
Reassigned(rows, to) ==
    [e \in Entries |-> IF e \in rows /\ place[e] = command.from THEN to ELSE place[e]]

ReassignAll ==
    LET rows == DOMAIN command.todo \cap In(command.from)
        left == In(command.from) \ rows
    IN /\ Doing({"move", "migrate"}, "memories")
       /\ place' = Reassigned(rows, command.to)
       /\ answer' = [answer EXCEPT !.moved = rows # {}]
       /\ emptied' = (IF left = {} THEN emptied \cup {command.from} ELSE emptied) \ {command.to}
       /\ parted' = parted \cup (IF arrived \cap left = {} THEN {} ELSE rows)
       /\ Goto("links")
       /\ UNCHANGED <<heir, edges, bound, pinned, changes, commands, arrived, half>>

\* Split reassigns group by group, and ends.
ReassignGroup(to) ==
    LET group == {e \in DOMAIN command.todo : command.todo[e] = to} IN
    /\ Doing({"split"}, "memories") /\ group # {}
    /\ place' = Reassigned(group, to)
    /\ command' = [command EXCEPT !.todo = [e \in DOMAIN @ \ group |-> @[e]]]
    /\ emptied' = emptied \ {to}
    /\ parted' = parted \cup group
    /\ UNCHANGED <<heir, edges, bound, pinned, changes, commands, answer, arrived, half>>

SplitEnds ==
    /\ Doing({"split"}, "memories") /\ DOMAIN command.todo = {}
    /\ Answer(TRUE)
    /\ UNCHANGED <<tables, changes, commands, renameHistories>>

Renamed(s) == IF s = command.from THEN command.to ELSE s

\* RenameLinkEndpoints; a link already there wins.
RenameLinkEndpoints ==
    /\ Doing({"move", "migrate"}, "links")
    /\ edges' = {<<Renamed(l[1]), Renamed(l[2])>> : l \in edges}
    /\ emptied' = emptied \ {command.to}
    /\ Goto("keys")
    /\ UNCHANGED <<place, heir, bound, pinned, changes, commands, answer, arrived, parted, half>>

\* Mutation of RenamedKeys: one column of the row is rewritten.
RenamedOneKey == LET k == CHOOSE k \in Columns : TRUE
                 IN [bound EXCEPT ![k] = IF @ = command.from THEN command.to ELSE @]

RenamedKeys == [k \in Columns |-> Renamed(bound[k])]

RenameAPIKeyNamespaces ==
    /\ Doing({"move", "migrate"}, "keys")
    /\ bound' = RenamedKeys
    /\ emptied' = emptied \ {command.to}
    /\ Goto("pins")
    /\ UNCHANGED <<place, heir, edges, pinned, changes, commands, answer, arrived, parted, half>>

RenamePinNamespaces ==
    /\ Doing({"move", "migrate"}, "pins")
    /\ pinned' = [p \in Projects |-> Renamed(pinned[p])]
    /\ emptied' = emptied \ {command.to}
    /\ IF command.kind = "migrate" /\ answer.moved
         THEN Goto("dedup") /\ UNCHANGED answer
         ELSE Answer(TRUE)
    /\ half' = half \ {command.from}
    /\ UNCHANGED <<place, heir, edges, bound, changes, commands, arrived, parted>>

\* The pass that follows a migration; what it tombstones is a Replace.
DedupEnds ==
    /\ Doing({"migrate"}, "dedup")
    /\ Answer(TRUE)
    /\ UNCHANGED <<tables, changes, commands, renameHistories>>

\* A statement fails, or the command is interrupted: what is done stays done.
CommandFails ==
    /\ command # Idle
    /\ Answer(FALSE)
    /\ half' = half \cup (IF command.step \in {"links", "keys", "pins"} THEN {command.from} ELSE {})
    /\ UNCHANGED <<tables, changes, commands, emptied, arrived, parted>>

\* RepairSupersession lists a namespace, and restores what is stranded in it.
Repair(s) ==
    /\ In(s) # {}
    /\ Launch("repair", "memories", s, s,
             [e \in {i \in In(s) : heir[i] # i /\ ~ReachesLive(i, In(s))} |-> s])

RestoreEntry(e) ==
    /\ Doing({"repair"}, "memories") /\ e \in DOMAIN command.todo
    /\ heir' = IF place[e] = command.from THEN [heir EXCEPT ![e] = e] ELSE heir
    /\ command' = [command EXCEPT !.todo = [i \in DOMAIN @ \ {e} |-> @[i]]]
    /\ UNCHANGED <<place, edges, bound, pinned, changes, commands, answer, renameHistories>>

RepairEnds ==
    /\ Doing({"repair"}, "memories") /\ DOMAIN command.todo = {}
    /\ Answer(TRUE)
    /\ UNCHANGED <<tables, changes, commands, renameHistories>>

RenamesNext ==
    \/ \E e \in Entries, s \in Spaces : RememberIn(e, s) \/ ReassignMemory(e, s)
    \/ \E e, r \in Entries : Replace(e, r)
    \/ \E e \in Entries : ForgetEntry(e) \/ RestoreEntry(e)
    \/ \E s \in Spaces : DropSpace(s) \/ Split(s) \/ Repair(s) \/ ReassignGroup(s)
    \/ \E s, t \in Spaces : PutLink(s, t) \/ Move("move", s, t)
    \/ \E k \in Columns, s \in Spaces : BindKey(k, s)
    \/ \E p \in Projects, s \in Spaces : PutPin(p, s)
    \/ \E s \in Spaces : MoveNothing("move", s)
    \/ Move("migrate", Shared, Tenant) \/ MoveNothing("migrate", Shared)
    \/ ReassignAll \/ RenameLinkEndpoints \/ RenameAPIKeyNamespaces \/ RenamePinNamespaces
    \/ SplitEnds \/ DedupEnds \/ RepairEnds \/ CommandFails

RenamesSpec == RenamesInit /\ [][RenamesNext]_renameVars

-----------------------------------------------------------------------------
(***************************************************************************)
(* Properties.                                                             *)
(***************************************************************************)

\* When a move of a namespace whose memories a move has taken answers without an
\* error, nothing names it any more: no link, key or pin "orphaned at the old
\* name".  Unless a request has named it in between, or an earlier move failed
\* between its statements: running it again finds no memory and returns at once.
MovedWhole ==
    answer.kind \in {"move", "migrate"} /\ answer.ok
        /\ answer.from \in emptied \ half => ~Named(answer.from)

\* What a repair restores had no live memory in its place, in any namespace,
\* unless a split or a single reassignment had parted it from what replaced it, or
\* a move that a request interleaved with (RepairSupersession, listAll).
RestoresStrandedOnly ==
    [][command.kind = "none" /\ command'.kind = "repair" =>
         \A e \in DOMAIN command'.todo :
            \/ ~ReachesLive(e, {i \in Entries : place[i] \in Spaces})
            \/ Line(e) \cap parted # {}]_renameVars
=============================================================================
