------------------------------ MODULE MCUpkeep ------------------------------
(***************************************************************************)
(* Instances of the parts of the service that share no state: how long     *)
(* memories live and what they are believed to be worth (Retention,        *)
(* Confidence), who may call (Access), where they are kept (Renames), and  *)
(* what one request computes (ReadSets, Reserves, Splitting).  A behaviour *)
(* is a behaviour of one part, the others at rest: their product would     *)
(* only add interleavings of steps that do not touch each other.           *)
(***************************************************************************)
EXTENDS Retention, Confidence, Access, Renames, ReadSets, Reserves, Splitting, TLC

VARIABLE part

MCQuotas == {[limit |-> 1, reserve |-> 2, pool |-> 3],
             [limit |-> 2, reserve |-> 1, pool |-> 3],
             [limit |-> 2, reserve |-> 2, pool |-> 3]}

\* A working memory with each lifetime, and an episodic one with each end.
MCWrites ==
    [tier : {"working"}, ttl : Lifetimes, end : {Never}]
      \cup [tier : {"episodic"}, ttl : {DefaultTTL}, end : {Never, 0}]
MCRewrites == {[tier |-> "working", ttl |-> Never, end |-> Never]}

Symmetric == Permutations(Mems)

\* There is something to resolve and something to split, for the parts at rest.
ASSUME UpkeepAssumption == Segments # {} /\ Sizes # {} /\ Overlaps # {} /\ Caps # {}

\* The parts at rest, each in an initial state of its own.
ReadSetRest ==
    /\ request = [primary |-> CHOOSE p \in Paths : TRUE, home |-> NoPath, scope |-> "full", tiers |-> {},
                  stored |-> Paths, links |-> <<>>, cascade |-> TRUE, list |-> <<>>]
    /\ stage = "names" /\ legs = <<>>

ReserveRest ==
    /\ ranked = <<>> /\ order = <<>> /\ selected = {} /\ out = <<>>
    /\ quota = (CHOOSE q \in Quotas : TRUE) /\ next = quota.limit + 1
    /\ phase = "durable"

SplitRest ==
    /\ content = <<>> /\ parts = <<>> /\ from = 0 /\ prevCut = 0 /\ split = "cutting"
    /\ config = CHOOSE c \in [size : Sizes, overlap : Overlaps, cap : Caps] : TRUE

RenamesRest ==
    /\ place = [e \in Entries |-> NoSpace] /\ heir = [e \in Entries |-> e] /\ edges = {}
    /\ bound = [k \in Columns |-> NoSpace] /\ pinned = [p \in Projects |-> NoSpace]
    /\ command = Idle /\ answer = NoAnswer /\ changes = 0 /\ commands = 0
    /\ emptied = {} /\ arrived = {} /\ parted = {} /\ half = {}

UpkeepInit ==
    /\ part \in {"retention", "confidence", "access", "renames", "readsets", "reserves", "splitting"}
    /\ RetentionInit /\ ConfidenceInit /\ AccessInit
    /\ IF part = "renames" THEN RenamesInit ELSE RenamesRest
    /\ IF part = "readsets" THEN ReadSetInit ELSE ReadSetRest
    /\ IF part = "reserves" THEN ReserveInit ELSE ReserveRest
    /\ IF part = "splitting" THEN SplitInit ELSE SplitRest

UpkeepVars == <<part, retentionVars, confidenceVars, accessVars, renameVars, readSetVars, reserveVars, splitVars>>

UpkeepNext ==
    \/ /\ part = "retention" /\ RetentionNext
       /\ UNCHANGED <<part, confidenceVars, accessVars, renameVars, readSetVars, reserveVars, splitVars>>
    \/ /\ part = "confidence" /\ ConfidenceNext
       /\ UNCHANGED <<part, retentionVars, accessVars, renameVars, readSetVars, reserveVars, splitVars>>
    \/ /\ part = "access" /\ AccessNext
       /\ UNCHANGED <<part, retentionVars, confidenceVars, renameVars, readSetVars, reserveVars, splitVars>>
    \/ /\ part = "renames" /\ RenamesNext
       /\ UNCHANGED <<part, retentionVars, confidenceVars, accessVars, readSetVars, reserveVars, splitVars>>
    \/ /\ part = "readsets" /\ ReadSetNext
       /\ UNCHANGED <<part, retentionVars, confidenceVars, accessVars, renameVars, reserveVars, splitVars>>
    \/ /\ part = "reserves" /\ ReserveNext
       /\ UNCHANGED <<part, retentionVars, confidenceVars, accessVars, renameVars, readSetVars, splitVars>>
    \/ /\ part = "splitting" /\ SplitNext
       /\ UNCHANGED <<part, retentionVars, confidenceVars, accessVars, renameVars, readSetVars, reserveVars>>

UpkeepSpec == UpkeepInit /\ [][UpkeepNext]_UpkeepVars

\* Every variable of the part that runs has its type; the others stay as they are.
UpkeepTypeOK ==
    /\ part = "retention" => RetentionTypeOK
    /\ part = "confidence" => ConfidenceTypeOK
    /\ part = "access" => AccessTypeOK
    /\ part = "renames" => RenamesTypeOK
    /\ part = "readsets" => ReadSetTypeOK
    /\ part = "reserves" => ReserveTypeOK
    /\ part = "splitting" => SplitTypeOK
=============================================================================
