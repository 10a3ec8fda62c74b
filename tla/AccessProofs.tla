----------------------------- MODULE AccessProofs -----------------------------
(***************************************************************************)
(* Proofs about Access.  The restrictions of a key hold because secrets    *)
(* are never shared: whatever row, stored or read by a request, carries a  *)
(* secret carries it for one name only, so that retiring the secret of one *)
(* key cannot touch another.  The cache is right because each answer it    *)
(* takes was listed after the cache had been forgotten.                    *)
(***************************************************************************)
EXTENDS Access, TLAPS

\* A request under way names a key, and what it will write back it has read from
\* a stored row, or mints.
AsksSound ==
    \A r \in KeyRequests :
        /\ ask[r] # NoAsk => ask[r].op # "none" /\ ask[r].name \in KeyNames
        /\ ask[r].step = "put" /\ ask[r].op \in {"update", "self"} => ask[r].seen.secret >= 1

\* Secrets are minted in order and carried for one name each.
SecretsMinted ==
    /\ \A n \in KeyNames : keys[n].secret <= minted
    /\ \A r \in KeyRequests : ask[r].seen.secret <= minted
    /\ dead \subseteq 1 .. minted

SecretsApart ==
    /\ \A n, m \in KeyNames : keys[n].secret # 0 /\ keys[n].secret = keys[m].secret => n = m
    /\ \A r \in KeyRequests, m \in KeyNames :
         ask[r].seen.secret # 0 /\ ask[r].seen.secret = keys[m].secret => ask[r].name = m
    /\ \A r, q \in KeyRequests :
         ask[r].seen.secret # 0 /\ ask[r].seen.secret = ask[q].seen.secret
           => ask[r].name = ask[q].name

\* A stored row has a secret, and the restricted keys are stored.
RowsSound ==
    /\ \A n \in Stored(keys) : keys[n].secret >= 1
    /\ barred \subseteq Stored(keys) /\ limited \subseteq Stored(keys)

Told == unheard \/ \E r \in KeyRequests : ask[r].step = "tell"

\* A listing under way is as true as the cache it will fill.
CacheSound ==
    /\ probe # "none" => ~cache.fresh
    /\ cache.fresh => (cache.nonEmpty <=> Stored(keys) # {}) \/ Told
    /\ probe # "none" => (probe = "some" <=> Stored(keys) # {}) \/ Told

AccessInv ==
    /\ AccessTypeOK /\ AsksSound /\ SecretsMinted /\ SecretsApart /\ RowsSound
    /\ RestrictionsHold /\ CacheSound

-----------------------------------------------------------------------------
(***************************************************************************)
(* Rows.                                                                   *)
(***************************************************************************)
\* Set changes the flag it names and nothing else (UpdateApiKey).
LEMMA SetFacts ==
    ASSUME NEW row \in KeyRow, NEW change \in Changes
    PROVE  /\ Set(row, change) \in KeyRow
           /\ Set(row, change).secret = row.secret
           /\ Set(row, change).disabled = (IF change.flag = "disabled" THEN change.to ELSE row.disabled)
           /\ Set(row, change).readOnly = (IF change.flag = "readOnly" THEN change.to ELSE row.readOnly)
<1>1. change.flag \in {"disabled", "admin", "readOnly", "none"} /\ change.to \in BOOLEAN
  <2>1. CASE change \in [flag : Flags, to : BOOLEAN]
    BY <2>1 DEF Flags
  <2>2. CASE change = Unchanged
    BY <2>2 DEF Unchanged
  <2> QED
    BY <2>1, <2>2 DEF Changes
<1>2. CASE change.flag = "disabled"
  BY <1>1, <1>2 DEF Set, KeyRow
<1>3. CASE change.flag = "admin"
  BY <1>1, <1>3 DEF Set, KeyRow
<1>4. CASE change.flag = "readOnly"
  BY <1>1, <1>4 DEF Set, KeyRow
<1>5. CASE change.flag = "none"
  BY <1>1, <1>5 DEF Set, KeyRow
<1> QED
  BY <1>1, <1>2, <1>3, <1>4, <1>5

\* What the table and the requests hold.
LEMMA AccessTypes ==
    ASSUME AccessTypeOK, NEW r \in KeyRequests
    PROVE  /\ ask[r].seen \in KeyRow /\ ask[r].change \in Changes
           /\ ask[r].op \in KeyOps \cup {"none"}
           /\ ask[r].step \in {"look", "put", "tell"}
           /\ minted \in Nat
  BY AccessAssumption DEF AccessTypeOK

\* The row a request writes: its own flags, one of them changed, under a new
\* secret or the one it has read.
LEMMA NewRowFacts ==
    ASSUME AccessTypeOK, NEW r \in KeyRequests,
           Mints(ask[r].op) => minted < MaxSecrets
    PROVE  /\ NewRow(ask[r]) \in KeyRow
           /\ NewRow(ask[r]).secret = (IF Mints(ask[r].op) THEN minted + 1 ELSE ask[r].seen.secret)
           /\ NewRow(ask[r]).disabled =
                (IF ask[r].change.flag = "disabled" THEN ask[r].change.to ELSE ask[r].seen.disabled)
           /\ NewRow(ask[r]).readOnly =
                (IF ask[r].change.flag = "readOnly" THEN ask[r].change.to ELSE ask[r].seen.readOnly)
<1> DEFINE a == ask[r]
           base == IF Mints(a.op) THEN Renewed(a.seen, minted + 1) ELSE a.seen
<1>1. a.seen \in KeyRow /\ a.change \in Changes /\ minted \in Nat
  BY AccessTypes
<1>2. /\ base \in KeyRow
      /\ base.secret = (IF Mints(a.op) THEN minted + 1 ELSE a.seen.secret)
      /\ base.disabled = a.seen.disabled /\ base.readOnly = a.seen.readOnly
  BY <1>1, AccessAssumption DEF Renewed, KeyRow
<1> HIDE DEF base
<1>3. NewRow(a) = Set(base, a.change)
  BY DEF NewRow, base
<1> QED
  BY <1>1, <1>2, <1>3, SetFacts

\* A stored row is one with a secret.
LEMMA StoredFacts ==
    ASSUME AccessTypeOK, NEW n \in KeyNames
    PROVE  /\ keys[n] \in KeyRow
           /\ n \in Stored(keys) <=> keys[n] # NoKey
           /\ keys[n].secret >= 1 => n \in Stored(keys)
  BY AccessAssumption DEF AccessTypeOK, Stored, NoKey, KeyRow

-----------------------------------------------------------------------------
(***************************************************************************)
(* The initial states, and the steps that write no key.                    *)
(***************************************************************************)
\* The strengthened invariant holds of an empty table.
LEMMA AccessInitially == AccessInit => AccessInv
<1> SUFFICES ASSUME AccessInit PROVE AccessInv
  OBVIOUS
<1>1. NoKey \in KeyRow
  BY AccessAssumption DEF NoKey, KeyRow
<1>2. AccessTypeOK
  <2>1. Unchanged \in Changes /\ Nobody \in KeyNames \cup {Nobody, Shell}
    BY DEF Changes
  <2>2. NoAsk \in [op : KeyOps \cup {"none"}, step : {"look", "put", "tell"},
                  by : KeyNames \cup {Nobody, Shell}, name : KeyNames \cup {Nobody},
                  change : Changes, seen : KeyRow]
    BY <1>1, <2>1 DEF NoAsk
  <2>3. minted \in 0 .. MaxSecrets /\ asks \in 0 .. MaxAsks
    BY AccessAssumption DEF AccessInit
  <2> QED
    BY <1>1, <2>2, <2>3 DEF AccessInit, AccessTypeOK
<1>3. Stored(keys) = {}
  BY DEF AccessInit, Stored
<1>4. (\A n \in KeyNames : keys[n].secret = 0)
      /\ \A r \in KeyRequests : ask[r] = NoAsk /\ ask[r].step = "look" /\ ask[r].seen.secret = 0
  BY DEF AccessInit, NoAsk, NoKey
<1>5. AsksSound
  BY <1>4 DEF AsksSound
<1>6. SecretsMinted /\ SecretsApart
  BY <1>4 DEF AccessInit, SecretsMinted, SecretsApart
<1>7. RowsSound /\ RestrictionsHold /\ CacheSound
  BY <1>3 DEF AccessInit, RowsSound, RestrictionsHold, CacheSound
<1> QED
  BY <1>2, <1>5, <1>6, <1>7 DEF AccessInv

\* The invariant but for the cache depends on the table, the requests and the
\* histories of keys.
LEMMA CacheStep ==
    ASSUME AccessInv, AccessTypeOK', CacheSound',
           UNCHANGED <<keys, ask, minted, dead, barred, limited, torn>>
    PROVE  AccessInv'
  BY DEF AccessInv, AsksSound, SecretsMinted, SecretsApart, RowsSound, RestrictionsHold, Stored

\* What the cache and its listing do preserves the invariant.
LEMMA CacheSteps ==
    ASSUME AccessInv, CacheExpires \/ ProbeList \/ ProbeSet \/ ProbeFails
    PROVE  AccessInv'
<1> USE DEF AccessInv
<1>1. CASE CacheExpires
  <2>1. AccessTypeOK'
    BY <1>1 DEF CacheExpires, AccessTypeOK, keyHistories
  <2>2. CacheSound'
    BY <1>1 DEF CacheExpires, CacheSound, AccessTypeOK, keyHistories
  <2> QED
    BY <1>1, <2>1, <2>2, CacheStep DEF CacheExpires, keyHistories
<1>2. CASE ProbeList
  <2>1. AccessTypeOK'
    BY <1>2 DEF ProbeList, AccessTypeOK, keyHistories
  <2>2. CacheSound'
    BY <1>2 DEF ProbeList, CacheSound, Stored, keyHistories
  <2> QED
    BY <1>2, <2>1, <2>2, CacheStep DEF ProbeList, keyHistories
<1>3. CASE ProbeSet
  <2>1. AccessTypeOK'
    BY <1>3 DEF ProbeSet, AccessTypeOK, keyHistories
  <2>2. CacheSound'
    <3>1. cache' = [fresh |-> TRUE, nonEmpty |-> probe = "some"] /\ probe' = "none"
          /\ Stored(keys)' = Stored(keys) /\ Told' = Told
      BY <1>3 DEF ProbeSet, Told, Stored, keyHistories
    <3>2. (probe = "some" <=> Stored(keys) # {}) \/ Told
      BY <1>3 DEF ProbeSet, CacheSound
    <3> QED
      BY <3>1, <3>2 DEF CacheSound
  <2> QED
    BY <1>3, <2>1, <2>2, CacheStep DEF ProbeSet, keyHistories
<1>4. CASE ProbeFails
  <2>1. AccessTypeOK'
    BY <1>4 DEF ProbeFails, AccessTypeOK, keyHistories
  <2>2. CacheSound'
    BY <1>4 DEF ProbeFails, CacheSound, AccessTypeOK, keyHistories
  <2> QED
    BY <1>4, <2>1, <2>2, CacheStep DEF ProbeFails, keyHistories
<1> QED
  BY <1>1, <1>2, <1>3, <1>4
-----------------------------------------------------------------------------
(***************************************************************************)
(* The steps of requests that write no key.                                *)
(***************************************************************************)
\* A step that only moves a request, to a state that carries no other secret
\* than it or its key did, preserves what is said of keys.
LEMMA AskStep ==
    ASSUME AccessInv, AccessTypeOK', AsksSound', CacheSound', NEW r \in KeyRequests,
           UNCHANGED <<keys, minted, keyHistories>>,
           \A q \in KeyRequests : q # r => ask'[q] = ask[q],
           \/ ask'[r].seen.secret = 0
           \/ ask'[r].name \in KeyNames /\ ask'[r].seen = keys[ask'[r].name]
    PROVE  AccessInv'
<1> USE DEF AccessInv
<1>1. keys' = keys /\ minted' = minted /\ dead' = dead /\ barred' = barred /\ limited' = limited
      /\ torn' = torn
  BY DEF keyHistories
<1>2. SecretsMinted'
  BY <1>1, AccessTypes DEF SecretsMinted
<1>3. SecretsApart'
  <2>1. ASSUME NEW q \in KeyRequests, NEW m \in KeyNames,
               ask'[q].seen.secret # 0, ask'[q].seen.secret = keys[m].secret
        PROVE  ask'[q].name = m
    BY <2>1 DEF SecretsApart
  <2>2. ASSUME NEW q \in KeyRequests, NEW p \in KeyRequests,
               ask'[q].seen.secret # 0, ask'[q].seen.secret = ask'[p].seen.secret
        PROVE  ask'[q].name = ask'[p].name
    <3>1. CASE q # r /\ p # r
      BY <2>2, <3>1 DEF SecretsApart
    <3>2. CASE q = r /\ p # r
      BY <2>2, <3>2 DEF SecretsApart
    <3>3. CASE q # r /\ p = r
      BY <2>2, <3>3 DEF SecretsApart
    <3>4. CASE q = r /\ p = r
      BY <3>4
    <3> QED
      BY <3>1, <3>2, <3>3, <3>4
  <2> QED
    BY <1>1, <2>1, <2>2 DEF SecretsApart
<1>4. RowsSound' /\ RestrictionsHold'
  BY <1>1 DEF RowsSound, RestrictionsHold, Stored
<1> QED
  BY <1>2, <1>3, <1>4

\* A request that moves without having announced anything leaves the cache as
\* true as it was.
LEMMA CacheKept ==
    ASSUME CacheSound, NEW r \in KeyRequests, ask[r].step # "tell",
           UNCHANGED <<cache, probe>>, unheard => unheard',
           \A q \in KeyRequests : q # r => ask'[q] = ask[q],
           (Stored(keys) # {}) <=> (Stored(keys)' # {})
    PROVE  CacheSound'
<1>1. Told => Told'
  BY DEF Told
<1> QED
  BY <1>1 DEF CacheSound

\* A change that is announced, or is counted as unheard, excuses the cache.
LEMMA CacheExcused ==
    ASSUME CacheSound, UNCHANGED <<cache, probe>>, Told'
    PROVE  CacheSound'
  BY DEF CacheSound

\* A request that begins.
LEMMA BeginStep ==
    ASSUME AccessInv, NEW r \in KeyRequests, NEW op \in KeyOps,
           NEW by \in KeyNames \cup {Nobody, Shell}, NEW n \in KeyNames, NEW change \in Changes,
           NEW step \in {"look", "put"}, op \in {"update", "self"} => step = "look",
           Begin(r, op, by, n, change, step)
    PROVE  AccessInv'
<1> USE DEF AccessInv
<1> DEFINE new == [op |-> op, step |-> step, by |-> by, name |-> n, change |-> change, seen |-> NoKey]
<1>1. /\ ask' = [ask EXCEPT ![r] = new] /\ ask[r] = NoAsk
      /\ asks' = asks + 1 /\ asks < MaxAsks
      /\ UNCHANGED <<keys, cache, probe, minted, keyHistories>>
  BY DEF Begin
<1>2. NoKey \in KeyRow
  BY AccessAssumption DEF NoKey, KeyRow
<1>3. ask'[r] = new /\ \A q \in KeyRequests : q # r => ask'[q] = ask[q]
  BY <1>1 DEF AccessTypeOK
<1>4. AccessTypeOK'
  <2>1. new \in [op : KeyOps \cup {"none"}, step : {"look", "put", "tell"},
                 by : KeyNames \cup {Nobody, Shell}, name : KeyNames \cup {Nobody},
                 change : Changes, seen : KeyRow]
    BY <1>2
  <2> HIDE DEF new
  <2>2. asks' \in 0 .. MaxAsks
    BY <1>1, AccessAssumption DEF AccessTypeOK
  <2> QED
    BY <1>1, <2>1, <2>2 DEF AccessTypeOK, keyHistories
<1>5. AsksSound'
  BY <1>3 DEF AsksSound, KeyOps, RestOps
<1>6. CacheSound'
  <2>1. ask[r].step # "tell"
    BY <1>1 DEF NoAsk
  <2>2. UNCHANGED <<cache, probe, unheard, keys>>
    BY <1>1 DEF keyHistories
  <2> QED
    BY <1>3, <2>1, <2>2, CacheKept DEF Stored
<1>7. ask'[r].seen.secret = 0
  BY <1>3 DEF NoKey
<1> QED
  BY <1>1, <1>3, <1>4, <1>5, <1>6, <1>7, AskStep

\* The lookup before the write.
LEMMA LooksStep ==
    ASSUME AccessInv, NEW r \in KeyRequests, Looks(r)
    PROVE  AccessInv'
<1> USE DEF AccessInv
<1> DEFINE n == ask[r].name
           ends == \/ ask[r].op = "create" /\ keys[n] # NoKey
                   \/ ask[r].op \in {"update", "rotate", "self"} /\ keys[n] = NoKey
           new == IF ends THEN NoAsk ELSE [ask[r] EXCEPT !.step = "put", !.seen = keys[n]]
<1>1. /\ ask[r] # NoAsk /\ ask[r].step = "look"
      /\ ask' = [ask EXCEPT ![r] = new]
      /\ UNCHANGED <<keys, cache, probe, minted, asks, keyHistories>>
  BY DEF Looks, End
<1>2. n \in KeyNames /\ ask[r].op # "none"
  BY <1>1 DEF AsksSound
<1>3. keys[n] \in KeyRow
  BY <1>2, StoredFacts
<1>4. NoAsk \in [op : KeyOps \cup {"none"}, step : {"look", "put", "tell"},
                 by : KeyNames \cup {Nobody, Shell}, name : KeyNames \cup {Nobody},
                 change : Changes, seen : KeyRow]
  <2>1. NoKey \in KeyRow
    BY AccessAssumption DEF NoKey, KeyRow
  <2>2. Unchanged \in Changes
    BY DEF Changes
  <2> QED
    BY <2>1, <2>2 DEF NoAsk
<1>5. new \in [op : KeyOps \cup {"none"}, step : {"look", "put", "tell"},
               by : KeyNames \cup {Nobody, Shell}, name : KeyNames \cup {Nobody},
               change : Changes, seen : KeyRow]
  BY <1>3, <1>4 DEF AccessTypeOK
<1>6. \/ new = NoAsk
      \/ /\ new.seen = keys[n] /\ new.name = n /\ new.op = ask[r].op /\ new.op # "none" /\ ~ends
         /\ new.step = "put"
  BY <1>2 DEF AccessTypeOK
<1>7. ask'[r] = new /\ \A q \in KeyRequests : q # r => ask'[q] = ask[q]
  BY <1>1 DEF AccessTypeOK
<1>8. AccessTypeOK'
  <2> HIDE DEF new
  <2> QED
    BY <1>1, <1>5 DEF AccessTypeOK, keyHistories
<1>9. AsksSound'
  <2>1. CASE new = NoAsk
    BY <1>7, <2>1 DEF AsksSound, NoAsk
  <2>2. CASE new # NoAsk
    <3>1. new.op \in {"update", "self"} => keys[n].secret >= 1
      BY <1>2, <1>6, <2>2, StoredFacts DEF RowsSound
    <3> HIDE DEF new
    <3> QED
      BY <1>2, <1>6, <1>7, <2>2, <3>1 DEF AsksSound
  <2> QED
    BY <2>1, <2>2
<1>10. CacheSound'
  <2>1. UNCHANGED <<cache, probe, unheard, keys>>
    BY <1>1 DEF keyHistories
  <2> QED
    BY <1>1, <1>7, <2>1, CacheKept DEF Stored
<1>11. \/ ask'[r].seen.secret = 0
       \/ ask'[r].name \in KeyNames /\ ask'[r].seen = keys[ask'[r].name]
  <2> HIDE DEF new
  <2> QED
    BY <1>2, <1>6, <1>7 DEF NoAsk, NoKey
<1> QED
  BY <1>1, <1>7, <1>8, <1>9, <1>10, <1>11, AskStep

\* A request that ends.
LEMMA EndStep ==
    ASSUME AccessInv, NEW r \in KeyRequests, ask' = End(r), CacheSound',
           cache' \in [fresh : BOOLEAN, nonEmpty : BOOLEAN],
           UNCHANGED <<keys, probe, minted, asks, keyHistories>>
    PROVE  AccessInv'
<1> USE DEF AccessInv
<1>1. ask'[r] = NoAsk /\ \A q \in KeyRequests : q # r => ask'[q] = ask[q]
  BY DEF End, AccessTypeOK
<1>2. NoAsk \in [op : KeyOps \cup {"none"}, step : {"look", "put", "tell"},
                 by : KeyNames \cup {Nobody, Shell}, name : KeyNames \cup {Nobody},
                 change : Changes, seen : KeyRow]
  <2>1. NoKey \in KeyRow
    BY AccessAssumption DEF NoKey, KeyRow
  <2>2. Unchanged \in Changes
    BY DEF Changes
  <2> QED
    BY <2>1, <2>2 DEF NoAsk
<1>3. AccessTypeOK'
  BY <1>2 DEF AccessTypeOK, End, keyHistories
<1>4. AsksSound'
  BY <1>1 DEF AsksSound, NoAsk
<1>5. ask'[r].seen.secret = 0
  BY <1>1 DEF NoAsk, NoKey
<1> QED
  BY <1>1, <1>3, <1>4, <1>5, AskStep

\* The announcement, and a request that fails before its write.
LEMMA TellsStep ==
    ASSUME AccessInv, NEW r \in KeyRequests, Tells(r) \/ AskFails(r)
    PROVE  AccessInv'
<1> USE DEF AccessInv
<1>1. CASE Tells(r)
  <2>1. cache' = [cache EXCEPT !.fresh = FALSE] /\ probe' = "none"
    BY <1>1 DEF Tells, Forgotten
  <2>2. cache' \in [fresh : BOOLEAN, nonEmpty : BOOLEAN] /\ ~cache'.fresh
    BY <2>1 DEF AccessTypeOK
  <2>3. CacheSound'
    BY <2>1, <2>2 DEF CacheSound
  <2> QED
    BY <1>1, <2>2, <2>3, EndStep DEF Tells
<1>2. CASE AskFails(r)
  <2>1. \A q \in KeyRequests : q # r => ask'[q] = ask[q]
    BY <1>2 DEF AskFails, End, AccessTypeOK
  <2>2. CacheSound'
    BY <1>2, <2>1, CacheKept DEF AskFails, Stored, keyHistories
  <2> QED
    BY <1>2, <2>2, EndStep DEF AskFails, AccessTypeOK
<1> QED
  BY <1>1, <1>2
-----------------------------------------------------------------------------
(***************************************************************************)
(* The steps that write.                                                   *)
(***************************************************************************)
\* What a request writes leaves the secrets apart: a minted one is new, one
\* written back was read under the same name.
LEMMA PutsStep ==
    ASSUME AccessInv, NEW r \in KeyRequests, Puts(r)
    PROVE  AccessInv'
<1> USE DEF AccessInv
<1> DEFINE a == ask[r]
           n == a.name
           row == NewRow(a)
           new == IF Silent(a.op) THEN NoAsk ELSE [ask[r] EXCEPT !.step = "tell"]
<1>1. /\ a # NoAsk /\ a.step = "put" /\ a.op \notin {"delete", "cliRemove"}
      /\ Mints(a.op) => minted < MaxSecrets
      /\ minted' = IF Mints(a.op) THEN minted + 1 ELSE minted
      /\ keys' = [keys EXCEPT ![n] = row]
      /\ ask' = [ask EXCEPT ![r] = new]
      /\ torn' = (IF a.seen # keys[n] THEN torn \cup {n} ELSE torn)
      /\ dead' = (IF Mints(a.op) /\ keys[n] # NoKey THEN dead \cup {keys[n].secret} ELSE dead)
      /\ barred' = Turned(a, "disabled", barred)
      /\ limited' = Turned(a, "readOnly", limited)
      /\ unheard' = (unheard \/ (Silent(a.op) /\ keys[n] = NoKey))
      /\ UNCHANGED <<cache, probe, asks>>
  BY DEF Puts, End
<1>2. n \in KeyNames /\ a.op # "none"
  BY <1>1 DEF AsksSound
<1>3. a.seen \in KeyRow /\ keys[n] \in KeyRow /\ minted \in Nat
  BY <1>2, AccessTypes, StoredFacts
<1>4. /\ row \in KeyRow
      /\ row.secret = (IF Mints(a.op) THEN minted + 1 ELSE a.seen.secret)
      /\ row.disabled = (IF a.change.flag = "disabled" THEN a.change.to ELSE a.seen.disabled)
      /\ row.readOnly = (IF a.change.flag = "readOnly" THEN a.change.to ELSE a.seen.readOnly)
  BY <1>1, NewRowFacts
<1>5. row.secret >= 1
  <2>1. CASE Mints(a.op)
    BY <1>3, <1>4, <2>1
  <2>2. CASE ~Mints(a.op)
    <3>1. a.op \in {"update", "self"}
      BY <1>1, <1>2, <2>2, AccessTypes DEF Mints, KeyOps, RestOps
    <3> QED
      BY <1>1, <1>4, <2>2, <3>1 DEF AsksSound
  <2> QED
    BY <2>1, <2>2
<1> HIDE DEF row
<1>6. keys'[n] = row /\ \A m \in KeyNames : m # n => keys'[m] = keys[m]
  BY <1>1, <1>2 DEF AccessTypeOK
<1>7. ask'[r] = new /\ \A q \in KeyRequests : q # r => ask'[q] = ask[q]
  BY <1>1 DEF AccessTypeOK
<1>8. NoKey \in KeyRow /\ NoKey.secret = 0
  BY AccessAssumption DEF NoKey, KeyRow
<1>9. new \in [op : KeyOps \cup {"none"}, step : {"look", "put", "tell"},
               by : KeyNames \cup {Nobody, Shell}, name : KeyNames \cup {Nobody},
               change : Changes, seen : KeyRow]
  <2>1. Unchanged \in Changes
    BY DEF Changes
  <2>2. NoAsk \in [op : KeyOps \cup {"none"}, step : {"look", "put", "tell"},
                   by : KeyNames \cup {Nobody, Shell}, name : KeyNames \cup {Nobody},
                   change : Changes, seen : KeyRow]
    BY <1>8, <2>1 DEF NoAsk
  <2> QED
    BY <2>2 DEF AccessTypeOK
<1>10. /\ new = NoAsk \/ (new.seen = a.seen /\ new.name = n /\ new.op = a.op)
       /\ new.step # "put"
       /\ new.seen.secret # 0 => new.seen = a.seen /\ new.name = n
       /\ ~Silent(a.op) => new.step = "tell"
  BY <1>8 DEF AccessTypeOK, NoAsk
<1> HIDE DEF new
<1>11. AccessTypeOK'
  <2>1. minted' \in 0 .. MaxSecrets
    BY <1>1, <1>3, AccessAssumption DEF AccessTypeOK
  <2>2. keys' \in [KeyNames -> KeyRow]
    BY <1>1, <1>4 DEF AccessTypeOK
  <2>3. ask' \in [KeyRequests -> [op : KeyOps \cup {"none"}, step : {"look", "put", "tell"},
                 by : KeyNames \cup {Nobody, Shell}, name : KeyNames \cup {Nobody},
                 change : Changes, seen : KeyRow]]
    BY <1>1, <1>9 DEF AccessTypeOK
  <2>4. dead' \subseteq 1 .. MaxSecrets
    <3>1. CASE keys[n] # NoKey
      <4>1. keys[n].secret >= 1
        BY <1>2, <3>1, StoredFacts DEF RowsSound
      <4>2. keys[n].secret \in 0 .. MaxSecrets /\ MaxSecrets \in Nat
        BY <1>3, AccessAssumption DEF KeyRow
      <4>3. keys[n].secret \in 1 .. MaxSecrets
        BY <4>1, <4>2
      <4> QED
        BY <1>1, <4>3 DEF AccessTypeOK
    <3>2. CASE keys[n] = NoKey
      BY <1>1, <3>2 DEF AccessTypeOK
    <3> QED
      BY <3>1, <3>2
  <2>5. barred' \subseteq KeyNames /\ limited' \subseteq KeyNames /\ torn' \subseteq KeyNames
    BY <1>1, <1>2 DEF AccessTypeOK, Turned
  <2>6. unheard' \in BOOLEAN
    BY <1>1 DEF AccessTypeOK
  <2> QED
    BY <1>1, <2>1, <2>2, <2>3, <2>4, <2>5, <2>6 DEF AccessTypeOK
<1>12. AsksSound'
  BY <1>2, <1>7, <1>10 DEF AsksSound, NoAsk
<1>13. SecretsMinted'
  <2>1. minted <= minted' /\ minted' \in Nat /\ row.secret <= minted'
    BY <1>1, <1>3, <1>4 DEF SecretsMinted
  <2>2. \A m \in KeyNames : keys[m].secret \in Nat
    BY StoredFacts, AccessAssumption DEF KeyRow
  <2>3. \A q \in KeyRequests : ask[q].seen.secret \in Nat
    BY AccessTypes, AccessAssumption DEF KeyRow
  <2>4. \A m \in KeyNames : keys'[m].secret <= minted'
    BY <1>3, <1>6, <2>1, <2>2 DEF SecretsMinted
  <2>5. \A q \in KeyRequests : ask'[q].seen.secret <= minted'
    BY <1>3, <1>7, <1>10, <2>1, <2>3 DEF SecretsMinted
  <2>6. dead' \subseteq 1 .. minted'
    <3>1. CASE keys[n] # NoKey
      <4>1. keys[n].secret >= 1
        BY <1>2, <3>1, StoredFacts DEF RowsSound
      <4> QED
        BY <1>1, <1>2, <1>3, <2>1, <2>2, <4>1 DEF SecretsMinted
    <3>2. CASE keys[n] = NoKey
      BY <1>1, <1>3, <2>1, <3>2 DEF SecretsMinted
    <3> QED
      BY <3>1, <3>2
  <2> QED
    BY <2>4, <2>5, <2>6 DEF SecretsMinted
\* No other name carries the secret that is written.
<1>14. /\ \A m \in KeyNames : row.secret = keys[m].secret => m = n
       /\ \A q \in KeyRequests : row.secret = ask[q].seen.secret => ask[q].name = n
  <2>1. CASE Mints(a.op)
    <3>1. \A m \in KeyNames : keys[m].secret \in Nat
      BY StoredFacts, AccessAssumption DEF KeyRow
    <3>2. \A q \in KeyRequests : ask[q].seen.secret \in Nat
      BY AccessTypes, AccessAssumption DEF KeyRow
    <3> QED
      BY <1>3, <1>4, <2>1, <3>1, <3>2 DEF SecretsMinted
  <2>2. CASE ~Mints(a.op)
    BY <1>4, <1>5, <2>2 DEF SecretsApart
  <2> QED
    BY <2>1, <2>2
<1>15. SecretsApart'
  <2>1. ASSUME NEW m \in KeyNames, NEW p \in KeyNames,
               keys'[m].secret # 0, keys'[m].secret = keys'[p].secret
        PROVE  m = p
    BY <1>6, <1>14, <2>1 DEF SecretsApart
  <2>2. ASSUME NEW q \in KeyRequests, NEW m \in KeyNames,
               ask'[q].seen.secret # 0, ask'[q].seen.secret = keys'[m].secret
        PROVE  ask'[q].name = m
    <3>1. ask[q].seen.secret # 0 /\ ask'[q].seen = ask[q].seen /\ ask'[q].name = ask[q].name
      BY <1>7, <1>10, <2>2
    <3> QED
      BY <1>6, <1>14, <2>2, <3>1 DEF SecretsApart
  <2>3. ASSUME NEW q \in KeyRequests, NEW p \in KeyRequests,
               ask'[q].seen.secret # 0, ask'[q].seen.secret = ask'[p].seen.secret
        PROVE  ask'[q].name = ask'[p].name
    <3>1. /\ ask[q].seen.secret # 0 /\ ask'[q].seen = ask[q].seen /\ ask'[q].name = ask[q].name
          /\ ask'[p].seen = ask[p].seen /\ ask'[p].name = ask[p].name
      BY <1>7, <1>10, <2>3
    <3> QED
      BY <2>3, <3>1 DEF SecretsApart
  <2> QED
    BY <2>1, <2>2, <2>3 DEF SecretsApart
<1>16. Stored(keys)' = Stored(keys) \cup {n}
  BY <1>2, <1>5, <1>6, <1>8 DEF Stored
<1>17. RowsSound'
  <2>1. \A m \in Stored(keys)' : keys'[m].secret >= 1
    BY <1>5, <1>6, <1>16 DEF RowsSound, Stored
  <2>2. barred' \subseteq Stored(keys)' /\ limited' \subseteq Stored(keys)'
    BY <1>1, <1>16 DEF RowsSound, Turned
  <2> QED
    BY <2>1, <2>2 DEF RowsSound
<1>18. RestrictionsHold'
  <2> SUFFICES ASSUME NEW m \in Stored(keys)', m \notin torn'
               PROVE  /\ keys'[m].secret \notin dead'
                      /\ m \in barred' => keys'[m].disabled
                      /\ m \in limited' => keys'[m].readOnly
    BY DEF RestrictionsHold
  <2>1. CASE m # n
    <3>1. m \in Stored(keys) \ torn /\ keys'[m] = keys[m] /\ m \in KeyNames
      BY <1>1, <1>6, <1>16, <2>1 DEF Stored
    <3>2. keys[m].secret # keys[n].secret
      BY <1>2, <2>1, <3>1 DEF SecretsApart, RowsSound
    <3>3. keys[m].secret \notin dead'
      BY <1>1, <3>1, <3>2 DEF RestrictionsHold
    <3>4. (m \in barred' => m \in barred) /\ (m \in limited' => m \in limited)
      BY <1>1, <2>1 DEF Turned
    <3> QED
      BY <3>1, <3>3, <3>4 DEF RestrictionsHold
  <2>2. CASE m = n
    <3>1. a.seen = keys[n] /\ n \notin torn /\ keys'[m] = row
      BY <1>1, <1>6, <2>2
    <3>2. row.secret \notin dead'
      <4>1. CASE Mints(a.op)
        <5>1. keys[n].secret # minted + 1
          BY <1>2, <1>3, StoredFacts, AccessAssumption DEF SecretsMinted, KeyRow
        <5> QED
          BY <1>1, <1>3, <1>4, <4>1, <5>1 DEF SecretsMinted
      <4>2. CASE ~Mints(a.op)
        <5>1. row.secret = keys[n].secret /\ n \in Stored(keys)
          BY <1>2, <1>4, <1>5, <3>1, <4>2, StoredFacts
        <5> QED
          BY <1>1, <3>1, <4>2, <5>1 DEF RestrictionsHold
      <4> QED
        BY <4>1, <4>2
    <3>3. m \in barred' => row.disabled
      <4>1. CASE a.change.flag = "disabled"
        BY <1>1, <1>4, <2>2, <4>1 DEF Turned
      <4>2. CASE a.change.flag # "disabled"
        <5>1. barred' = barred /\ row.disabled = keys[n].disabled
          BY <1>1, <1>4, <3>1, <4>2 DEF Turned
        <5> QED
          BY <2>2, <3>1, <5>1 DEF RestrictionsHold, RowsSound
      <4> QED
        BY <4>1, <4>2
    <3>4. m \in limited' => row.readOnly
      <4>1. CASE a.change.flag = "readOnly"
        BY <1>1, <1>4, <2>2, <4>1 DEF Turned
      <4>2. CASE a.change.flag # "readOnly"
        <5>1. limited' = limited /\ row.readOnly = keys[n].readOnly
          BY <1>1, <1>4, <3>1, <4>2 DEF Turned
        <5> QED
          BY <2>2, <3>1, <5>1 DEF RestrictionsHold, RowsSound
      <4> QED
        BY <4>1, <4>2
    <3> QED
      BY <3>1, <3>2, <3>3, <3>4
  <2> QED
    BY <2>1, <2>2
<1>19. CacheSound'
  <2>1. CASE ~Silent(a.op) \/ keys[n] = NoKey
    <3>1. Told'
      BY <1>1, <1>7, <1>10, <2>1 DEF Told
    <3> QED
      BY <1>1, <3>1, CacheExcused
  <2>2. CASE keys[n] # NoKey
    <3>1. Stored(keys)' = Stored(keys) /\ Stored(keys) # {}
      BY <1>2, <1>16, <2>2 DEF Stored
    <3>2. a.step # "tell" /\ (unheard => unheard')
      BY <1>1
    <3> QED
      BY <1>1, <1>7, <3>1, <3>2, CacheKept
  <2> QED
    BY <2>1, <2>2
<1> QED
  BY <1>11, <1>12, <1>13, <1>15, <1>17, <1>18, <1>19
\* A delete retires the secret of the row it removes, which no other row has.
LEMMA DeletesStep ==
    ASSUME AccessInv, NEW r \in KeyRequests, Deletes(r)
    PROVE  AccessInv'
<1> USE DEF AccessInv
<1> DEFINE a == ask[r]
           n == a.name
           new == IF Silent(a.op) \/ keys[n] = NoKey THEN NoAsk ELSE [ask[r] EXCEPT !.step = "tell"]
<1>1. /\ a # NoAsk /\ a.step = "put"
      /\ keys' = [keys EXCEPT ![n] = NoKey]
      /\ ask' = [ask EXCEPT ![r] = new]
      /\ dead' = (IF keys[n] # NoKey THEN dead \cup {keys[n].secret} ELSE dead)
      /\ barred' = barred \ {n} /\ limited' = limited \ {n}
      /\ unheard' = (unheard \/ Silent(a.op))
      /\ UNCHANGED <<cache, probe, minted, asks, torn>>
  BY DEF Deletes, End
<1>2. n \in KeyNames /\ a.op # "none"
  BY <1>1 DEF AsksSound
<1>3. a.seen \in KeyRow /\ keys[n] \in KeyRow /\ minted \in Nat
  BY <1>2, AccessTypes, StoredFacts
<1>4. keys'[n] = NoKey /\ \A m \in KeyNames : m # n => keys'[m] = keys[m]
  BY <1>1, <1>2 DEF AccessTypeOK
<1>5. ask'[r] = new /\ \A q \in KeyRequests : q # r => ask'[q] = ask[q]
  BY <1>1 DEF AccessTypeOK
<1>6. NoKey \in KeyRow /\ NoKey.secret = 0
  BY AccessAssumption DEF NoKey, KeyRow
<1>7. new \in [op : KeyOps \cup {"none"}, step : {"look", "put", "tell"},
               by : KeyNames \cup {Nobody, Shell}, name : KeyNames \cup {Nobody},
               change : Changes, seen : KeyRow]
  <2>1. Unchanged \in Changes
    BY DEF Changes
  <2>2. NoAsk \in [op : KeyOps \cup {"none"}, step : {"look", "put", "tell"},
                   by : KeyNames \cup {Nobody, Shell}, name : KeyNames \cup {Nobody},
                   change : Changes, seen : KeyRow]
    BY <1>6, <2>1 DEF NoAsk
  <2> QED
    BY <2>2 DEF AccessTypeOK
<1>8. /\ new = NoAsk \/ (new.seen = a.seen /\ new.name = n /\ new.op = a.op)
      /\ new.step # "put"
      /\ new.seen.secret # 0 => new.seen = a.seen /\ new.name = n
      /\ ~Silent(a.op) /\ keys[n] # NoKey => new.step = "tell"
  BY <1>6 DEF AccessTypeOK, NoAsk
<1> HIDE DEF new
<1>9. dead' \subseteq dead \cup {keys[n].secret} /\ (keys[n] = NoKey => dead' = dead)
  BY <1>1
<1>10. keys[n] # NoKey => keys[n].secret >= 1
  BY <1>2, StoredFacts DEF RowsSound
<1>11. AccessTypeOK'
  <2>1. keys' \in [KeyNames -> KeyRow]
    BY <1>1, <1>6 DEF AccessTypeOK
  <2>2. ask' \in [KeyRequests -> [op : KeyOps \cup {"none"}, step : {"look", "put", "tell"},
                 by : KeyNames \cup {Nobody, Shell}, name : KeyNames \cup {Nobody},
                 change : Changes, seen : KeyRow]]
    BY <1>1, <1>7 DEF AccessTypeOK
  <2>3. dead' \subseteq 1 .. MaxSecrets
    <3>1. keys[n].secret \in 0 .. MaxSecrets /\ MaxSecrets \in Nat
      BY <1>3, AccessAssumption DEF KeyRow
    <3>2. keys[n] # NoKey => keys[n].secret \in 1 .. MaxSecrets
      BY <1>10, <3>1
    <3> QED
      BY <1>1, <3>2 DEF AccessTypeOK
  <2>4. unheard' \in BOOLEAN
    BY <1>1 DEF AccessTypeOK, Silent
  <2> QED
    BY <1>1, <2>1, <2>2, <2>3, <2>4 DEF AccessTypeOK
<1>12. AsksSound'
  BY <1>2, <1>5, <1>8 DEF AsksSound, NoAsk
<1>13. SecretsMinted'
  <2>1. \A m \in KeyNames : keys'[m].secret <= minted
    BY <1>3, <1>4, <1>6 DEF SecretsMinted
  <2>2. \A q \in KeyRequests : ask'[q].seen.secret <= minted
    <3>1. \A q \in KeyRequests : ask[q].seen.secret <= minted
      BY DEF SecretsMinted
    <3>2. new.seen.secret = 0 \/ new.seen = ask[r].seen
      BY <1>8
    <3> QED
      BY <1>3, <1>5, <3>1, <3>2
  <2>3. dead' \subseteq 1 .. minted
    <3>1. keys[n].secret \in Nat /\ keys[n].secret <= minted
      BY <1>2, <1>3, AccessAssumption DEF SecretsMinted, KeyRow
    <3>2. keys[n] # NoKey => keys[n].secret \in 1 .. minted
      BY <1>3, <1>10, <3>1
    <3> QED
      BY <1>1, <3>2 DEF SecretsMinted
  <2> QED
    BY <1>1, <2>1, <2>2, <2>3 DEF SecretsMinted
<1>14. SecretsApart'
  <2>1. ASSUME NEW m \in KeyNames, NEW p \in KeyNames,
               keys'[m].secret # 0, keys'[m].secret = keys'[p].secret
        PROVE  m = p
    BY <1>4, <1>6, <2>1 DEF SecretsApart
  <2>2. ASSUME NEW q \in KeyRequests, NEW m \in KeyNames,
               ask'[q].seen.secret # 0, ask'[q].seen.secret = keys'[m].secret
        PROVE  ask'[q].name = m
    <3>1. ask[q].seen.secret # 0 /\ ask'[q].seen = ask[q].seen /\ ask'[q].name = ask[q].name
      BY <1>5, <1>8, <2>2
    <3> QED
      BY <1>4, <1>6, <2>2, <3>1 DEF SecretsApart
  <2>3. ASSUME NEW q \in KeyRequests, NEW p \in KeyRequests,
               ask'[q].seen.secret # 0, ask'[q].seen.secret = ask'[p].seen.secret
        PROVE  ask'[q].name = ask'[p].name
    <3>1. /\ ask[q].seen.secret # 0 /\ ask'[q].seen = ask[q].seen /\ ask'[q].name = ask[q].name
          /\ ask'[p].seen = ask[p].seen /\ ask'[p].name = ask[p].name
      BY <1>5, <1>8, <2>3
    <3> QED
      BY <2>3, <3>1 DEF SecretsApart
  <2> QED
    BY <2>1, <2>2, <2>3 DEF SecretsApart
<1>15. Stored(keys)' = Stored(keys) \ {n}
  BY <1>2, <1>4 DEF Stored
<1>16. RowsSound'
  BY <1>1, <1>4, <1>15 DEF RowsSound, Stored
<1>17. RestrictionsHold'
  <2> SUFFICES ASSUME NEW m \in Stored(keys)', m \notin torn'
               PROVE  /\ keys'[m].secret \notin dead'
                      /\ m \in barred' => keys'[m].disabled
                      /\ m \in limited' => keys'[m].readOnly
    BY DEF RestrictionsHold
  <2>1. m \in Stored(keys) \ torn /\ m # n /\ keys'[m] = keys[m] /\ m \in KeyNames
    BY <1>1, <1>4, <1>15 DEF Stored
  <2>2. keys[m].secret # keys[n].secret
    BY <1>2, <2>1 DEF SecretsApart, RowsSound
  <2>3. keys[m].secret \notin dead'
    BY <1>9, <2>1, <2>2 DEF RestrictionsHold
  <2> QED
    BY <1>1, <2>1, <2>3 DEF RestrictionsHold
<1>18. CacheSound'
  <2>1. CASE Silent(a.op) \/ keys[n] # NoKey
    <3>1. Told'
      BY <1>1, <1>5, <1>8, <2>1 DEF Told
    <3> QED
      BY <1>1, <3>1, CacheExcused
  <2>2. CASE keys[n] = NoKey
    <3>1. Stored(keys)' = Stored(keys)
      BY <1>2, <1>15, <2>2 DEF Stored
    <3>2. a.step # "tell" /\ (unheard => unheard')
      BY <1>1
    <3> QED
      BY <1>1, <1>5, <3>1, <3>2, CacheKept
  <2> QED
    BY <2>1, <2>2
<1> QED
  BY <1>11, <1>12, <1>13, <1>14, <1>16, <1>17, <1>18

\* Every request step preserves the invariant.
LEMMA KeySteps ==
    ASSUME AccessInv, NEW r \in KeyRequests, KeyChanges(r)
    PROVE  AccessInv'
<1>1. ASSUME NEW n \in KeyNames, NEW change \in Changes, NEW op \in RestOps,
             NEW by \in KeyNames \cup {Nobody}, KeyRequest(r, op, by, n, change)
      PROVE  AccessInv'
  <2>1. op \in KeyOps /\ Begin(r, op, by, n, change, "look")
    BY <1>1 DEF KeyRequest, KeyOps
  <2> QED
    BY <2>1, BeginStep
<1>2. ASSUME NEW n \in KeyNames, NEW change \in Changes, KeyAdd(r, n, change)
      PROVE  AccessInv'
  <2>1. "cliAdd" \in KeyOps /\ Begin(r, "cliAdd", Shell, n, change, "look")
    BY <1>2 DEF KeyAdd, KeyOps
  <2> QED
    BY <2>1, BeginStep
<1>3. Unchanged \in Changes
  BY DEF Changes
<1>4. ASSUME NEW n \in KeyNames, SelfSettings(r, n)
      PROVE  AccessInv'
  <2>1. "self" \in KeyOps /\ Begin(r, "self", n, n, Unchanged, "look")
    BY <1>4 DEF SelfSettings, KeyOps
  <2> QED
    BY <1>3, <2>1, BeginStep
<1>5. ASSUME NEW n \in KeyNames, KeyRemove(r, n)
      PROVE  AccessInv'
  <2>1. "cliRemove" \in KeyOps /\ Begin(r, "cliRemove", Shell, n, Unchanged, "put")
    BY <1>5 DEF KeyRemove, KeyOps
  <2> QED
    BY <1>3, <2>1, BeginStep
<1> QED
  BY <1>1, <1>2, <1>4, <1>5, LooksStep, PutsStep, DeletesStep, TellsStep DEF KeyChanges

-----------------------------------------------------------------------------
(***************************************************************************)
(* Theorems.                                                               *)
(***************************************************************************)
\* The strengthened invariant is inductive.
LEMMA AccessInductive == AccessInv /\ [AccessNext]_accessVars => AccessInv'
<1>1. ASSUME AccessInv, AccessNext
      PROVE  AccessInv'
  BY <1>1, CacheSteps, KeySteps DEF AccessNext
<1>2. ASSUME AccessInv, UNCHANGED accessVars
      PROVE  AccessInv'
  <2>1. AccessTypeOK'
    BY <1>2 DEF AccessInv, AccessTypeOK, accessVars
  <2>2. CacheSound'
    BY <1>2 DEF AccessInv, CacheSound, Told, Stored, accessVars
  <2> QED
    BY <1>2, <2>1, <2>2, CacheStep DEF accessVars
<1> QED
  BY <1>1, <1>2

\* The strengthened invariant holds of every reachable state.
LEMMA AccessInvariant == AccessSpec => []AccessInv
  BY AccessInitially, AccessInductive, PTL DEF AccessSpec

\* The table, the cache and the requests stay within their types.
THEOREM AccessAlwaysTyped == AccessSpec => []AccessTypeOK
<1>1. AccessInv => AccessTypeOK
  BY DEF AccessInv
<1> QED
  BY <1>1, AccessInvariant, PTL

\* However many keys, requests and processes there are, a secret rotated or
\* deleted away never authenticates again, and a disabled or read-only key stays
\* so until a request lifts it, unless two requests on that key overlapped
\* (RotateApiKey, UpdateApiKey, DeleteApiKey, PutSelfSettings, runKeyAdd).
THEOREM RestrictionsAlwaysHold == AccessSpec => []RestrictionsHold
<1>1. AccessInv => RestrictionsHold
  BY DEF AccessInv
<1> QED
  BY <1>1, AccessInvariant, PTL

\* What the cache says of the table is true whenever every change has been
\* announced, however listings, announcements and expiries interleave
\* (tableNonEmpty, Invalidate).
THEOREM CacheAlwaysTrue == AccessSpec => []CacheTrue
<1>1. AccessInv => CacheTrue
  BY DEF AccessInv, CacheSound, CacheTrue, Told
<1> QED
  BY <1>1, AccessInvariant, PTL
==============================================================================
