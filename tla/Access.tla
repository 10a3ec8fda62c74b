------------------------------- MODULE Access -------------------------------
(***************************************************************************)
(* API keys: who may call, and how the keys themselves are changed.        *)
(*                                                                         *)
(* A request authenticates with the admin key of the environment, with a   *)
(* key of the api_keys table, or with nothing while nothing requires it.   *)
(* Whether the table holds any key is read through a cache that a change   *)
(* by the same process invalidates and that otherwise lives for its TTL.   *)
(* Keys are changed by a lookup and a later write of the whole row, by     *)
(* several requests at once and by the command line in another process.    *)
(*                                                                         *)
(* Code: internal/apiauth/apiauth.go, internal/api/rest/apikeys.go,        *)
(* selfsettings.go, readonly.go, cmd/memini/key.go and the api_keys        *)
(* statements of internal/store/sqlitevec/store.go.  Secrets are numbered  *)
(* as they are minted.  A request sets one flag at most; namespaces and    *)
(* settings of a key do not matter here.                                   *)
(***************************************************************************)
EXTENDS Integers

CONSTANTS
    KeyNames,    \* names of keys
    FileNames,   \* those declared in MEMINI_API_KEYS_FILE
    Nobody,      \* the caller without a principal: the admin key, or open access
    Shell,       \* the operator on the command line
    EnvAdmin,    \* MEMINI_API_KEY is set
    KeyRequests, \* key requests in flight
    MaxSecrets,  \* bound: secrets minted
    MaxAsks      \* bound: key requests

ASSUME AccessAssumption ==
    /\ Nobody \notin KeyNames /\ Shell \notin KeyNames /\ Nobody # Shell
    /\ FileNames \subseteq KeyNames
    /\ EnvAdmin \in BOOLEAN
    /\ MaxSecrets \in Nat /\ MaxAsks \in Nat

VARIABLES
    keys,     \* the api_keys table
    cache,    \* tableCache: whether it is within its TTL, and its answer
    probe,    \* a listing for the cache under way, which holds its mutex
    ask,      \* key requests in flight
    minted,   \* secrets minted
    asks,     \* key requests made
    dead,     \* history: secrets rotated or deleted away
    barred,   \* history: keys disabled, and not enabled since
    limited,  \* history: keys made read-only, and not writable since
    torn,     \* history: keys a request wrote after another had changed them
    unheard   \* history: the table changed unannounced since the cache listed it

accessVars == <<keys, cache, probe, ask, minted, asks, dead, barred, limited, torn, unheard>>
keyHistories == <<dead, barred, limited, torn, unheard>>

NoKey == [secret |-> 0, disabled |-> FALSE, admin |-> FALSE, readOnly |-> FALSE]
KeyRow == [secret : 0 .. MaxSecrets, disabled : BOOLEAN, admin : BOOLEAN, readOnly : BOOLEAN]

Flags == {"disabled", "admin", "readOnly"}
Unchanged == [flag |-> "none", to |-> FALSE]
Changes == [flag : Flags, to : BOOLEAN] \cup {Unchanged}

RestOps == {"create", "update", "rotate", "delete"}
KeyOps == RestOps \cup {"self", "cliAdd", "cliRemove"}
NoAsk == [op |-> "none", step |-> "look", by |-> Nobody, name |-> Nobody,
          change |-> Unchanged, seen |-> NoKey]

AccessTypeOK ==
    /\ keys \in [KeyNames -> KeyRow]
    /\ cache \in [fresh : BOOLEAN, nonEmpty : BOOLEAN]
    /\ probe \in {"none", "empty", "some"}
    /\ ask \in [KeyRequests -> [op : KeyOps \cup {"none"}, step : {"look", "put", "tell"},
                 by : KeyNames \cup {Nobody, Shell}, name : KeyNames \cup {Nobody},
                 change : Changes, seen : KeyRow]]
    /\ minted \in 0 .. MaxSecrets /\ asks \in 0 .. MaxAsks
    /\ dead \subseteq 1 .. MaxSecrets
    /\ barred \subseteq KeyNames /\ limited \subseteq KeyNames /\ torn \subseteq KeyNames
    /\ unheard \in BOOLEAN

AccessInit ==
    /\ keys = [n \in KeyNames |-> NoKey]
    /\ cache = [fresh |-> FALSE, nonEmpty |-> FALSE]
    /\ probe = "none"
    /\ ask = [r \in KeyRequests |-> NoAsk]
    /\ minted = 0 /\ asks = 0
    /\ dead = {} /\ barred = {} /\ limited = {} /\ torn = {} /\ unheard = FALSE

Stored(t) == {n \in KeyNames : t[n] # NoKey}

-----------------------------------------------------------------------------
(***************************************************************************)
(* Authentication.                                                         *)
(***************************************************************************)

\* A table key authenticates by the hash of its secret, read live.
Live(n) == keys[n] # NoKey /\ ~keys[n].disabled

\* A request without a token passes only when nothing requires one: no admin
\* key, no file keys, and a table the cache knows to be empty.
OpenAccess ==
    ~EnvAdmin /\ FileNames = {} /\ probe = "none" /\ cache.fresh /\ ~cache.nonEmpty

\* requireAdmin behind readOnlyMiddleware.
MayManage(by) ==
    \/ by = Nobody /\ (EnvAdmin \/ OpenAccess)
    \/ by \in KeyNames /\ Live(by) /\ keys[by].admin /\ ~keys[by].readOnly

CacheExpires ==
    /\ cache.fresh /\ probe = "none"
    /\ cache' = [cache EXCEPT !.fresh = FALSE]
    /\ UNCHANGED <<keys, probe, ask, minted, asks, keyHistories>>

\* tableNonEmpty lists the keys with the mutex held.
ProbeList ==
    /\ ~EnvAdmin /\ FileNames = {}
    /\ probe = "none" /\ ~cache.fresh
    /\ probe' = IF Stored(keys) = {} THEN "empty" ELSE "some"
    /\ unheard' = FALSE
    /\ UNCHANGED <<keys, cache, ask, minted, asks, dead, barred, limited, torn>>

ProbeSet ==
    /\ probe # "none"
    /\ probe' = "none"
    /\ cache' = [fresh |-> TRUE, nonEmpty |-> probe = "some"]
    /\ UNCHANGED <<keys, ask, minted, asks, keyHistories>>

\* A store error fails closed and is not cached.
ProbeFails ==
    /\ probe # "none"
    /\ probe' = "none"
    /\ cache' = [cache EXCEPT !.nonEmpty = TRUE]
    /\ UNCHANGED <<keys, ask, minted, asks, keyHistories>>

-----------------------------------------------------------------------------
(***************************************************************************)
(* Changing keys.                                                          *)
(***************************************************************************)
Begin(r, op, by, n, change, step) ==
    /\ ask[r] = NoAsk /\ asks < MaxAsks
    /\ asks' = asks + 1
    /\ ask' = [ask EXCEPT ![r] = [op |-> op, step |-> step, by |-> by, name |-> n,
                                  change |-> change, seen |-> NoKey]]
    /\ UNCHANGED <<keys, cache, probe, minted, keyHistories>>

\* The handlers of /v1/keys; a key declared in the file is not theirs to change,
\* and a named key may not delete, disable, demote or restrict itself.
Harmful(change) ==
    \/ change.flag = "disabled" /\ change.to
    \/ change.flag = "admin" /\ ~change.to
    \/ change.flag = "readOnly" /\ change.to

SelfGuard(op, by, n, change) == by = n => op # "delete" /\ (op = "update" => ~Harmful(change))

KeyRequest(r, op, by, n, change) ==
    /\ op \in RestOps
    /\ change # Unchanged => op \in {"create", "update"}
    /\ MayManage(by)
    /\ n \notin FileNames
    /\ SelfGuard(op, by, n, change)
    /\ Begin(r, op, by, n, change, "look")

\* PutSelfSettings: a key that may write saves its own settings.
SelfSettings(r, n) ==
    /\ Live(n) /\ ~keys[n].readOnly
    /\ n \notin FileNames
    /\ Begin(r, "self", n, n, Unchanged, "look")

\* `memini key add' and `memini key rm', in a process of their own.
KeyAdd(r, n, change) == Begin(r, "cliAdd", Shell, n, change, "look")
KeyRemove(r, n) == Begin(r, "cliRemove", Shell, n, Unchanged, "put")

End(r) == [ask EXCEPT ![r] = NoAsk]

\* findAPIKeyByName: a name taken or missing ends the request.
Looks(r) ==
    LET a == ask[r]
        ends == \/ a.op = "create" /\ keys[a.name] # NoKey
                \/ a.op \in {"update", "rotate", "self"} /\ keys[a.name] = NoKey
    IN /\ a # NoAsk /\ a.step = "look"
       /\ ask' = IF ends THEN End(r)
                 ELSE [ask EXCEPT ![r].step = "put", ![r].seen = keys[a.name]]
       /\ UNCHANGED <<keys, cache, probe, minted, asks, keyHistories>>

Set(row, change) ==
    CASE change.flag = "disabled" -> [row EXCEPT !.disabled = change.to]
      [] change.flag = "admin"    -> [row EXCEPT !.admin = change.to]
      [] change.flag = "readOnly" -> [row EXCEPT !.readOnly = change.to]
      [] OTHER -> row

\* Mutation of Renewed: the row of a new secret is built from scratch.
RenewedBlank(seen, secret) == [NoKey EXCEPT !.secret = secret]

\* A new secret on the row that was read: RotateApiKey, addAPIKey.
Renewed(seen, secret) == [seen EXCEPT !.secret = secret]

Mints(op) == op \in {"create", "rotate", "cliAdd"}

\* What PutAPIKey stores for the request.
NewRow(a) == Set(IF Mints(a.op) THEN Renewed(a.seen, minted + 1) ELSE a.seen, a.change)

Turned(a, flag, members) ==
    IF a.change.flag # flag THEN members
    ELSE IF a.change.to THEN members \cup {a.name} ELSE members \ {a.name}

\* Requests of another process, and saved settings, do not invalidate.
Silent(op) == op \notin RestOps

\* The write: the whole row as it was read, with the change.
Puts(r) ==
    LET a == ask[r]  n == a.name IN
    /\ a # NoAsk /\ a.step = "put" /\ a.op \notin {"delete", "cliRemove"}
    /\ Mints(a.op) => minted < MaxSecrets
    /\ minted' = IF Mints(a.op) THEN minted + 1 ELSE minted
    /\ keys' = [keys EXCEPT ![n] = NewRow(a)]
    /\ ask' = IF Silent(a.op) THEN End(r) ELSE [ask EXCEPT ![r].step = "tell"]
    /\ torn' = IF a.seen # keys[n] THEN torn \cup {n} ELSE torn
    /\ dead' = IF Mints(a.op) /\ keys[n] # NoKey THEN dead \cup {keys[n].secret} ELSE dead
    /\ barred' = Turned(a, "disabled", barred)
    /\ limited' = Turned(a, "readOnly", limited)
    /\ unheard' = (unheard \/ (Silent(a.op) /\ keys[n] = NoKey))
    /\ UNCHANGED <<cache, probe, asks>>

\* DeleteAPIKey; a missing row ends the request without an announcement.
Deletes(r) ==
    LET a == ask[r]  n == a.name IN
    /\ a # NoAsk /\ a.step = "put" /\ a.op \in {"delete", "cliRemove"}
    /\ keys' = [keys EXCEPT ![n] = NoKey]
    /\ ask' = IF Silent(a.op) \/ keys[n] = NoKey THEN End(r) ELSE [ask EXCEPT ![r].step = "tell"]
    /\ dead' = IF keys[n] # NoKey THEN dead \cup {keys[n].secret} ELSE dead
    /\ barred' = barred \ {n} /\ limited' = limited \ {n}
    /\ unheard' = (unheard \/ Silent(a.op))
    /\ UNCHANGED <<cache, probe, minted, asks, torn>>

\* Mutation of Forgotten: the cached answer is kept.
Kept == cache

Forgotten == [cache EXCEPT !.fresh = FALSE]

\* Invalidate waits for the mutex.
Tells(r) ==
    /\ ask[r].step = "tell"
    /\ probe = "none"
    /\ cache' = Forgotten
    /\ ask' = End(r)
    /\ UNCHANGED <<keys, probe, minted, asks, keyHistories>>

\* A store error before the write.
AskFails(r) ==
    /\ ask[r] # NoAsk /\ ask[r].step # "tell"
    /\ ask' = End(r)
    /\ UNCHANGED <<keys, cache, probe, minted, asks, keyHistories>>

KeyChanges(r) ==
    \/ \E n \in KeyNames, change \in Changes :
         \/ \E op \in RestOps, by \in KeyNames \cup {Nobody} : KeyRequest(r, op, by, n, change)
         \/ KeyAdd(r, n, change)
    \/ \E n \in KeyNames : SelfSettings(r, n) \/ KeyRemove(r, n)
    \/ Looks(r) \/ Puts(r) \/ Deletes(r) \/ Tells(r) \/ AskFails(r)

AccessNext ==
    \/ CacheExpires \/ ProbeList \/ ProbeSet \/ ProbeFails
    \/ \E r \in KeyRequests : KeyChanges(r)

AccessSpec == AccessInit /\ [][AccessNext]_accessVars

-----------------------------------------------------------------------------
(***************************************************************************)
(* Properties.                                                             *)
(***************************************************************************)

\* A restriction holds until it is lifted: a rotated or deleted secret never
\* authenticates again, a disabled key stays disabled and a read-only one
\* read-only through rotations, edits of other flags, saved settings and the
\* command line, unless two requests on the key overlapped (UpdateApiKey: "two
\* concurrent PATCHes to the same key could race").
RestrictionsHold ==
    \A n \in Stored(keys) \ torn :
        /\ keys[n].secret \notin dead
        /\ n \in barred => keys[n].disabled
        /\ n \in limited => keys[n].readOnly

\* What the cache says of the table within its TTL is true, except while a
\* request that changed the table has not answered yet and after a change by
\* another process or by saved settings that put a deleted key back
\* (Invalidate: "create key -> auth enforced NOW").
CacheTrue ==
    cache.fresh =>
        \/ cache.nonEmpty <=> Stored(keys) # {}
        \/ unheard
        \/ \E r \in KeyRequests : ask[r].step = "tell"
=============================================================================
