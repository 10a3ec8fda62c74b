-------------------------------- MODULE Chunks --------------------------------
(***************************************************************************)
(* The chunk index: vectors for the parts of a long memory.                *)
(*                                                                         *)
(* A write never computes chunks; it drops those of a text it changes.  A  *)
(* ticker walks the long rows that have none, in the order of their ids,   *)
(* page by page, embeds the parts of each and stores them if the row has   *)
(* still the updated_at it was listed with.  Rows the splitter declines or *)
(* the embedder rejects are passed over; two rejections in a row end the   *)
(* tick.                                                                   *)
(*                                                                         *)
(* Code: internal/service/chunk_backfill.go,                               *)
(* internal/store/sqlitevec/chunks.go and the chunk part of Upsert.  The   *)
(* chunks of a row are the text they were cut from; how it is cut is in    *)
(* Splitting.                                                              *)
(***************************************************************************)
EXTENDS Integers, Sequences, FiniteSets

CONSTANTS
    Docs,         \* ids, in the order ListUnchunked walks them
    LongTexts,    \* contents the splitter cuts and the embedder takes
    Declined,     \* contents long enough to be listed that yield no chunk
    Poison,       \* contents the embedder always rejects
    ShortTexts,   \* contents under MinContent
    NoText,       \* no row, or no chunks
    DocWriters,   \* handlers that write rows
    ChunkBatch,   \* chunkBackfillBatch
    ScanCap,      \* chunkBackfillScanCap
    SameInstant,  \* two writes may carry the same updated_at (milliseconds)
    MaxDocWrites, \* bound: writes
    MaxTroubles   \* bound: outages and abandoned ticks

DocTexts == LongTexts \cup Declined \cup Poison \cup ShortTexts

ASSUME ChunkAssumption ==
    /\ Docs \subseteq Nat \ {0} /\ IsFiniteSet(Docs)
    /\ NoText \notin DocTexts
    /\ LongTexts \cap (Declined \cup Poison \cup ShortTexts) = {}
    /\ ChunkBatch \in Nat \ {0} /\ ScanCap \in Nat \ {0}
    /\ SameInstant \in BOOLEAN
    /\ MaxDocWrites \in Nat /\ MaxTroubles \in Nat

VARIABLES
    doc,       \* the rows: text, updated_at, what the chunks were cut from
    docWriter, \* the write each handler has under way, or None
    instant,   \* the last updated_at given
    walk,      \* the tick: its step, its cursor, page and counters
    embedder,  \* the embedder answers
    docWrites, \* writes begun
    troubles   \* outages and abandoned ticks so far

chunkVars == <<doc, docWriter, instant, walk, embedder, docWrites, troubles>>

NoDoc == [text |-> NoText, upd |-> 0, chunks |-> NoText]
Instants == 0 .. MaxDocWrites
DocRow == [text : DocTexts \cup {NoText}, upd : Instants, chunks : DocTexts \cup {NoText}]
Listing == [id : Docs, text : DocTexts, upd : Instants]
NoWrite == [id |-> 0, text |-> NoText, upd |-> 0]
NoWalk == [at |-> "idle", after |-> 0, page |-> <<>>, done |-> 0, scanned |-> 0, fails |-> 0]

ChunkTypeOK ==
    /\ doc \in [Docs -> DocRow]
    /\ docWriter \in [DocWriters -> Listing \cup {NoWrite}]
    /\ instant \in Instants
    /\ walk.at \in {"idle", "list", "row", "put"}
    /\ walk.after \in Docs \cup {0} /\ walk.page \in Seq(Listing) /\ Len(walk.page) <= ChunkBatch
    /\ walk.done \in 0 .. ChunkBatch /\ walk.scanned \in 0 .. ScanCap + 1 /\ walk.fails \in 0 .. 1
    /\ embedder \in BOOLEAN
    /\ docWrites \in 0 .. MaxDocWrites /\ troubles \in 0 .. MaxTroubles

\* Rows of a release that had no chunks.
ChunkInit ==
    /\ doc \in [Docs -> {[NoDoc EXCEPT !.text = t] : t \in DocTexts \cup {NoText}}]
    /\ docWriter = [w \in DocWriters |-> NoWrite]
    /\ instant = 0
    /\ walk = NoWalk
    /\ embedder = TRUE
    /\ docWrites = 0 /\ troubles = 0

-----------------------------------------------------------------------------
(***************************************************************************)
(* Writes: the row a handler will store, then the Upsert.                  *)
(***************************************************************************)
Begins(w, write) ==
    /\ docWriter[w] = NoWrite /\ docWrites < MaxDocWrites
    /\ docWrites' = docWrites + 1
    /\ docWriter' = [docWriter EXCEPT ![w] = write]
    /\ UNCHANGED <<doc, walk, embedder, troubles>>

\* remember, update, merge and promotion take a fresh updated_at.
BeginDocWrite(w, d, t) ==
    \E now \in {instant + 1} \cup (IF SameInstant THEN {instant} ELSE {}) :
        /\ instant' = now
        /\ Begins(w, [id |-> d, text |-> t, upd |-> now])

\* BackfillEmbeddings and reembed write back the row they read.
BeginTouch(w, d) ==
    /\ doc[d] # NoDoc
    /\ Begins(w, [id |-> d, text |-> doc[d].text, upd |-> doc[d].upd])
    /\ UNCHANGED instant

\* Upsert keeps the chunks of an unchanged text and drops the others.
Upserted(old, write, chunks) ==
    [text |-> write.text, upd |-> write.upd,
     chunks |-> IF old.text = write.text /\ chunks = "nil" THEN old.chunks ELSE NoText]

\* `chunks' is Memory.Chunks: nil, or the empty slice reembed passes.
DocUpsert(w, chunks) ==
    LET write == docWriter[w] IN
    /\ write # NoWrite
    /\ doc' = [doc EXCEPT ![write.id] = Upserted(@, write, chunks)]
    /\ docWriter' = [docWriter EXCEPT ![w] = NoWrite]
    /\ UNCHANGED <<instant, walk, embedder, docWrites, troubles>>

DeleteDoc(d) ==
    /\ doc[d] # NoDoc
    /\ doc' = [doc EXCEPT ![d] = NoDoc]
    /\ UNCHANGED <<docWriter, instant, walk, embedder, docWrites, troubles>>

-----------------------------------------------------------------------------
(***************************************************************************)
(* BackfillChunks.                                                         *)
(***************************************************************************)
Unchunked(d) == doc[d].text \in DocTexts \ ShortTexts /\ doc[d].chunks = NoText

\* The first rows after the cursor.
First(after) ==
    LET todo == {d \in Docs : Unchunked(d) /\ d > after}
    IN {d \in todo : Cardinality({e \in todo : e < d}) < ChunkBatch}

\* ListUnchunked: these rows in the order of their ids, as they are now (there is
\* one such order).
Pages(after) ==
    {[k \in DOMAIN ids |-> [id |-> ids[k], text |-> doc[ids[k]].text, upd |-> doc[ids[k]].upd]] :
       ids \in {f \in [1 .. Cardinality(First(after)) -> First(after)] :
                  \A j, k \in DOMAIN f : j < k => f[j] < f[k]}}

Walks == UNCHANGED <<docWriter, instant, embedder, docWrites, troubles>>

StartWalk ==
    /\ walk.at = "idle"
    /\ walk' = [walk EXCEPT !.at = "list"]
    /\ UNCHANGED doc /\ Walks

\* Mutation of Cursor: every page starts from the beginning.
NoCursor == 0

Cursor == walk.after

ListPage ==
    /\ walk.at = "list"
    /\ \E page \in Pages(Cursor) :
         walk' = IF walk.done >= ChunkBatch \/ walk.scanned >= ScanCap \/ page = <<>>
                   THEN NoWalk
                   ELSE [walk EXCEPT !.at = "row", !.page = page]
    /\ UNCHANGED doc /\ Walks

Row == Head(walk.page)

\* On to the next row of the page, or to the next page.
Passed(fails, done) ==
    [walk EXCEPT !.at = IF Len(walk.page) = 1 THEN "list" ELSE "row",
                 !.page = Tail(@), !.after = Row.id, !.scanned = @ + 1,
                 !.fails = fails, !.done = done]

Enough == walk.done >= ChunkBatch \/ walk.scanned >= ScanCap

StopWalk ==
    /\ walk.at = "row" /\ Enough
    /\ walk' = NoWalk
    /\ UNCHANGED doc /\ Walks

Decline ==
    /\ walk.at = "row" /\ ~Enough
    /\ Row.text \in Declined
    /\ walk' = Passed(walk.fails, walk.done)
    /\ UNCHANGED doc /\ Walks

EmbedParts ==
    /\ walk.at = "row" /\ ~Enough
    /\ Row.text \in LongTexts /\ embedder
    /\ walk' = [walk EXCEPT !.at = "put", !.fails = 0]
    /\ UNCHANGED doc /\ Walks

\* One failure is the row's problem, two in a row are an outage.
EmbedRejected ==
    /\ walk.at = "row" /\ ~Enough
    /\ Row.text \notin Declined
    /\ Row.text \in Poison \/ ~embedder
    /\ walk' = IF walk.fails = 1 THEN NoWalk ELSE Passed(walk.fails + 1, walk.done)
    /\ UNCHANGED doc /\ Walks

\* Mutation of Untouched: the row need only exist.
StillThere(r) == doc[r.id] # NoDoc

\* PutChunks' guard, in the transaction of its write.
Untouched(r) == doc[r.id] # NoDoc /\ doc[r.id].upd = r.upd

PutChunks ==
    /\ walk.at = "put"
    /\ walk' = Passed(0, IF Untouched(Row) THEN walk.done + 1 ELSE walk.done)
    /\ doc' = IF Untouched(Row) THEN [doc EXCEPT ![Row.id].chunks = Row.text] ELSE doc
    /\ Walks

Walk == StartWalk \/ ListPage \/ StopWalk \/ Decline \/ EmbedParts \/ EmbedRejected \/ PutChunks

\* A store error or a stop ends the tick where it is, or skips the write.
Trouble == troubles < MaxTroubles /\ troubles' = troubles + 1

AbandonWalk ==
    /\ walk.at # "idle" /\ Trouble
    /\ walk' = NoWalk
    /\ UNCHANGED <<doc, docWriter, instant, embedder, docWrites>>

PutFails ==
    /\ walk.at = "put" /\ Trouble
    /\ walk' = Passed(0, walk.done)
    /\ UNCHANGED <<doc, docWriter, instant, embedder, docWrites>>

EmbedderStops ==
    /\ embedder /\ Trouble
    /\ embedder' = FALSE
    /\ UNCHANGED <<doc, docWriter, instant, walk, docWrites>>

EmbedderReturns ==
    /\ ~embedder
    /\ embedder' = TRUE
    /\ UNCHANGED <<doc, docWriter, instant, walk, docWrites, troubles>>

ChunkNext ==
    \/ \E w \in DocWriters, d \in Docs : \/ \E t \in DocTexts : BeginDocWrite(w, d, t)
                                         \/ BeginTouch(w, d)
    \/ \E w \in DocWriters, chunks \in {"nil", "empty"} : DocUpsert(w, chunks)
    \/ \E d \in Docs : DeleteDoc(d)
    \/ Walk \/ AbandonWalk \/ PutFails \/ EmbedderStops \/ EmbedderReturns

ChunkSpec == ChunkInit /\ [][ChunkNext]_chunkVars

\* The ticker fires and every call of a tick returns; outages end.
ChunkFairness == WF_chunkVars(Walk) /\ WF_chunkVars(EmbedderReturns)

-----------------------------------------------------------------------------
(***************************************************************************)
(* Properties.                                                             *)
(***************************************************************************)

\* Chunks are only ever those of the text the row holds, whatever writes,
\* write-backs of older rows, deletions and re-creations of the id landed while
\* the parts were being embedded (PutChunks: "it would index text the row no
\* longer holds").
ChunksMatchText ==
    \A d \in Docs : doc[d].chunks # NoText => doc[d].chunks = doc[d].text

\* Every long row gets its chunks, however many rows before it yield none and
\* although one of them is always rejected (BackfillChunks: "one row whose batch
\* the embedder always rejects, or a run of rows the splitter declines, would
\* sit at the head and starve everything behind it forever").
NoneStarves ==
    <>[](Cardinality({d \in Docs : doc[d].text \in Poison}) <= 1 =>
           \A d \in Docs : doc[d].text \in LongTexts => doc[d].chunks # NoText)
=============================================================================
