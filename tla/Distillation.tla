---------------------------- MODULE Distillation ----------------------------
(***************************************************************************)
(* How captures become durable facts.                                      *)
(*                                                                         *)
(* A fresh short-term capture is distilled by an LLM call: alone, or with  *)
(* the other captures of its session, which wait in a buffer in memory     *)
(* until enough text has come together, the oldest has waited long enough, *)
(* too many sessions are buffered, or the server stops.  The promoter      *)
(* distills, on a ticker, what is recalled often and not stamped as done.  *)
(* Every batch stamps its sources in the store before it asks the LLM.     *)
(* Requests that write over a capture read it, wait for the embedder and   *)
(* write the whole row, stamp included.                                    *)
(*                                                                         *)
(* Code: internal/service/distill_batch.go, promote.go, the write-time     *)
(* dispatch and the edits by id of service.go and update.go, the start and *)
(* the stop of cmd/memini/root.go.  A capture counts one token, it is      *)
(* created by one request and stays short-term.  The facts written are     *)
(* left to Lineage, the deletion of captures to Retention; dropping a      *)
(* source without facts is an option no setting turns on.                  *)
(***************************************************************************)
EXTENDS Integers, Sequences, FiniteSets

CONSTANTS
    Captures,    \* captures that may be written
    Sessions,    \* session ids of captures
    SessionsOf,  \* the sessions each capture may come from, NoSession among them
    Edited,      \* captures that are written over
    NoSession,   \* a capture without one
    MaxTokens,   \* distillBatcher.maxTokens
    MaxBuffers,  \* distillBatchMaxBuffers
    SemCap,      \* distillSemCap: write-time batches at work
    MaxUpsets    \* bound: stops, crashes and requests that write over a capture

ASSUME DistillationAssumption ==
    /\ NoSession \notin Sessions
    /\ SessionsOf \in [Captures -> SUBSET (Sessions \cup {NoSession})]
    /\ Edited \subseteq Captures
    /\ MaxTokens \in Nat \ {0} /\ MaxBuffers \in Nat \ {0} /\ SemCap \in Nat \ {0}
    /\ MaxUpsets \in Nat

VARIABLES
    capture,   \* the rows of the captures
    rewrites,  \* what the requests that have read a capture are going to write
    buffers,   \* distillBatcher.buffers, oldest first
    batches,   \* write-time and promoter batches under way
    server,    \* "up", "stopping" (signalled), "flushed" (the batcher returned), "down"
    upsets,    \* stops, crashes and requests that write over a capture, so far
    tries,     \* history: LLM calls that included each capture
    failed,    \* history: captures stamped by a batch that never got its facts
    crossed,   \* history: captures the promoter listed while a batch or buffer held them
    erased     \* history: writes over each capture that took a stamp off it

distillationVars ==
    <<capture, rewrites, buffers, batches, server, upsets, tries, failed, crossed, erased>>
distillHistories == <<tries, failed, crossed, erased>>

CaptureRow == [new : BOOLEAN, hot : BOOLEAN, stamped : BOOLEAN]
Unwritten == [new |-> TRUE, hot |-> FALSE, stamped |-> FALSE]
Rewrite == [no : Nat, of : Captures, row : CaptureRow]
BatchKinds == {"direct", "session", "promoter"}
BatchSteps == {"wait", "retier", "stamp", "distill"}
Batch == [by : BatchKinds, step : BatchSteps, items : SUBSET Captures,
          left : SUBSET Captures, done : SUBSET Captures]

Buffered == UNION {buffers[k].items : k \in DOMAIN buffers}
WriteTime == {b \in batches : b.by # "promoter"}
InHand(c) == c \in Buffered \/ \E b \in WriteTime : c \in b.items

DistillationTypeOK ==
    /\ capture \in [Captures -> CaptureRow] /\ rewrites \subseteq Rewrite
    /\ buffers \in Seq([session : Sessions, items : SUBSET Captures])
    /\ batches \subseteq Batch
    /\ server \in {"up", "stopping", "flushed", "down"}
    /\ upsets \in 0 .. MaxUpsets
    /\ tries \in [Captures -> Nat]
    /\ failed \subseteq Captures /\ crossed \subseteq Captures
    /\ erased \in [Captures -> Nat]

DistillationInit ==
    /\ capture = [c \in Captures |-> Unwritten]
    /\ rewrites = {}
    /\ buffers = <<>>
    /\ batches = {}
    /\ server = "up"
    /\ upsets = 0
    /\ tries = [c \in Captures |-> 0]
    /\ failed = {} /\ crossed = {}
    /\ erased = [c \in Captures |-> 0]

-----------------------------------------------------------------------------
(***************************************************************************)
(* Captures: written, recalled, written over.                              *)
(***************************************************************************)
Waiting(by, items) == [by |-> by, step |-> "wait", items |-> items, left |-> items, done |-> {}]

\* Where the buffer of a session is.
Place(q, s) == CHOOSE k \in DOMAIN q : q[k].session = s

\* The buffers after the capture joins that of its session, opened if need be.
Joined(c, s) ==
    IF \E k \in DOMAIN buffers : buffers[k].session = s
      THEN [buffers EXCEPT ![Place(buffers, s)].items = @ \cup {c}]
      ELSE Append(buffers, [session |-> s, items |-> {c}])

\* Mutation of Taken: the full buffer stays in the map.
NotTaken(q, s) == q

\* A buffer handed to a batch leaves the map in the same critical section.
Taken(q, s) ==
    SubSeq(q, 1, Place(q, s) - 1) \o SubSeq(q, Place(q, s) + 1, Len(q))

\* enqueueDistillBatch: the buffer leaves when it is full, and the oldest one
\* leaves when there are too many.
Enqueue(c, s) ==
    LET q == Joined(c, s)
        items == q[Place(q, s)].items
        full == Cardinality(items) >= MaxTokens
        kept == IF full THEN Taken(q, s) ELSE q
        crowded == Len(kept) > MaxBuffers
    IN /\ buffers' = (IF crowded THEN Tail(kept) ELSE kept)
       /\ batches' = batches
            \cup (IF full THEN {Waiting("session", items)} ELSE {})
            \cup (IF crowded THEN {Waiting("session", Head(kept).items)} ELSE {})

\* Mutation of Fresh: the capture is stamped as it is written.
FreshStamped == [new |-> FALSE, hot |-> FALSE, stamped |-> TRUE]

Fresh == [new |-> FALSE, hot |-> FALSE, stamped |-> FALSE]

\* Remember stores the capture, then buildFactsOnWrite dispatches it; requests
\* are served until the server is down, the batcher's return included.
Capture(c, s) ==
    /\ server # "down"
    /\ capture[c].new
    /\ capture' = [capture EXCEPT ![c] = Fresh]
    /\ IF s = NoSession
         THEN /\ batches' = batches \cup {Waiting("direct", {c})}
              /\ UNCHANGED buffers
         ELSE Enqueue(c, s)
    /\ UNCHANGED <<rewrites, server, upsets, distillHistories>>

\* Enough recalls for promoteMinAccess.
HeatUp(c) ==
    /\ server # "down"
    /\ ~capture[c].new /\ ~capture[c].hot
    /\ capture' = [capture EXCEPT ![c].hot = TRUE]
    /\ UNCHANGED <<rewrites, buffers, batches, server, upsets, distillHistories>>

\* What a request makes of the row it has read.  An update by id carries the
\* metadata over, a Remember with the id of the capture replaces it; both start
\* the count of recalls anew.  The LLM merges of Remember and of the dedup pass
\* write the row as they read it, with another content.
Carried(r) == [r EXCEPT !.hot = FALSE]
Replaced == Fresh
Merged(r) == r

ReadCapture(c) ==
    /\ server # "down"
    /\ upsets < MaxUpsets /\ upsets' = upsets + 1
    /\ c \in Edited /\ ~capture[c].new
    /\ \E r \in {Carried(capture[c]), Replaced, Merged(capture[c])} :
         rewrites' = rewrites \cup {[no |-> upsets, of |-> c, row |-> r]}
    /\ UNCHANGED <<capture, buffers, batches, server, distillHistories>>

\* The embedder has answered.  A row that was there is never dispatched again.
WriteOver(w) ==
    /\ server # "down"
    /\ rewrites' = rewrites \ {w}
    /\ capture' = [capture EXCEPT ![w.of] = w.row]
    /\ erased' = [erased EXCEPT ![w.of] =
                     IF capture[w.of].stamped /\ ~w.row.stamped THEN @ + 1 ELSE @]
    /\ UNCHANGED <<buffers, batches, server, upsets, tries, failed, crossed>>

\* It has not, or the caller is gone.
GiveUpRewrite(w) ==
    /\ server # "down"
    /\ rewrites' = rewrites \ {w}
    /\ UNCHANGED <<capture, buffers, batches, server, upsets, distillHistories>>

-----------------------------------------------------------------------------
(***************************************************************************)
(* The batcher and the promoter start batches.                             *)
(***************************************************************************)
Flushes(n) == {Waiting("session", buffers[k].items) : k \in 1 .. n}

\* Mutation of Ripe: the last buffer waits for another one.
RipeWithCompany(n) == n \in 1 .. Len(buffers) - 1

\* The buffers that have waited long enough are the n oldest ones.
Ripe(n) == n \in 1 .. Len(buffers)

AgeFlush ==
    /\ server \in {"up", "stopping"}
    /\ \E n \in 1 .. Len(buffers) :
         /\ Ripe(n)
         /\ batches' = batches \cup Flushes(n)
         /\ buffers' = SubSeq(buffers, n + 1, Len(buffers))
    /\ UNCHANGED <<capture, rewrites, server, upsets, distillHistories>>

\* The context of the workers is cancelled: the batcher flushes all and returns.
FinalFlush ==
    /\ server = "stopping"
    /\ server' = "flushed"
    /\ batches' = batches \cup Flushes(Len(buffers))
    /\ buffers' = <<>>
    /\ UNCHANGED <<capture, rewrites, upsets, distillHistories>>

Promoting == \E b \in batches : b.by = "promoter"

\* Mutation of Pending: the stamp is not read.
PendingOrDone(r) == r.hot

\* What a promoter pass distills.
Pending(r) == r.hot /\ ~r.stamped

\* Promote lists, then retiers, then distills, one pass at a time.
Promote ==
    LET items == {c \in Captures : Pending(capture[c])} IN
    /\ server = "up"
    /\ ~Promoting /\ items # {}
    /\ batches' = batches \cup {[Waiting("promoter", items) EXCEPT !.step = "retier"]}
    /\ crossed' = crossed \cup {c \in items : InHand(c)}
    /\ UNCHANGED <<capture, rewrites, buffers, server, upsets, tries, failed, erased>>

-----------------------------------------------------------------------------
(***************************************************************************)
(* A batch: wait for a slot, stamp, distill.                               *)
(***************************************************************************)
Become(b, next) == batches' = (batches \ {b}) \cup {next}
Drop(b) == batches' = batches \ {b}

Acquire(b) ==
    /\ b.step = "wait"
    /\ Cardinality({o \in WriteTime : o.step # "wait"}) < SemCap
    /\ Become(b, [b EXCEPT !.step = "stamp"])
    /\ UNCHANGED <<capture, rewrites, buffers, server, upsets, distillHistories>>

\* A batch writes the whole row as it read it: unrecalled when it was captured,
\* recalled often when the promoter listed it.
Written(b, stamped) == [Fresh EXCEPT !.hot = b.by = "promoter", !.stamped = stamped]

\* retierWorkingToEpisodic writes a working row back as it was listed, without
\* a stamp that has come since.
RetierSource(b, c) ==
    /\ b.step = "retier" /\ c \in b.left \ b.done
    /\ Become(b, [b EXCEPT !.done = @ \cup {c}])
    /\ capture' = [capture EXCEPT ![c] = Written(b, FALSE)]
    /\ UNCHANGED <<rewrites, buffers, server, upsets, distillHistories>>

\* The other rows are episodic, or could not be embedded or stored.
RetierDone(b) ==
    /\ b.step = "retier"
    /\ Become(b, [b EXCEPT !.step = "stamp", !.done = {}])
    /\ UNCHANGED <<capture, rewrites, buffers, server, upsets, distillHistories>>

\* stampPromoted writes the whole row.
StampSource(b, c) ==
    /\ b.step = "stamp" /\ c \in b.left
    /\ Become(b, [b EXCEPT !.left = @ \ {c}, !.done = @ \cup {c}])
    /\ capture' = [capture EXCEPT ![c] = Written(b, TRUE)]
    /\ UNCHANGED <<rewrites, buffers, server, upsets, distillHistories>>

\* The store refuses it: the source stays as it is.
StampRefused(b, c) ==
    /\ b.step = "stamp" /\ c \in b.left
    /\ Become(b, [b EXCEPT !.left = @ \ {c}])
    /\ UNCHANGED <<capture, rewrites, buffers, server, upsets, distillHistories>>

\* The sources could not be embedded, or none was stamped.
StampNothing(b) ==
    /\ b.step = "stamp" /\ b.done = {}
    /\ Drop(b)
    /\ UNCHANGED <<capture, rewrites, buffers, server, upsets, distillHistories>>

StampDone(b) ==
    /\ b.step = "stamp" /\ b.left = {} /\ b.done # {}
    /\ Become(b, [b EXCEPT !.step = "distill"])
    /\ UNCHANGED <<capture, rewrites, buffers, server, upsets, distillHistories>>

DistillBatch(b) ==
    /\ b.step = "distill"
    /\ Drop(b)
    /\ tries' = [c \in Captures |-> IF c \in b.done THEN tries[c] + 1 ELSE tries[c]]
    /\ UNCHANGED <<capture, rewrites, buffers, server, upsets, failed, crossed, erased>>

DistillFails(b) ==
    /\ b.step = "distill"
    /\ Drop(b)
    /\ failed' = failed \cup b.done
    /\ UNCHANGED <<capture, rewrites, buffers, server, upsets, tries, crossed, erased>>

-----------------------------------------------------------------------------
(***************************************************************************)
(* The server stops, crashes, starts.                                      *)
(***************************************************************************)
StampedBy(b) == IF b.step = "retier" THEN {} ELSE b.done

Signal ==
    /\ server = "up"
    /\ upsets < MaxUpsets /\ upsets' = upsets + 1
    /\ server' = "stopping"
    /\ UNCHANGED <<capture, rewrites, buffers, batches, distillHistories>>

\* Requests are drained or cut off, WaitBackground has joined every batch; what
\* was buffered after the batcher's return is gone.
Exit ==
    /\ server = "flushed" /\ batches = {}
    /\ server' = "down"
    /\ buffers' = <<>>
    /\ rewrites' = {}
    /\ UNCHANGED <<capture, batches, upsets, distillHistories>>

Crash ==
    /\ server # "down"
    /\ upsets < MaxUpsets /\ upsets' = upsets + 1
    /\ server' = "down"
    /\ buffers' = <<>> /\ batches' = {}
    /\ rewrites' = {}
    /\ failed' = failed \cup UNION {StampedBy(b) : b \in batches}
    /\ UNCHANGED <<capture, tries, crossed, erased>>

Boot ==
    /\ server = "down"
    /\ server' = "up"
    /\ UNCHANGED <<capture, rewrites, buffers, batches, upsets, distillHistories>>

BatchStep(b) ==
    \/ Acquire(b) \/ RetierDone(b) \/ StampNothing(b) \/ StampDone(b)
    \/ DistillBatch(b) \/ DistillFails(b)
    \/ \E c \in Captures : RetierSource(b, c) \/ StampSource(b, c) \/ StampRefused(b, c)

DistillationNext ==
    \/ \E c \in Captures : \/ \E s \in SessionsOf[c] : Capture(c, s)
                           \/ HeatUp(c) \/ ReadCapture(c)
    \/ \E w \in rewrites : WriteOver(w) \/ GiveUpRewrite(w)
    \/ AgeFlush \/ FinalFlush \/ Promote
    \/ \E b \in batches : BatchStep(b)
    \/ Signal \/ Exit \/ Crash \/ Boot

DistillationSpec == DistillationInit /\ [][DistillationNext]_distillationVars

\* The goroutines run and every call in them has a timeout: the age check comes
\* round, each batch moves, and a stopping server joins its workers and exits.
DistillationFairness ==
    /\ WF_distillationVars(AgeFlush) /\ WF_distillationVars(FinalFlush)
    /\ WF_distillationVars(Exit)
    /\ WF_distillationVars(\E b \in batches : b.by = "promoter" /\ BatchStep(b))
    /\ \A c \in Captures :
         WF_distillationVars(\E b \in WriteTime : c \in b.items /\ BatchStep(b))

-----------------------------------------------------------------------------
(***************************************************************************)
(* Properties.                                                             *)
(***************************************************************************)

\* A capture waits in one place: one buffer or one write-time batch, so that no
\* flush, eviction or shutdown hands it to the LLM twice (delete under b.mu).
OneHome ==
    /\ \A k, l \in DOMAIN buffers : k # l => buffers[k].items \cap buffers[l].items = {}
    /\ \A b \in WriteTime :
         /\ b.items \cap Buffered = {}
         /\ \A o \in WriteTime : o # b => o.items \cap b.items = {}

\* A source is distilled once, once more if the promoter listed it while the
\* write-time path still had it in hand, and once more for each write over it
\* that took the stamp off (stampPromoted, alreadyPromoted); neither failures nor
\* crashes nor the rows the batches write back add to that.
DistilledOnce ==
    \A c \in Captures : tries[c] <= 1 + (IF c \in crossed THEN 1 ELSE 0) + erased[c]

\* A capture lost with its buffer stays eligible for the promoter: a stamp means
\* that a batch has asked the LLM about it, is about to, or failed after the
\* stamp (WithDistillBatch: "stamped promoted_at only at flush").
StampedMeansTried ==
    \A c \in Captures : capture[c].stamped =>
        tries[c] > 0 \/ c \in failed \/ \E b \in batches : c \in StampedBy(b)

\* No capture waits forever, in a buffer or in a batch, whichever comes first:
\* the token count, the age, the eviction, the stop of the server (distillSem).
NoneWaitsForever == \A c \in Captures : InHand(c) ~> ~InHand(c)
=============================================================================
