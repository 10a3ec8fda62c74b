-------------------------- MODULE ConsolidateQueue --------------------------
(***************************************************************************)
(* The queue of asynchronous consolidation as a component: what a job does *)
(* to the memories is in Lineage, here it is whether and when it runs.     *)
(*                                                                         *)
(* Writers add a job without waiting and drop it when the queue is full.   *)
(* FlushConsolidation adds a sentinel and waits, for room and then for the *)
(* worker to reach it.  When the server stops the worker drains the queue  *)
(* within a deadline, while requests that are still being served go on     *)
(* adding to it.                                                           *)
(*                                                                         *)
(* Code: internal/service/consolidate.go.  The queue is a Go channel: a    *)
(* sender that waits for room gets it the moment a value is taken, before  *)
(* anyone who does not wait.                                               *)
(***************************************************************************)
EXTENDS Integers, Sequences

CONSTANTS
    Tasks,      \* consolidation jobs
    Flushers,   \* callers of FlushConsolidation
    QueueRoom   \* capacity of the queue (defaultConsolidateQueueCap)

\* The worker has nothing in hand.
Idle == "idle"

ASSUME QueueAssumption ==
    Tasks \cap Flushers = {} /\ Idle \notin Tasks \cup Flushers /\ QueueRoom \in Nat \ {0}

VARIABLES
    chan,       \* consolidateQueue
    blocked,    \* flushers waiting for room, in order of arrival
    worker,     \* what the worker does: its mode and what it holds
    jobState,   \* where each job is
    flush,      \* where each flusher is
    ahead,      \* history: per flusher, the jobs accepted before its sentinel
    late        \* history: jobs accepted after the worker had returned

queueVars == <<chan, blocked, worker, jobState, flush, ahead, late>>

WorkerModes == {"running", "cancelled", "draining", "expired", "returned"}

QueueTypeOK ==
    /\ chan \in Seq(Tasks \cup Flushers) /\ Len(chan) <= QueueRoom
    /\ blocked \in Seq(Flushers)
    /\ worker \in [mode : WorkerModes, holds : Tasks \cup {Idle}]
    /\ jobState \in [Tasks -> {"new", "queued", "dropped", "held", "done"}]
    /\ flush \in [Flushers -> {"idle", "sending", "waiting", "closed", "gave up"}]
    /\ ahead \in [Flushers -> SUBSET Tasks]
    /\ late \subseteq Tasks

QueueInit ==
    /\ chan = <<>> /\ blocked = <<>>
    /\ worker = [mode |-> "running", holds |-> Idle]
    /\ jobState = [j \in Tasks |-> "new"]
    /\ flush = [f \in Flushers |-> "idle"]
    /\ ahead = [f \in Flushers |-> {}]
    /\ late = {}

\* Mutation of Room: off by one.
RoomForOneMore == Len(chan) <= QueueRoom

Room == Len(chan) < QueueRoom
Without(s, f) ==
    IF \E k \in DOMAIN s : s[k] = f
      THEN LET k == CHOOSE i \in DOMAIN s : s[i] = f
           IN SubSeq(s, 1, k - 1) \o SubSeq(s, k + 1, Len(s))
      ELSE s
Accepted == {j \in Tasks : jobState[j] \in {"queued", "held", "done"}}

-----------------------------------------------------------------------------
(***************************************************************************)
(* Callers.                                                                *)
(***************************************************************************)

\* enqueueConsolidate: never waits.
EnqueueJob(j) ==
    /\ jobState[j] = "new"
    /\ jobState' = [jobState EXCEPT ![j] = IF Room THEN "queued" ELSE "dropped"]
    /\ chan' = IF Room THEN Append(chan, j) ELSE chan
    /\ late' = IF Room /\ worker.mode \in {"expired", "returned"} THEN late \cup {j} ELSE late
    /\ UNCHANGED <<blocked, worker, flush, ahead>>

\* Mutation of Sent: a sentinel overtakes the jobs.
SentFirst(q, f) == <<f>> \o q

\* The channel is first in, first out.
Sent(q, f) == Append(q, f)

\* FlushConsolidation sends its sentinel, or waits for room.
SendSentinel(f) ==
    /\ flush[f] = "idle"
    /\ IF Room
         THEN /\ chan' = Sent(chan, f)
              /\ flush' = [flush EXCEPT ![f] = "waiting"]
              /\ ahead' = [ahead EXCEPT ![f] = Accepted]
              /\ UNCHANGED blocked
         ELSE /\ blocked' = Append(blocked, f)
              /\ flush' = [flush EXCEPT ![f] = "sending"]
              /\ UNCHANGED <<chan, ahead>>
    /\ UNCHANGED <<worker, jobState, late>>

\* The context of the caller ends; a sentinel already sent stays in the queue.
GiveUp(f) ==
    /\ flush[f] \in {"sending", "waiting"}
    /\ flush' = [flush EXCEPT ![f] = "gave up"]
    /\ blocked' = Without(blocked, f)
    /\ UNCHANGED <<chan, worker, jobState, ahead, late>>

-----------------------------------------------------------------------------
(***************************************************************************)
(* The worker.                                                             *)
(***************************************************************************)

\* Receive: the value leaves the queue and the first waiting sender moves in.
Receive ==
    /\ chan # <<>>
    /\ IF blocked = <<>>
         THEN /\ chan' = Tail(chan)
              /\ UNCHANGED <<blocked, ahead>>
         ELSE /\ chan' = Sent(Tail(chan), Head(blocked))
              /\ blocked' = Tail(blocked)
              /\ ahead' = [ahead EXCEPT ![Head(blocked)] = Accepted]

Moved == IF blocked = <<>> THEN flush ELSE [flush EXCEPT ![Head(blocked)] = "waiting"]

\* Mutation of Closing: the worker drops the sentinel without closing it.
NotClosing(f) == Moved

\* close(job.flush) wakes the caller if it still waits.
Closing(f) == [Moved EXCEPT ![f] = IF @ = "waiting" THEN "closed" ELSE @]

Receiving == worker.mode \in {"running", "cancelled", "draining"} /\ worker.holds = Idle

TakeSentinel ==
    /\ Receiving
    /\ Receive
    /\ Head(chan) \in Flushers
    /\ flush' = Closing(Head(chan))
    /\ UNCHANGED <<worker, jobState, late>>

TakeJob ==
    /\ Receiving
    /\ Receive
    /\ Head(chan) \in Tasks
    /\ worker' = [worker EXCEPT !.holds = Head(chan)]
    /\ jobState' = [jobState EXCEPT ![Head(chan)] = "held"]
    /\ flush' = Moved
    /\ UNCHANGED late

\* consolidateOne returns, whatever came of it; the job is never retried.
FinishJob ==
    /\ worker.holds # Idle
    /\ jobState' = [jobState EXCEPT ![worker.holds] = "done"]
    /\ worker' = [worker EXCEPT !.holds = Idle]
    /\ UNCHANGED <<chan, blocked, flush, ahead, late>>

\* The server stops: a job in hand goes on, and the select that follows may
\* still take one more before it sees the cancellation.
CancelWorker ==
    /\ worker.mode = "running"
    /\ worker' = [worker EXCEPT !.mode = "cancelled"]
    /\ UNCHANGED <<chan, blocked, jobState, flush, ahead, late>>

\* Mutation of AfterCancel: the worker returns at once.
ReturnAtOnce == "returned"

\* drainConsolidate follows the cancellation.
AfterCancel == "draining"

SeeCancel ==
    /\ worker.mode = "cancelled" /\ worker.holds = Idle
    /\ worker' = [worker EXCEPT !.mode = AfterCancel]
    /\ UNCHANGED <<chan, blocked, jobState, flush, ahead, late>>

DrainDone ==
    /\ worker.mode = "draining" /\ worker.holds = Idle /\ chan = <<>>
    /\ worker' = [worker EXCEPT !.mode = "returned"]
    /\ UNCHANGED <<chan, blocked, jobState, flush, ahead, late>>

\* consolidateDrainTimeout: noticed only once the job in hand is done.
DrainExpires ==
    /\ worker.mode = "draining" /\ worker.holds # Idle
    /\ jobState' = [jobState EXCEPT ![worker.holds] = "done"]
    /\ worker' = [mode |-> "expired", holds |-> Idle]
    /\ UNCHANGED <<chan, blocked, flush, ahead, late>>

WorkerMoves == TakeSentinel \/ TakeJob \/ FinishJob \/ SeeCancel \/ DrainDone

QueueNext ==
    \/ \E j \in Tasks : EnqueueJob(j)
    \/ \E f \in Flushers : SendSentinel(f) \/ GiveUp(f)
    \/ WorkerMoves \/ CancelWorker \/ DrainExpires

QueueSpec == QueueInit /\ [][QueueNext]_queueVars

\* The worker is one goroutine and each of its jobs has a timeout.
QueueFairness == WF_queueVars(WorkerMoves)

-----------------------------------------------------------------------------
(***************************************************************************)
(* Properties.                                                             *)
(***************************************************************************)

\* When a flush returns, every job the queue accepted before its sentinel has
\* run, those accepted while it waited for room included (FlushConsolidation:
\* "blocks until every consolidation job queued before the call").
FlushMeansDone ==
    \A f \in Flushers : flush[f] = "closed" => \A j \in ahead[f] : jobState[j] = "done"

\* A job the queue accepted is lost only if the drain ran into its deadline or
\* the job came after the worker had returned: a plain stop leaves none behind.
AcceptedIsRun ==
    worker.mode = "returned" => \A j \in Accepted \ late : jobState[j] = "done"

\* No flush hangs while the worker lives: it returns, gives up or sees the
\* worker gone, however full the queue and whatever the writers do.
FlushReturns ==
    \A f \in Flushers : flush[f] \in {"sending", "waiting"} ~>
        flush[f] \in {"closed", "gave up"} \/ worker.mode \in {"expired", "returned"}
=============================================================================
