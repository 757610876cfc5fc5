------------------------------ MODULE Collector ------------------------------
(***************************************************************************)
(* pkg/collector: the metric pipeline and how it is stopped.               *)
(*                                                                         *)
(* Every second the dispatcher hands the checks that are due, over an      *)
(* unbuffered channel, to check workers; a check pushes its metric on       *)
(* SuccessQueue; success workers send it to the server and push it on       *)
(* FailureQueue when that fails; the failure worker takes one metric from  *)
(* there every 5 seconds and retries it with backoff.  Stop cancels the    *)
(* context, closes the scheduler's channels, waits for the success and     *)
(* failure workers only, and closes the queues.                            *)
(*                                                                         *)
(* Metrics are not told apart: the queues are their lengths.  Which check  *)
(* is due when is left open: a tick dispatches any number up to MaxBatch.  *)
(***************************************************************************)
EXTENDS Integers, FiniteSets

CONSTANTS Workers,     \* the goroutines of Scheduler.worker
          Senders,     \* the goroutines of successQueueWorker
          Capacity,    \* CheckBuffer.Capacity
          MaxBatch,    \* dispatches in one tick: two for each check
          MaxRetries,  \* maxRetryCount
          MaxMetrics   \* bound: how many metrics the checks produce

ASSUME CollectorAssumption ==
  /\ IsFiniteSet(Workers) /\ IsFiniteSet(Senders)
  /\ Workers \intersect Senders = {}
  /\ {"dispatcher", "retrier"} \intersect (Workers \union Senders) = {}
  /\ Capacity \in Nat /\ MaxBatch \in Nat /\ MaxMetrics \in Nat
  /\ MaxRetries \in Nat \ {0}

VARIABLES
  stop,        \* where Stop is; the context is cancelled unless "running"
  panicked,    \* a send on a closed channel has ended the process
  at,          \* where each goroutine is
  batch,       \* dispatches left in this tick
  retryCount,
  success, failure,  \* lengths of SuccessQueue and FailureQueue
  tally        \* what has become of the metrics

queueVars == <<success, failure, tally>>
vars == <<stop, panicked, at, batch, retryCount, queueVars>>

\* The goroutine "retrier" is failureQueueWorker.
Goroutines == Workers \union Senders \union {"dispatcher", "retrier"}

Cancelled == stop # "running"
TasksClosed == stop \in {"waiting", "done"}
QueuesClosed == stop = "done"

\* Faulty variant of Room: one metric too many.
RoomOffByOne(n) == n <= Capacity

\* A send on a queue of that length does not block.
Room(n) == n < Capacity

\* A panic in any goroutine ends the process.
Go(g, from, to) ==
  /\ ~panicked /\ UNCHANGED panicked
  /\ at[g] = from /\ at' = [at EXCEPT ![g] = to]

\* The goroutine sends on a channel that Stop has closed.
Panic(g, from) == /\ at[g] = from /\ ~panicked /\ panicked' = TRUE
                  /\ UNCHANGED <<stop, at, batch, retryCount, queueVars>>

Init ==
  /\ stop = "running" /\ panicked = FALSE
  /\ at = [g \in Goroutines |-> IF g \in Workers THEN "recv" ELSE "select"]
  /\ batch = 0 /\ retryCount = 0
  /\ success = 0 /\ failure = 0
  /\ tally = [made |-> 0, sent |-> 0, dropped |-> 0]

-----------------------------------------------------------------------------
(* Scheduler.dispatcher *)

DispatcherTicks ==
  /\ Go("dispatcher", "select", "range")
  /\ batch' \in 1 .. MaxBatch
  /\ UNCHANGED <<stop, retryCount, queueVars>>

DispatcherStops ==
  /\ Go("dispatcher", "select", "stopped")
  /\ Cancelled
  /\ UNCHANGED <<stop, batch, retryCount, queueVars>>

\* taskQueue is not buffered: a worker receives what the dispatcher sends.
Dispatch(w) ==
  /\ ~panicked /\ ~TasksClosed
  /\ at["dispatcher"] = "range" /\ at[w] = "recv"
  /\ at' = [at EXCEPT !["dispatcher"] = IF batch = 1 THEN "select" ELSE "range",
                      ![w] = "check"]
  /\ batch' = batch - 1
  /\ UNCHANGED <<stop, panicked, retryCount, queueVars>>

\* taskQueue is closed under a dispatcher that is in the middle of a tick.
DispatchPanics == TasksClosed /\ Panic("dispatcher", "range")

-----------------------------------------------------------------------------
(* Scheduler.worker, executeTask and the Execute of a check *)

WorkerEnds(w) ==
  /\ Go(w, "recv", "stopped")
  /\ TasksClosed
  /\ UNCHANGED <<stop, batch, retryCount, queueVars>>

WorkerLooks(w) ==
  /\ Go(w, "check", IF Cancelled THEN "stopped" ELSE "exec")
  /\ UNCHANGED <<stop, batch, retryCount, queueVars>>

\* Execute fails, finds the context cancelled, or had nothing to send.
ExecuteOnly(w) ==
  /\ Go(w, "exec", "recv")
  /\ UNCHANGED <<stop, batch, retryCount, queueVars>>

\* Execute has a metric and has seen the context alive.
ExecuteMetric(w) ==
  /\ Go(w, "exec", "push")
  /\ ~Cancelled /\ tally.made < MaxMetrics
  /\ tally' = [tally EXCEPT !.made = @ + 1]
  /\ UNCHANGED <<stop, batch, retryCount, success, failure>>

\* This send looks at no context.
PushMetric(w) ==
  /\ Go(w, "push", "recv")
  /\ ~QueuesClosed /\ Room(success) /\ success' = success + 1
  /\ UNCHANGED <<stop, batch, retryCount, failure, tally>>

PushPanics(w) == QueuesClosed /\ Panic(w, "push")

-----------------------------------------------------------------------------
(* successQueueWorker *)

SenderStops(s) ==
  /\ Go(s, "select", "stopped")
  /\ Cancelled
  /\ UNCHANGED <<stop, batch, retryCount, queueVars>>

SenderTakes(s) ==
  /\ Go(s, "select", "send")
  /\ success > 0 /\ success' = success - 1
  /\ UNCHANGED <<stop, batch, retryCount, failure, tally>>

\* Faulty variant of Sent: a metric that could not be sent is forgotten.
SentRegardless(s) == TRUE

\* The metric went to the server (an answer 400 counts as sent).
Sent(s) == at'[s] = "select"

SenderSends(s) ==
  /\ \E next \in {"select", "pushFailure"} : Go(s, "send", next)
  /\ tally' = IF Sent(s) THEN [tally EXCEPT !.sent = @ + 1] ELSE tally
  /\ UNCHANGED <<stop, batch, retryCount, success, failure>>

\* Nor does this one.
SenderFails(s) ==
  /\ Go(s, "pushFailure", "select")
  /\ Room(failure) /\ failure' = failure + 1
  /\ UNCHANGED <<stop, batch, retryCount, success, tally>>

-----------------------------------------------------------------------------
(* failureQueueWorker, retryFailedMetrics and retryWithBackoff *)

RetrierStops ==
  /\ Go("retrier", "select", "stopped")
  /\ Cancelled
  /\ UNCHANGED <<stop, batch, retryCount, queueVars>>

\* The ticker fires and FailureQueue is not empty.
RetrierTakes ==
  /\ Go("retrier", "select", "backoff")
  /\ failure > 0 /\ failure' = failure - 1
  /\ retryCount' = 0
  /\ UNCHANGED <<stop, batch, success, tally>>

\* The metric in hand is given up when the context is cancelled.
RetrierGivesUp ==
  /\ Go("retrier", "backoff", "select")
  /\ Cancelled
  /\ tally' = [tally EXCEPT !.dropped = @ + 1]
  /\ UNCHANGED <<stop, batch, retryCount, success, failure>>

RetrierSends ==
  /\ Go("retrier", "backoff", "select")
  /\ tally' = [tally EXCEPT !.sent = @ + 1]
  /\ UNCHANGED <<stop, batch, retryCount, success, failure>>

\* Faulty variant of AfterGivingUp: the worker returns with the error.
StopAfterGivingUp == "stopped"

AfterGivingUp == "select"

RetrierFails ==
  /\ retryCount' = retryCount + 1
  /\ IF retryCount' < MaxRetries
       THEN Go("retrier", "backoff", "backoff") /\ UNCHANGED tally
       ELSE /\ Go("retrier", "backoff", AfterGivingUp)
            /\ tally' = [tally EXCEPT !.dropped = @ + 1]
  /\ UNCHANGED <<stop, batch, success, failure>>

-----------------------------------------------------------------------------
(* Stop *)

StopFrom(from, to) ==
  /\ ~panicked /\ stop = from /\ stop' = to
  /\ UNCHANGED <<panicked, at, batch, retryCount, queueVars>>

StopCancels == StopFrom("running", "cancelled")

\* scheduler.Stop() closes stopChan and taskQueue.
StopScheduler == StopFrom("cancelled", "waiting")

\* wg.Wait() returns: the success and the failure workers are gone.
AllStopped == \A g \in Senders \union {"retrier"} : at[g] = "stopped"

StopCloses == AllStopped /\ StopFrom("waiting", "done")

-----------------------------------------------------------------------------
Scheduler == \/ DispatcherStops \/ DispatchPanics
             \/ \E w \in Workers : Dispatch(w)
Worker(w) == \/ WorkerEnds(w) \/ WorkerLooks(w) \/ ExecuteOnly(w)
             \/ ExecuteMetric(w) \/ PushMetric(w) \/ PushPanics(w)
Sender(s) == SenderStops(s) \/ SenderTakes(s) \/ SenderSends(s) \/ SenderFails(s)
Retrier == \/ RetrierStops \/ RetrierTakes \/ RetrierGivesUp
           \/ RetrierSends \/ RetrierFails
Stopping == StopScheduler \/ StopCloses

Next == \/ DispatcherTicks \/ Scheduler
        \/ \E w \in Workers : Worker(w)
        \/ \E s \in Senders : Sender(s)
        \/ Retrier
        \/ StopCancels \/ Stopping

Spec == Init /\ [][Next]_vars

\* Every goroutine that can go on does: sends have timeouts, the ticker keeps
\* firing.  Nothing makes anybody call Stop.
LiveSpec == /\ Spec
            /\ WF_vars(Scheduler)
            /\ \A w \in Workers : WF_vars(Worker(w))
            /\ \A s \in Senders : WF_vars(Sender(s))
            /\ WF_vars(Retrier)
            /\ WF_vars(Stopping)

-----------------------------------------------------------------------------
(* Properties. *)

\* Every variable has its type; the queues hold at most what they can.
TypeOK ==
  /\ stop \in {"running", "cancelled", "waiting", "done"}
  /\ panicked \in BOOLEAN
  /\ at \in [Goroutines -> {"recv", "check", "exec", "push", "select", "range",
                            "send", "pushFailure", "backoff", "stopped"}]
  /\ batch \in 0 .. MaxBatch
  /\ retryCount \in 0 .. MaxRetries
  /\ success \in 0 .. Capacity /\ failure \in 0 .. Capacity
  /\ tally \in [made : 0 .. MaxMetrics, sent : 0 .. MaxMetrics,
                dropped : 0 .. MaxMetrics]

\* Every metric a check has made is sent, given up, in one of the queues or in
\* the hands of one goroutine, also while the collector is being stopped.
Conservation ==
  tally.made = tally.sent + tally.dropped + success + failure
    + Cardinality({g \in Goroutines :
                     at[g] \in {"push", "send", "pushFailure", "backoff"}})

\* The queues are closed only when nobody is left who takes from SuccessQueue or
\* pushes on FailureQueue: a success worker never sends on a closed channel and
\* never takes a closed channel for a metric.
QueuesOutliveSenders ==
  QueuesClosed => \A g \in Senders \union {"retrier"} : at[g] = "stopped"

\* A success worker that finds FailureQueue full is not stuck for good while the
\* collector runs, even if the server is down: the failure worker drops metrics.
SendersComeBack ==
  \A s \in Senders : []<>(at[s] # "pushFailure" \/ Cancelled)

\* A collector that is told to stop comes to an end of Stop, so that it can be
\* restarted (and is not left hanging in wg.Wait).
StopReturns == Cancelled ~> stop = "done" \/ panicked

\* No goroutine sends on a channel that Stop has closed.
NoPanic == ~panicked
=============================================================================
