--------------------------- MODULE CollectorProofs ---------------------------
(***************************************************************************)
(* Proofs about Collector, for any number of workers, senders, metrics and *)
(* retries and any capacity: the types, that no metric is lost or counted  *)
(* twice, and that the queues are closed only after their workers.         *)
(***************************************************************************)
EXTENDS Collector, FiniteSetTheorems, TLAPS

\* Where a goroutine has a metric in its hands.
Holding == {"push", "send", "pushFailure", "backoff"}
Holders == {g \in Goroutines : at[g] \in Holding}

Balance == tally.made = tally.sent + tally.dropped + success + failure
                          + Cardinality(Holders)

Places == {"recv", "check", "exec", "push", "select", "range", "send",
           "pushFailure", "backoff", "stopped"}

\* The types without the bound of what was sent and given up, which Balance adds.
Types ==
  /\ stop \in {"running", "cancelled", "waiting", "done"}
  /\ panicked \in BOOLEAN
  /\ at \in [Goroutines -> Places]
  /\ batch \in 0 .. MaxBatch
  /\ retryCount \in 0 .. MaxRetries
  /\ success \in 0 .. Capacity /\ failure \in 0 .. Capacity
  /\ tally \in [made : 0 .. MaxMetrics, sent : Nat, dropped : Nat]

\* What a tick and a retry have left.
Budgets == /\ at["dispatcher"] = "range" => batch > 0
           /\ at["retrier"] = "backoff" => retryCount < MaxRetries

IInv == Types /\ Balance /\ Budgets /\ QueuesOutliveSenders

-----------------------------------------------------------------------------
(* Counting. *)

LEMMA HoldersFinite == IsFiniteSet(Holders) /\ Cardinality(Holders) \in Nat
<1>1. IsFiniteSet(Workers \union Senders)
  BY CollectorAssumption, FS_Union
<1>2. IsFiniteSet({"dispatcher", "retrier"})
  <2>1. IsFiniteSet({"dispatcher"}) BY FS_Singleton
  <2>2. {"dispatcher", "retrier"} = {"dispatcher"} \union {"retrier"} OBVIOUS
  <2>3. QED BY <2>1, <2>2, FS_AddElement
<1>3. IsFiniteSet(Goroutines)
  BY <1>1, <1>2, FS_Union DEF Goroutines
<1>4. Holders \subseteq Goroutines
  BY DEF Holders
<1>5. QED BY <1>3, <1>4, FS_Subset, FS_CardinalityType

\* A goroutine that takes a metric, and one that passes it on, count one.
LEMMA Takes ==
  ASSUME Types, NEW g \in Goroutines, NEW from, NEW to, Go(g, from, to),
         from \notin Holding, to \in Holding
  PROVE  Cardinality(Holders') = Cardinality(Holders) + 1
<1>1. Holders' = Holders \union {g} /\ g \notin Holders
  BY DEF Holders, Go, Types
<1>2. QED BY <1>1, HoldersFinite, FS_AddElement

LEMMA Passes ==
  ASSUME Types, NEW g \in Goroutines, NEW from, NEW to, Go(g, from, to),
         from \in Holding, to \notin Holding
  PROVE  /\ Cardinality(Holders') = Cardinality(Holders) - 1
         /\ Cardinality(Holders) > 0
<1>1. Holders' = Holders \ {g} /\ g \in Holders
  BY DEF Holders, Go, Types
<1>2. Cardinality(Holders') = Cardinality(Holders) - 1
  BY <1>1, HoldersFinite, FS_RemoveElement
<1>3. Cardinality(Holders') \in Nat
  BY <1>1, HoldersFinite, FS_RemoveElement, FS_CardinalityType
<1>4. QED BY <1>2, <1>3, HoldersFinite

LEMMA Keeps ==
  ASSUME Types, NEW g \in Goroutines, NEW from, NEW to, Go(g, from, to),
         from \in Holding <=> to \in Holding
  PROVE  Holders' = Holders
  BY DEF Holders, Go, Types

\* What the invariant says: the hands hold a number of metrics, and all numbers
\* are bounded by those made.
LEMMA Meaning == IInv => TypeOK /\ Conservation
<1> SUFFICES ASSUME IInv PROVE TypeOK /\ Conservation
  OBVIOUS
<1>1. Conservation
  BY DEF IInv, Balance, Conservation, Holders, Holding
<1>2. tally.sent <= tally.made /\ tally.dropped <= tally.made
  <2>1. tally.sent \in Nat /\ tally.dropped \in Nat /\ tally.made \in Nat
    BY CollectorAssumption DEF IInv, Types
  <2>2. success \in Nat /\ failure \in Nat
    BY CollectorAssumption DEF IInv, Types
  <2>3. QED BY <2>1, <2>2, HoldersFinite DEF IInv, Balance
<1>3. tally \in [made : 0 .. MaxMetrics, sent : 0 .. MaxMetrics,
                dropped : 0 .. MaxMetrics]
  BY <1>2, CollectorAssumption DEF IInv, Types
<1>4. QED BY <1>1, <1>3 DEF IInv, Types, TypeOK, Places

-----------------------------------------------------------------------------
(* The steps. *)

LEMMA InitInv == Init => IInv
<1> SUFFICES ASSUME Init PROVE IInv
  OBVIOUS
<1>1. at \in [Goroutines -> {"recv", "select"}]
  BY DEF Init
<1>2. Types
  <2>1. at \in [Goroutines -> Places] BY <1>1 DEF Places
  <2>2. batch \in 0 .. MaxBatch /\ retryCount \in 0 .. MaxRetries
    BY CollectorAssumption DEF Init
  <2>3. success \in 0 .. Capacity /\ failure \in 0 .. Capacity
    BY CollectorAssumption DEF Init
  <2>4. tally \in [made : 0 .. MaxMetrics, sent : Nat, dropped : Nat]
    BY CollectorAssumption DEF Init
  <2>5. QED BY <2>1, <2>2, <2>3, <2>4 DEF Init, Types
<1>3. Holders = {}
  BY <1>1 DEF Holders, Holding
<1>4. Balance
  BY <1>3, FS_EmptySet DEF Init, Balance
<1>5. Budgets /\ QueuesOutliveSenders
  BY <1>1, CollectorAssumption
  DEF Init, Budgets, QueuesOutliveSenders, QueuesClosed, Goroutines
<1>6. QED BY <1>2, <1>4, <1>5 DEF IInv

\* One goroutine goes on, and no tick or retry begins: the rest of the invariant
\* is about what else the step changes.
LEMMA GoesOn ==
  ASSUME IInv, NEW g \in Goroutines, NEW from, NEW to \in Places, Go(g, from, to),
         from # "stopped", UNCHANGED stop
  PROVE  /\ at' \in [Goroutines -> Places] /\ panicked' \in BOOLEAN
         /\ stop' \in {"running", "cancelled", "waiting", "done"}
         /\ QueuesOutliveSenders'
         /\ to \notin {"range", "backoff"} /\ UNCHANGED <<batch, retryCount>> => Budgets'
<1> USE DEF IInv, Types, Go
<1>1. /\ at' \in [Goroutines -> Places] /\ panicked' \in BOOLEAN
      /\ stop' \in {"running", "cancelled", "waiting", "done"}
  OBVIOUS
<1>2. QueuesOutliveSenders'
  BY DEF QueuesOutliveSenders, QueuesClosed, Goroutines
<1>3. to \notin {"range", "backoff"} /\ UNCHANGED <<batch, retryCount>> => Budgets'
  BY DEF Budgets, Goroutines
<1>4. QED BY <1>1, <1>2, <1>3

\* Nobody but the dispatcher touches the tick.
LEMMA SchedulerStep == IInv /\ (DispatcherTicks \/ Scheduler) => IInv'
<1> SUFFICES ASSUME IInv, DispatcherTicks \/ Scheduler PROVE IInv'
  OBVIOUS
<1> USE CollectorAssumption DEF IInv, queueVars
<1>1. "dispatcher" \in Goroutines /\ "retrier" \in Goroutines BY DEF Goroutines
<1>2. CASE DispatcherTicks
  <2>1. Holders' = Holders BY <1>1, <1>2, Keeps DEF DispatcherTicks, Holding
  <2>2. /\ at' \in [Goroutines -> Places] /\ panicked' \in BOOLEAN
        /\ stop' \in {"running", "cancelled", "waiting", "done"}
        /\ QueuesOutliveSenders'
    BY <1>1, <1>2, GoesOn DEF DispatcherTicks, Places
  <2>3. batch' \in 0 .. MaxBatch /\ batch' > 0
    BY <1>2 DEF DispatcherTicks
  <2>4. Types' BY <1>2, <2>2, <2>3 DEF DispatcherTicks, Types
  <2>5. Balance' BY <1>2, <2>1 DEF DispatcherTicks, Balance
  <2>6. Budgets' BY <1>1, <1>2, <2>3 DEF DispatcherTicks, Go, Budgets, Types
  <2>7. QED BY <2>2, <2>4, <2>5, <2>6
<1>3. CASE DispatcherStops
  <2>1. Holders' = Holders BY <1>1, <1>3, Keeps DEF DispatcherStops, Holding
  <2>2. /\ at' \in [Goroutines -> Places] /\ panicked' \in BOOLEAN
        /\ stop' \in {"running", "cancelled", "waiting", "done"}
        /\ QueuesOutliveSenders' /\ Budgets'
    BY <1>1, <1>3, GoesOn DEF DispatcherStops, Places
  <2>3. Types' BY <1>3, <2>2 DEF DispatcherStops, Types
  <2>4. Balance' BY <1>3, <2>1 DEF DispatcherStops, Balance
  <2>5. QED BY <2>2, <2>3, <2>4
<1>4. CASE DispatchPanics
  BY <1>4 DEF DispatchPanics, Panic, Types, Balance, Budgets, QueuesOutliveSenders,
     QueuesClosed, Holders
<1>5. ASSUME NEW w \in Workers, Dispatch(w) PROVE IInv'
  <2>1. w \in Goroutines /\ w # "dispatcher" /\ w # "retrier" /\ w \notin Senders
    BY DEF Goroutines
  <2>2. batch' \in 0 .. MaxBatch /\ batch' = batch - 1
    BY <1>5 DEF Dispatch, Types, Budgets
  <2>3. at' \in [Goroutines -> Places] /\ UNCHANGED <<stop, panicked, retryCount, queueVars>>
    BY <1>5 DEF Dispatch, Types, Places
  <2>4. Types' BY <2>2, <2>3 DEF Types
  <2>5. Holders' = Holders BY <1>5, <2>1 DEF Dispatch, Types, Holders, Holding
  <2>6. Balance' BY <2>3, <2>5 DEF Balance
  <2>7. Budgets' BY <1>1, <1>5, <2>1, <2>2 DEF Dispatch, Budgets, Types
  <2>8. QueuesOutliveSenders'
    BY <1>5 DEF Dispatch, QueuesOutliveSenders, QueuesClosed, TasksClosed
  <2>9. QED BY <2>4, <2>6, <2>7, <2>8
<1>6. QED BY <1>2, <1>3, <1>4, <1>5 DEF Scheduler

\* A worker that has made a metric holds it until SuccessQueue has room.
LEMMA WorkerStep == ASSUME IInv, NEW w \in Workers, Worker(w) PROVE IInv'
<1> USE CollectorAssumption DEF IInv, queueVars
<1>1. w \in Goroutines BY DEF Goroutines
<1>2. CASE WorkerEnds(w) \/ WorkerLooks(w) \/ ExecuteOnly(w)
  <2>1. PICK from \in {"recv", "check", "exec"}, to \in {"stopped", "exec", "recv"} :
          Go(w, from, to) /\ UNCHANGED <<stop, batch, retryCount, queueVars>>
    BY <1>2 DEF WorkerEnds, WorkerLooks, ExecuteOnly
  <2>2. Holders' = Holders BY <1>1, <2>1, Keeps DEF Holding
  <2>3. /\ at' \in [Goroutines -> Places] /\ panicked' \in BOOLEAN
        /\ stop' \in {"running", "cancelled", "waiting", "done"}
        /\ QueuesOutliveSenders' /\ Budgets'
    BY <1>1, <2>1, GoesOn DEF Places
  <2>4. Types' BY <2>1, <2>3 DEF Types
  <2>5. Balance' BY <2>1, <2>2 DEF Balance
  <2>6. QED BY <2>3, <2>4, <2>5
<1>3. CASE ExecuteMetric(w)
  <2>1. Cardinality(Holders') = Cardinality(Holders) + 1
    BY <1>1, <1>3, Takes DEF ExecuteMetric, Holding
  <2>2. /\ at' \in [Goroutines -> Places] /\ panicked' \in BOOLEAN
        /\ stop' \in {"running", "cancelled", "waiting", "done"}
        /\ QueuesOutliveSenders' /\ Budgets'
    BY <1>1, <1>3, GoesOn DEF ExecuteMetric, Places
  <2>3. /\ tally' \in [made : 0 .. MaxMetrics, sent : Nat, dropped : Nat]
        /\ tally'.made = tally.made + 1 /\ tally'.sent = tally.sent
        /\ tally'.dropped = tally.dropped
    BY <1>3 DEF ExecuteMetric, Types
  <2>4. Types' BY <1>3, <2>2, <2>3 DEF ExecuteMetric, Types
  <2>5. Balance'
    BY <1>3, <2>1, <2>3, HoldersFinite DEF ExecuteMetric, Balance, Types
  <2>6. QED BY <2>2, <2>4, <2>5
<1>4. CASE PushMetric(w)
  <2>1. Cardinality(Holders') = Cardinality(Holders) - 1
    BY <1>1, <1>4, Passes DEF PushMetric, Holding
  <2>2. /\ at' \in [Goroutines -> Places] /\ panicked' \in BOOLEAN
        /\ stop' \in {"running", "cancelled", "waiting", "done"}
        /\ QueuesOutliveSenders' /\ Budgets'
    BY <1>1, <1>4, GoesOn DEF PushMetric, Places
  <2>3. success' = success + 1 /\ success' \in 0 .. Capacity
    BY <1>4 DEF PushMetric, Room, Types
  <2>4. Types' BY <1>4, <2>2, <2>3 DEF PushMetric, Types
  <2>5. Balance'
    BY <1>4, <2>1, <2>3, HoldersFinite DEF PushMetric, Balance, Types
  <2>6. QED BY <2>2, <2>4, <2>5
<1>5. CASE PushPanics(w)
  BY <1>5 DEF PushPanics, Panic, Types, Balance, Budgets, QueuesOutliveSenders,
     QueuesClosed, Holders
<1>6. QED BY <1>2, <1>3, <1>4, <1>5 DEF Worker

\* A sender holds the metric it has taken until it is sent or on FailureQueue.
LEMMA SenderStep == ASSUME IInv, NEW s \in Senders, Sender(s) PROVE IInv'
<1> USE CollectorAssumption DEF IInv, queueVars
<1>1. s \in Goroutines BY DEF Goroutines
<1>2. CASE SenderStops(s)
  <2>1. Holders' = Holders BY <1>1, <1>2, Keeps DEF SenderStops, Holding
  <2>2. /\ at' \in [Goroutines -> Places] /\ panicked' \in BOOLEAN
        /\ stop' \in {"running", "cancelled", "waiting", "done"}
        /\ QueuesOutliveSenders' /\ Budgets'
    BY <1>1, <1>2, GoesOn DEF SenderStops, Places
  <2>3. Types' BY <1>2, <2>2 DEF SenderStops, Types
  <2>4. Balance' BY <1>2, <2>1 DEF SenderStops, Balance
  <2>5. QED BY <2>2, <2>3, <2>4
<1>3. CASE SenderTakes(s)
  <2>1. Cardinality(Holders') = Cardinality(Holders) + 1
    BY <1>1, <1>3, Takes DEF SenderTakes, Holding
  <2>2. /\ at' \in [Goroutines -> Places] /\ panicked' \in BOOLEAN
        /\ stop' \in {"running", "cancelled", "waiting", "done"}
        /\ QueuesOutliveSenders' /\ Budgets'
    BY <1>1, <1>3, GoesOn DEF SenderTakes, Places
  <2>3. success' = success - 1 /\ success' \in 0 .. Capacity
    BY <1>3 DEF SenderTakes, Types
  <2>4. Types' BY <1>3, <2>2, <2>3 DEF SenderTakes, Types
  <2>5. Balance'
    BY <1>3, <2>1, <2>3, HoldersFinite DEF SenderTakes, Balance, Types
  <2>6. QED BY <2>2, <2>4, <2>5
<1>4. CASE SenderSends(s)
  <2>1. PICK next \in {"select", "pushFailure"} : Go(s, "send", next)
    BY <1>4 DEF SenderSends
  <2>2. /\ at' \in [Goroutines -> Places] /\ panicked' \in BOOLEAN
        /\ stop' \in {"running", "cancelled", "waiting", "done"}
        /\ QueuesOutliveSenders' /\ Budgets'
    BY <1>1, <1>4, <2>1, GoesOn DEF SenderSends, Places
  <2>3. Sent(s) <=> next = "select"
    BY <1>1, <2>1 DEF Sent, Go, Types
  <2>4. CASE next = "select"
    <3>1. Cardinality(Holders') = Cardinality(Holders) - 1
      BY <1>1, <2>1, <2>4, Passes DEF Holding
    <3>2. /\ tally' \in [made : 0 .. MaxMetrics, sent : Nat, dropped : Nat]
          /\ tally'.made = tally.made /\ tally'.sent = tally.sent + 1
          /\ tally'.dropped = tally.dropped
      BY <1>4, <2>3, <2>4 DEF SenderSends, Types
    <3>3. Types' BY <1>4, <2>2, <3>2 DEF SenderSends, Types
    <3>4. Balance'
      BY <1>4, <3>1, <3>2, HoldersFinite DEF SenderSends, Balance, Types
    <3>5. QED BY <2>2, <3>3, <3>4
  <2>5. CASE next = "pushFailure"
    <3>1. Holders' = Holders BY <1>1, <2>1, <2>5, Keeps DEF Holding
    <3>2. UNCHANGED tally BY <1>4, <2>3, <2>5 DEF SenderSends
    <3>3. Types' BY <1>4, <2>2, <3>2 DEF SenderSends, Types
    <3>4. Balance' BY <1>4, <3>1, <3>2 DEF SenderSends, Balance
    <3>5. QED BY <2>2, <3>3, <3>4
  <2>6. QED BY <2>4, <2>5
<1>5. CASE SenderFails(s)
  <2>1. Cardinality(Holders') = Cardinality(Holders) - 1
    BY <1>1, <1>5, Passes DEF SenderFails, Holding
  <2>2. /\ at' \in [Goroutines -> Places] /\ panicked' \in BOOLEAN
        /\ stop' \in {"running", "cancelled", "waiting", "done"}
        /\ QueuesOutliveSenders' /\ Budgets'
    BY <1>1, <1>5, GoesOn DEF SenderFails, Places
  <2>3. failure' = failure + 1 /\ failure' \in 0 .. Capacity
    BY <1>5 DEF SenderFails, Room, Types
  <2>4. Types' BY <1>5, <2>2, <2>3 DEF SenderFails, Types
  <2>5. Balance'
    BY <1>5, <2>1, <2>3, HoldersFinite DEF SenderFails, Balance, Types
  <2>6. QED BY <2>2, <2>4, <2>5
<1>6. QED BY <1>2, <1>3, <1>4, <1>5 DEF Sender

\* The retrier ends each metric it has taken as sent or as given up.
LEMMA RetrierStep == IInv /\ Retrier => IInv'
<1> SUFFICES ASSUME IInv, Retrier PROVE IInv'
  OBVIOUS
<1> USE CollectorAssumption DEF IInv, queueVars
<1>1. "retrier" \in Goroutines /\ "dispatcher" \in Goroutines BY DEF Goroutines
<1>2. CASE RetrierStops
  <2>1. Holders' = Holders BY <1>1, <1>2, Keeps DEF RetrierStops, Holding
  <2>2. /\ at' \in [Goroutines -> Places] /\ panicked' \in BOOLEAN
        /\ stop' \in {"running", "cancelled", "waiting", "done"}
        /\ QueuesOutliveSenders' /\ Budgets'
    BY <1>1, <1>2, GoesOn DEF RetrierStops, Places
  <2>3. Types' BY <1>2, <2>2 DEF RetrierStops, Types
  <2>4. Balance' BY <1>2, <2>1 DEF RetrierStops, Balance
  <2>5. QED BY <2>2, <2>3, <2>4
<1>3. CASE RetrierTakes
  <2>1. Cardinality(Holders') = Cardinality(Holders) + 1
    BY <1>1, <1>3, Takes DEF RetrierTakes, Holding
  <2>2. /\ at' \in [Goroutines -> Places] /\ panicked' \in BOOLEAN
        /\ stop' \in {"running", "cancelled", "waiting", "done"}
        /\ QueuesOutliveSenders'
    BY <1>1, <1>3, GoesOn DEF RetrierTakes, Places
  <2>3. failure' = failure - 1 /\ failure' \in 0 .. Capacity
    BY <1>3 DEF RetrierTakes, Types
  <2>4. retryCount' \in 0 .. MaxRetries /\ retryCount' < MaxRetries
    BY <1>3 DEF RetrierTakes
  <2>5. Types' BY <1>3, <2>2, <2>3, <2>4 DEF RetrierTakes, Types
  <2>6. Balance'
    BY <1>3, <2>1, <2>3, HoldersFinite DEF RetrierTakes, Balance, Types
  <2>7. Budgets' BY <1>1, <1>3, <2>4 DEF RetrierTakes, Go, Types, Budgets
  <2>8. QED BY <2>2, <2>5, <2>6, <2>7
<1>4. ASSUME RetrierGivesUp \/ RetrierSends
             \/ (RetrierFails /\ retryCount' >= MaxRetries)
      PROVE  IInv'
  <2>1. /\ Go("retrier", "backoff", "select")
        /\ UNCHANGED <<stop, batch, success, failure>>
    BY <1>4 DEF RetrierGivesUp, RetrierSends, RetrierFails, AfterGivingUp, Types
  <2>2. retryCount' \in 0 .. MaxRetries
    BY <1>1, <1>4, <2>1 DEF RetrierGivesUp, RetrierSends, RetrierFails, Types, Budgets, Go
  <2>3. Cardinality(Holders') = Cardinality(Holders) - 1
    BY <1>1, <2>1, Passes DEF Holding
  <2>4. /\ tally' \in [made : 0 .. MaxMetrics, sent : Nat, dropped : Nat]
        /\ tally'.made = tally.made
        /\ tally'.sent + tally'.dropped = tally.sent + tally.dropped + 1
    <3>1. \/ tally' = [tally EXCEPT !.sent = @ + 1]
          \/ tally' = [tally EXCEPT !.dropped = @ + 1]
      BY <1>4 DEF RetrierGivesUp, RetrierSends, RetrierFails, Types
    <3>2. QED BY <3>1 DEF Types
  <2>5. /\ at' \in [Goroutines -> Places] /\ panicked' \in BOOLEAN
        /\ stop' \in {"running", "cancelled", "waiting", "done"}
        /\ QueuesOutliveSenders'
    BY <1>1, <2>1, GoesOn DEF Places
  <2>6. Types' BY <2>1, <2>2, <2>4, <2>5 DEF Types
  <2>7. Balance'
    <3>1. /\ tally.sent \in Nat /\ tally.dropped \in Nat /\ success \in Nat
          /\ failure \in Nat /\ tally'.sent \in Nat /\ tally'.dropped \in Nat
      BY <2>4 DEF Types
    <3>2. QED BY <2>1, <2>3, <2>4, <3>1, HoldersFinite DEF Balance
  <2>8. Budgets' BY <1>1, <2>1 DEF Go, Types, Budgets
  <2>9. QED BY <2>5, <2>6, <2>7, <2>8
<1>5. CASE RetrierFails /\ retryCount' < MaxRetries
  <2>1. /\ Go("retrier", "backoff", "backoff") /\ UNCHANGED tally
        /\ UNCHANGED <<stop, batch, success, failure>>
        /\ retryCount' \in 0 .. MaxRetries
    BY <1>5 DEF RetrierFails, Types
  <2>2. Holders' = Holders BY <1>1, <2>1, Keeps
  <2>3. /\ at' \in [Goroutines -> Places] /\ panicked' \in BOOLEAN
        /\ stop' \in {"running", "cancelled", "waiting", "done"}
        /\ QueuesOutliveSenders'
    BY <1>1, <2>1, GoesOn DEF Places
  <2>4. Types' BY <2>1, <2>3 DEF Types
  <2>5. Balance' BY <2>1, <2>2 DEF Balance
  <2>6. Budgets' BY <1>1, <1>5, <2>1 DEF Go, Types, Budgets
  <2>7. QED BY <2>3, <2>4, <2>5, <2>6
<1>6. RetrierFails => retryCount' < MaxRetries \/ retryCount' >= MaxRetries
  BY DEF RetrierFails, Types
<1>7. QED BY <1>2, <1>3, <1>4, <1>5, <1>6 DEF Retrier

\* Stop touches no metric, and closes the queues when their workers are gone.
LEMMA StopStep == IInv /\ (StopCancels \/ Stopping) => IInv'
  BY DEF StopCancels, Stopping, StopScheduler, StopCloses, StopFrom, AllStopped,
         queueVars, IInv, Types, Balance, Budgets, QueuesOutliveSenders, QueuesClosed,
         Holders

LEMMA NextInv == IInv /\ [Next]_vars => IInv'
<1>1. CASE Next
  BY <1>1, SchedulerStep, WorkerStep, SenderStep, RetrierStep, StopStep DEF Next
<1>2. ASSUME IInv, UNCHANGED vars PROVE IInv'
  BY <1>2 DEF vars, queueVars, IInv, Types, Balance, Budgets, QueuesOutliveSenders,
     QueuesClosed, Holders
<1>3. QED BY <1>1, <1>2

LEMMA Invariance == Spec => []IInv
  BY InitInv, NextInv, PTL DEF Spec

-----------------------------------------------------------------------------
\* Every variable has its type: no queue holds more than its capacity, and the
\* tally never exceeds the metrics made.
THEOREM CollectorTypes == Spec => []TypeOK
  BY Invariance, Meaning, PTL

\* No metric is lost or counted twice, with any number of workers and senders,
\* whenever the server fails and Stop is called.
THEOREM ConservationTheorem == Spec => []Conservation
  BY Invariance, Meaning, PTL

\* Stop closes the queues only when nobody is left who would send on FailureQueue
\* or take the zero value of a closed SuccessQueue for a metric.
THEOREM QueuesOutliveSendersTheorem == Spec => []QueuesOutliveSenders
<1>1. IInv => QueuesOutliveSenders BY DEF IInv
<1>2. QED BY <1>1, Invariance, PTL
=============================================================================
