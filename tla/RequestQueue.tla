---------------------------- MODULE RequestQueue ----------------------------
(***************************************************************************)
(* pkg/scheduler: the in-memory priority queue of outgoing HTTP requests   *)
(* and the reporter goroutines that drain it.                              *)
(*                                                                         *)
(* A caller of Post/Put/Patch/Delete offers an entry and then, without     *)
(* holding cond.L, signals.  A reporter takes the best entry under cond.L, *)
(* sends it when it is due, puts it back and sleeps one second when it is  *)
(* not, and after a failure offers it again (without a signal) with a later *)
(* due time until its retries are used up.                                 *)
(*                                                                         *)
(* An entry is in one place at a time, so its due time and remaining       *)
(* retries are kept per request; the queue and the reporters' hands hold   *)
(* the requests themselves.  Time is in whole seconds.                     *)
(***************************************************************************)
EXTENDS Integers, FiniteSets

CONSTANTS Requests,    \* the calls of Post, Put, Patch and Delete
          Reporters,   \* the goroutines started by StartReporters
          Capacity,    \* MaxQueueSize
          RetryLimit,
          Priority,    \* the priority each call passes (smaller is first)
          LastPost,    \* bound: no call is made after this second
          NoOne, Nothing

\* StartReporters runs HTTPThreads = 4 reporters; two are all that is needed.
ASSUME ReportersAssumption == \E r, s \in Reporters : r # s
ASSUME RequestsAssumption == IsFiniteSet(Requests) /\ Nothing \notin Requests
ASSUME NoOneAssumption == NoOne \notin Reporters
ASSUME NumbersAssumption == /\ Capacity \in Nat \ {0}
                            /\ RetryLimit \in Nat
                            /\ LastPost \in Nat
                            /\ Priority \in [Requests -> Nat]

VARIABLES
  queue,       \* the requests whose entry is in Rqueue.queue
  due, retry,  \* the fields of each request's entry
  signalling,  \* the callers between a successful Offer and cond.Signal
  mu,          \* who holds cond.L
  waiters,     \* cond's notify list
  pc,          \* where each reporter is in Run and query
  hand,        \* the entry each reporter has taken
  wakeAt,      \* when a sleeping reporter's time.Sleep ends
  now,         \* time.Now()
  counters,    \* the reporters' counters, summed over the reporters
  status,      \* what has become of each request (see Delivery)
  tries,       \* how often each request has been sent
  executed,    \* how often the server has executed each request
  posted       \* when each request was accepted

storeVars == <<queue, due, retry>>
callVars == <<signalling, posted>>
clockVars == <<now, wakeAt>>
fateVars == <<status, tries, executed, counters>>
vars == <<storeVars, callVars, mu, waiters, pc, hand, clockVars, fateVars>>

Statuses == {"idle", "pending", "delivered", "abandoned", "refused"}

\* All entries are due by then: the retries of a request posted at LastPost
\* are due 1, 3, 7, ... seconds later.
LastTime == LastPost + 2 ^ RetryLimit - 1

-----------------------------------------------------------------------------
Init ==
  /\ queue = {}
  /\ due = [q \in Requests |-> 0]
  /\ retry = [q \in Requests |-> RetryLimit]
  /\ signalling = {}
  /\ mu = NoOne
  /\ waiters = {}
  /\ pc = [r \in Reporters |-> "lock"]
  /\ hand = [r \in Reporters |-> Nothing]
  /\ wakeAt = [r \in Reporters |-> 0]
  /\ now = 0
  /\ counters = [success |-> 0, failure |-> 0, ignored |-> 0]
  /\ status = [q \in Requests |-> "idle"]
  /\ tries = [q \in Requests |-> 0]
  /\ executed = [q \in Requests |-> 0]
  /\ posted = [q \in Requests |-> 0]

\* Faulty variant of HasRoom: full one entry too early.
HasRoomTooEarly == Cardinality(queue) + 1 < Capacity

HasRoom == Cardinality(queue) < Capacity

\* lessFunc: smaller priority number first, the earlier due time among equals.
Less(p, q) == \/ Priority[p] < Priority[q]
              \/ Priority[p] = Priority[q] /\ due[p] < due[q]

\* What Get may return: the heap orders entries that are equal in any way.
Best == {q \in queue : \A p \in queue : ~Less(p, q)}

Go(r, from, to) == pc[r] = from /\ pc' = [pc EXCEPT ![r] = to]

-----------------------------------------------------------------------------
(* The callers. *)

\* Faulty variant of ToSignal: the caller forgets to signal.
ToSignalForgotten(q) == signalling

\* After a successful Offer the caller goes on to signal.
ToSignal(q) == signalling \union {q}

\* request(): every caller passes a zero due time, so the entry is due now.
Post(q) ==
  /\ status[q] = "idle" /\ now <= LastPost
  /\ HasRoom
  /\ queue' = queue \union {q}
  /\ due' = [due EXCEPT ![q] = now]
  /\ retry' = [retry EXCEPT ![q] = RetryLimit]
  /\ signalling' = ToSignal(q)
  /\ status' = [status EXCEPT ![q] = "pending"]
  /\ posted' = [posted EXCEPT ![q] = now]
  /\ UNCHANGED <<mu, waiters, pc, hand, clockVars, counters, tries, executed>>

\* The queue is full: the entry is dropped and nobody is woken.
PostRefused(q) ==
  /\ status[q] = "idle" /\ now <= LastPost
  /\ ~HasRoom
  /\ status' = [status EXCEPT ![q] = "refused"]
  /\ UNCHANGED <<storeVars, callVars, mu, waiters, pc, hand, clockVars>>
  /\ UNCHANGED <<counters, tries, executed>>

\* cond.Signal(): wakes one goroutine on the notify list, if there is one.
Signal(q) ==
  /\ q \in signalling
  /\ signalling' = signalling \ {q}
  /\ \/ waiters = {} /\ UNCHANGED waiters
     \/ \E r \in waiters : waiters' = waiters \ {r}
  /\ UNCHANGED <<storeVars, posted, mu, pc, hand, clockVars, fateVars>>

-----------------------------------------------------------------------------
(* The reporters: Run. *)

\* Faulty variant of MutexFree: no mutual exclusion.
MutexIgnored == TRUE

MutexFree == mu = NoOne

\* Faulty variant of Without: the entry is peeked at and stays in the queue.
WithoutTaking(q) == queue

Without(q) == queue \ {q}

Lock(r) ==
  /\ Go(r, "lock", "size")
  /\ MutexFree /\ mu' = r
  /\ UNCHANGED <<storeVars, callVars, waiters, hand, clockVars, fateVars>>

Size(r) ==
  /\ Go(r, "size", IF queue = {} THEN "wait" ELSE "get")
  /\ UNCHANGED <<storeVars, callVars, mu, waiters, hand, clockVars, fateVars>>

\* The first half of cond.Wait(): join the notify list, release cond.L, park.
Wait(r) ==
  /\ Go(r, "wait", "parked")
  /\ waiters' = waiters \union {r}
  /\ mu' = NoOne
  /\ UNCHANGED <<storeVars, callVars, hand, clockVars, fateVars>>

\* The second half: signalled, take cond.L again and re-check the size.
Wake(r) ==
  /\ Go(r, "parked", "size")
  /\ r \notin waiters
  /\ MutexFree /\ mu' = r
  /\ UNCHANGED <<storeVars, callVars, waiters, hand, clockVars, fateVars>>

\* Get's error branch is left out: GetFindsEntry says that it is never taken.
Get(r) ==
  /\ Go(r, "get", "dispatch")
  /\ \E q \in Best : /\ queue' = Without(q)
                     /\ hand' = [hand EXCEPT ![r] = q]
  /\ mu' = NoOne
  /\ UNCHANGED <<due, retry, callVars, waiters, clockVars, fateVars>>

\* The shared end of the two places that offer an entry again, neither of
\* which signals: a full queue drops the entry and counts it as ignored.
OfferAgain(q) ==
  \/ /\ HasRoom
     /\ queue' = queue \union {q}
     /\ UNCHANGED status
  \/ /\ ~HasRoom
     /\ status' = [status EXCEPT ![q] = "abandoned"]
     /\ UNCHANGED queue

Ignored == IF HasRoom THEN counters.ignored ELSE counters.ignored + 1

\* The entry is not due yet: put it back and sleep for a second.
Defer(r) ==
  /\ Go(r, "dispatch", "sleep")
  /\ due[hand[r]] > now
  /\ OfferAgain(hand[r])
  /\ counters' = [counters EXCEPT !.ignored = Ignored]
  /\ hand' = [hand EXCEPT ![r] = Nothing]
  /\ wakeAt' = [wakeAt EXCEPT ![r] = now + 1]
  /\ UNCHANGED <<due, retry, callVars, mu, waiters, now, tries, executed>>

EndSleep(r) ==
  /\ Go(r, "sleep", "lock")
  /\ now >= wakeAt[r]
  /\ wakeAt' = [wakeAt EXCEPT ![r] = 0]
  /\ UNCHANGED <<storeVars, callVars, mu, waiters, hand, now, fateVars>>

-----------------------------------------------------------------------------
(* The reporters: query. *)

Send(r) ==
  /\ Go(r, "dispatch", "query")
  /\ due[hand[r]] <= now
  /\ tries' = [tries EXCEPT ![hand[r]] = @ + 1]
  /\ UNCHANGED <<storeVars, callVars, mu, waiters, hand, clockVars>>
  /\ UNCHANGED <<counters, status, executed>>

\* The server executes the request that is in flight.
ServerExecutes(r) ==
  /\ Go(r, "query", "reply")
  /\ executed' = [executed EXCEPT ![hand[r]] = @ + 1]
  /\ UNCHANGED <<storeVars, callVars, mu, waiters, hand, clockVars>>
  /\ UNCHANGED <<counters, status, tries>>

\* A 2xx answer arrives in time.
Succeed(r) ==
  /\ Go(r, "reply", "lock")
  /\ status' = [status EXCEPT ![hand[r]] = "delivered"]
  /\ counters' = [counters EXCEPT !.success = @ + 1]
  /\ hand' = [hand EXCEPT ![r] = Nothing]
  /\ UNCHANGED <<storeVars, callVars, mu, waiters, clockVars, tries, executed>>

\* Faulty variant of CanRetry: one retry too many.
CanRetryOffByOne(q) == retry[q] >= 0

CanRetry(q) == retry[q] > 0

\* Faulty variant of RetriesLeft: the retry is not paid for.
RetriesLeftForFree(q) == retry[q]

RetriesLeft(q) == retry[q] - 1

\* Faulty variant of NextDue: the backoff starts from the present.
NextDueFromNow(q) == now + 2 ^ (RetryLimit - retry[q])

\* The backoff starts from the due time of the try that failed, not from now.
NextDue(q) == due[q] + 2 ^ (RetryLimit - retry[q])

\* An error, a timeout (whether the server executed the request or not) or an
\* answer that is not 2xx, with retries left.
Retry(r) ==
  LET q == hand[r] IN
  /\ \E at \in {"query", "reply"} : Go(r, at, "lock")
  /\ CanRetry(q)
  /\ due' = [due EXCEPT ![q] = NextDue(q)]
  /\ retry' = [retry EXCEPT ![q] = RetriesLeft(q)]
  /\ OfferAgain(q)
  /\ counters' = [counters EXCEPT !.failure = @ + 1, !.ignored = Ignored]
  /\ hand' = [hand EXCEPT ![r] = Nothing]
  /\ UNCHANGED <<callVars, mu, waiters, clockVars, tries, executed>>

\* The same with no retry left.
Exhaust(r) ==
  /\ \E at \in {"query", "reply"} : Go(r, at, "lock")
  /\ retry[hand[r]] = 0
  /\ status' = [status EXCEPT ![hand[r]] = "abandoned"]
  /\ counters' = [counters EXCEPT !.failure = @ + 1, !.ignored = @ + 1]
  /\ hand' = [hand EXCEPT ![r] = Nothing]
  /\ UNCHANGED <<storeVars, callVars, mu, waiters, clockVars, tries, executed>>

-----------------------------------------------------------------------------
Tick ==
  /\ now < LastTime
  /\ now' = now + 1
  /\ UNCHANGED <<storeVars, callVars, mu, waiters, pc, hand, wakeAt, fateVars>>

Caller(q) == Post(q) \/ PostRefused(q) \/ Signal(q)
Run(r) == \/ Lock(r) \/ Size(r) \/ Wait(r) \/ Wake(r) \/ Get(r)
          \/ Defer(r) \/ EndSleep(r)
Query(r) == Send(r) \/ Succeed(r) \/ Retry(r) \/ Exhaust(r)

Next == \/ \E q \in Requests : Caller(q)
        \/ \E r \in Reporters : Run(r) \/ Query(r) \/ ServerExecutes(r)
        \/ Tick

Spec == Init /\ [][Next]_vars

\* Goroutines that can run are run, a call that has offered goes on to signal,
\* a request is answered or times out after 5 seconds, and time passes.  Nothing
\* makes anybody post or the server execute a request.
LiveSpec == /\ Spec
            /\ WF_vars(\E q \in Requests : Signal(q))
            /\ \A r \in Reporters : WF_pc(Run(r) \/ Query(r))
            /\ WF_now(Tick)

-----------------------------------------------------------------------------
(* Properties. *)

\* Every variable has its type.
TypeOK ==
  /\ queue \subseteq Requests
  /\ due \in [Requests -> Int]
  /\ retry \in [Requests -> 0 .. RetryLimit]
  /\ signalling \subseteq Requests
  /\ mu \in Reporters \union {NoOne}
  /\ waiters \subseteq Reporters
  /\ pc \in [Reporters -> {"lock", "size", "wait", "parked", "get", "dispatch",
                           "query", "reply", "sleep"}]
  /\ hand \in [Reporters -> Requests \union {Nothing}]
  /\ wakeAt \in [Reporters -> Nat]
  /\ now \in Nat
  /\ counters \in [success : Nat, failure : Nat, ignored : Nat]
  /\ status \in [Requests -> Statuses]
  /\ tries \in [Requests -> 0 .. RetryLimit + 1]
  /\ executed \in [Requests -> Nat]
  /\ posted \in [Requests -> Nat]

\* An accepted request that is neither delivered nor given up is in exactly one
\* place, the queue or the hand of one reporter, and any other request is in
\* none: taking, putting back, retrying and dropping entries neither loses nor
\* duplicates one (Get, Offer and the counters of Run and query).
Custody ==
  /\ \A q \in Requests :
       status[q] = "pending" <=> q \in queue \/ \E r \in Reporters : hand[r] = q
  /\ \A r \in Reporters : hand[r] \notin queue
  /\ \A r, s \in Reporters : hand[r] = hand[s] /\ hand[r] # Nothing => r = s

\* A reporter that has seen a size other than zero finds an entry: entries are
\* taken under cond.L only, so the error branch of Get in Run is never taken
\* and the reporter never goes on with an empty entry.
GetFindsEntry == \A r \in Reporters : pc[r] = "get" => queue # {}

Asleep(r) == pc[r] = "wait" \/ (pc[r] = "parked" /\ r \in waiters)

\* There is no lost wake-up: Signal is called without cond.L and may fall
\* between a reporter's size check and its joining the notify list, and the
\* entries of retries are offered with no signal at all; still, while the queue
\* holds an entry a signal is on its way or some reporter is up and will look.
NoStrandedEntry ==
  queue # {} => signalling # {} \/ \E r \in Reporters : ~Asleep(r)

InFlight(q) == \E r \in Reporters : hand[r] = q /\ pc[r] \in {"query", "reply"}

\* The retries left and the tries made add up, wherever the entry is: no failed
\* try is retried for free (a deferred entry uses up none) and none is paid for
\* twice, so a request is sent at most RetryLimit + 1 times.
RetryBudget ==
  \A q \in Requests :
    status[q] = "pending" =>
      tries[q] = RetryLimit - retry[q] + (IF InFlight(q) THEN 1 ELSE 0)

\* The k-th retry is due 2^k - 1 seconds after the request was accepted, however
\* often it was deferred and however long the tries before it took, so that an
\* entry is due by LastTime whatever happens.
BackoffSchedule ==
  \A q \in Requests :
    status[q] = "pending" => due[q] = posted[q] + 2 ^ (RetryLimit - retry[q]) - 1

\* The counters tell what happened: one success for each request delivered, and
\* one ignored for each accepted request that was lost; refused ones are in none.
CountersAgree ==
  /\ counters.success = Cardinality({q \in Requests : status[q] = "delivered"})
  /\ counters.ignored = Cardinality({q \in Requests : status[q] = "abandoned"})

\* What the proofs need besides (RequestQueueProofs): cond.L is held exactly
\* between Lock or the end of Wait and the Unlock that follows, a goroutine on
\* the notify list is parked, an entry is in a hand exactly while it is handled,
\* a first try is due at once, and the server executes a try at most once.
Bookkeeping ==
  /\ \A r \in Reporters : pc[r] \in {"size", "wait", "get"} <=> mu = r
  /\ \A r \in waiters : pc[r] = "parked"
  /\ \A r \in Reporters :
       hand[r] # Nothing <=> pc[r] \in {"dispatch", "query", "reply"}
  /\ \A q \in Requests :
       /\ status[q] = "idle" => tries[q] = 0
       /\ status[q] = "pending" /\ retry[q] = RetryLimit => due[q] <= now
       /\ executed[q] <= tries[q]
  /\ \A r \in Reporters :
       /\ pc[r] = "query" => executed[hand[r]] < tries[hand[r]]
       /\ pc[r] = "reply" => executed[hand[r]] > 0

\* The queue keeps the promises of Delivery.
Promise == INSTANCE Delivery WITH status <- status, tries <- tries,
                                  executed <- executed
DeliverySpec == Promise!Spec

\* Every accepted request is delivered or given up in the end, whatever the
\* reporters sleep on and however the entries that are not due yet get in the
\* way of those that are.  (Each call is made once at most, so that from some
\* time on none is pending.)
AllSettle == <>[](\A q \in Requests : status[q] # "pending")
=============================================================================
