------------------------- MODULE RequestQueueProofs -------------------------
(***************************************************************************)
(* Proofs about RequestQueue, for any number of requests, any two or more  *)
(* reporters, and any capacity, retry limit and priorities.                *)
(*                                                                         *)
(* The invariants need each other: that no entry is stranded rests on the  *)
(* mutual exclusion of cond.L, that the budget of tries is kept on every   *)
(* entry being in one place only.  IInv is their conjunction with the      *)
(* bookkeeping that makes it inductive; each action has its lemma.         *)
(***************************************************************************)
EXTENDS RequestQueue, FiniteSetTheorems, TLAPS

IInv == /\ TypeOK
        /\ Custody
        /\ GetFindsEntry
        /\ NoStrandedEntry
        /\ RetryBudget
        /\ Bookkeeping

\* Setting two of the counters keeps their type.
LEMMA CountersType ==
  ASSUME NEW c \in [success : Nat, failure : Nat, ignored : Nat],
         NEW f \in Nat, NEW i \in Nat
  PROVE  [c EXCEPT !.failure = f, !.ignored = i]
           \in [success : Nat, failure : Nat, ignored : Nat]
  OBVIOUS

\* The initial states: nothing is queued and every reporter is about to lock.
LEMMA InitInv == Init => IInv
  BY ReportersAssumption, RequestsAssumption, NoOneAssumption, NumbersAssumption
     DEF Init, IInv, TypeOK, Custody, GetFindsEntry, NoStrandedEntry,
         RetryBudget, Bookkeeping, Statuses, Asleep

\* A new entry is under nobody's hand, and its caller will signal.
LEMMA PostInv ==
  ASSUME IInv, NEW q \in Requests, Post(q) PROVE IInv'
<1>1. TypeOK'
  BY NumbersAssumption DEF IInv, TypeOK, Statuses, clockVars, Post, ToSignal
<1>2. Custody'
  BY DEF IInv, TypeOK, Custody, Post
<1>3. GetFindsEntry'
  BY DEF IInv, GetFindsEntry, Post
<1>4. NoStrandedEntry'
  BY DEF IInv, NoStrandedEntry, Post, ToSignal
<1>5. RetryBudget'
  BY NumbersAssumption DEF IInv, TypeOK, Bookkeeping, RetryBudget, InFlight,
     Post
<1>6. Bookkeeping'
  BY DEF IInv, TypeOK, Bookkeeping, clockVars, Post
<1> QED
  BY <1>1, <1>2, <1>3, <1>4, <1>5, <1>6 DEF IInv

\* Only the verdict of a request that was idle changes.
LEMMA PostRefusedInv ==
  ASSUME IInv, NEW q \in Requests, PostRefused(q) PROVE IInv'
<1>1. TypeOK'
  BY DEF IInv, TypeOK, Statuses, callVars, storeVars, clockVars, PostRefused
<1>2. Custody'
  BY DEF IInv, Custody, storeVars, PostRefused
<1>3. GetFindsEntry'
  BY DEF IInv, GetFindsEntry, storeVars, PostRefused
<1>4. NoStrandedEntry'
  BY DEF IInv, NoStrandedEntry, Asleep, callVars, storeVars, PostRefused
<1>5. RetryBudget'
  BY DEF IInv, RetryBudget, InFlight, storeVars, PostRefused
<1>6. Bookkeeping'
  BY DEF IInv, Bookkeeping, storeVars, clockVars, PostRefused
<1> QED
  BY <1>1, <1>2, <1>3, <1>4, <1>5, <1>6 DEF IInv

\* If nobody is on the notify list when the signal comes, one of two reporters
\* is up: only the holder of cond.L can be on its way to the list.
LEMMA SignalInv ==
  ASSUME IInv, NEW q \in Requests, Signal(q) PROVE IInv'
<1>1. TypeOK'
  BY DEF IInv, TypeOK, storeVars, clockVars, fateVars, Signal
<1>2. Custody'
  BY DEF IInv, Custody, storeVars, fateVars, Signal
<1>3. GetFindsEntry'
  BY DEF IInv, GetFindsEntry, storeVars, Signal
<1>4. NoStrandedEntry'
  BY ReportersAssumption DEF IInv, TypeOK, Bookkeeping, NoStrandedEntry,
     Asleep, Signal
<1>5. RetryBudget'
  BY DEF IInv, RetryBudget, InFlight, storeVars, fateVars, Signal
<1>6. Bookkeeping'
  BY DEF IInv, Bookkeeping, storeVars, clockVars, fateVars, Signal
<1> QED
  BY <1>1, <1>2, <1>3, <1>4, <1>5, <1>6 DEF IInv

\* The reporter that takes cond.L is the only one that holds it.
LEMMA LockInv ==
  ASSUME IInv, NEW r \in Reporters, Lock(r) PROVE IInv'
<1>1. TypeOK'
  BY DEF IInv, TypeOK, callVars, storeVars, clockVars, fateVars, Go, Lock
<1>2. Custody'
  BY DEF IInv, Custody, storeVars, fateVars, Lock
<1>3. GetFindsEntry'
  BY DEF IInv, GetFindsEntry, storeVars, Go, Lock
<1>4. NoStrandedEntry'
  BY DEF IInv, NoStrandedEntry, Asleep, Go, Lock
<1>5. RetryBudget'
  BY DEF IInv, RetryBudget, InFlight, storeVars, fateVars, Go, Lock
<1>6. Bookkeeping'
  BY NoOneAssumption DEF IInv, TypeOK, Bookkeeping, storeVars, clockVars,
     fateVars, Go, Lock, MutexFree
<1> QED
  BY <1>1, <1>2, <1>3, <1>4, <1>5, <1>6 DEF IInv

\* A reporter turns to wait only when the queue is empty.
LEMMA SizeInv ==
  ASSUME IInv, NEW r \in Reporters, Size(r) PROVE IInv'
<1>1. TypeOK'
  BY DEF IInv, TypeOK, callVars, storeVars, clockVars, fateVars, Go, Size
<1>2. Custody'
  BY DEF IInv, Custody, storeVars, fateVars, Size
<1>3. GetFindsEntry'
  BY DEF IInv, GetFindsEntry, storeVars, Go, Size
<1>4. NoStrandedEntry'
  BY DEF IInv, NoStrandedEntry, Asleep, storeVars, Go, Size
<1>5. RetryBudget'
  BY DEF IInv, RetryBudget, InFlight, storeVars, fateVars, Go, Size
<1>6. Bookkeeping'
  BY DEF IInv, Bookkeeping, storeVars, clockVars, fateVars, Go, Size
<1> QED
  BY <1>1, <1>2, <1>3, <1>4, <1>5, <1>6 DEF IInv

\* The reporter was counted as asleep before it joined the list.
LEMMA WaitInv ==
  ASSUME IInv, NEW r \in Reporters, Wait(r) PROVE IInv'
<1>1. TypeOK'
  BY DEF IInv, TypeOK, callVars, storeVars, clockVars, fateVars, Go, Wait
<1>2. Custody'
  BY DEF IInv, Custody, storeVars, fateVars, Wait
<1>3. GetFindsEntry'
  BY DEF IInv, GetFindsEntry, storeVars, Go, Wait
<1>4. NoStrandedEntry'
  BY DEF IInv, NoStrandedEntry, Asleep, callVars, storeVars, Go, Wait
<1>5. RetryBudget'
  BY DEF IInv, RetryBudget, InFlight, storeVars, fateVars, Go, Wait
<1>6. Bookkeeping'
  BY NoOneAssumption DEF IInv, TypeOK, Bookkeeping, storeVars, clockVars,
     fateVars, Go, Wait
<1> QED
  BY <1>1, <1>2, <1>3, <1>4, <1>5, <1>6 DEF IInv

\* The reporter is no longer on the list and takes cond.L as in Lock.
LEMMA WakeInv ==
  ASSUME IInv, NEW r \in Reporters, Wake(r) PROVE IInv'
<1>1. TypeOK'
  BY DEF IInv, TypeOK, callVars, storeVars, clockVars, fateVars, Go, Wake
<1>2. Custody'
  BY DEF IInv, Custody, storeVars, fateVars, Wake
<1>3. GetFindsEntry'
  BY DEF IInv, GetFindsEntry, storeVars, Go, Wake
<1>4. NoStrandedEntry'
  BY DEF IInv, NoStrandedEntry, Asleep, Go, Wake
<1>5. RetryBudget'
  BY DEF IInv, RetryBudget, InFlight, storeVars, fateVars, Go, Wake
<1>6. Bookkeeping'
  BY NoOneAssumption DEF IInv, TypeOK, Bookkeeping, storeVars, clockVars,
     fateVars, Go, Wake, MutexFree
<1> QED
  BY <1>1, <1>2, <1>3, <1>4, <1>5, <1>6 DEF IInv

\* The entry moves from the queue to a hand; the reporter is up.
LEMMA GetInv ==
  ASSUME IInv, NEW r \in Reporters, Get(r) PROVE IInv'
<1>1. TypeOK'
  BY DEF IInv, TypeOK, callVars, clockVars, fateVars, Go, Get, Without, Best
<1>2. Custody'
  BY RequestsAssumption DEF IInv, TypeOK, Custody, Bookkeeping, fateVars, Go,
     Get, Without, Best
<1>3. GetFindsEntry'
  BY DEF IInv, TypeOK, GetFindsEntry, Bookkeeping, Go, Get
<1>4. NoStrandedEntry'
  BY DEF IInv, NoStrandedEntry, Asleep, Go, Get
<1>5. RetryBudget'
  BY DEF IInv, RetryBudget, InFlight, fateVars, Go, Get
<1>6. Bookkeeping'
  BY NoOneAssumption DEF IInv, TypeOK, Custody, Bookkeeping, clockVars,
     fateVars, Go, Get, Best
<1> QED
  BY <1>1, <1>2, <1>3, <1>4, <1>5, <1>6 DEF IInv

\* The reporter that puts an entry back is up: it sleeps, then looks again.
LEMMA DeferInv ==
  ASSUME IInv, NEW r \in Reporters, Defer(r) PROVE IInv'
<1>1. TypeOK'
  BY DEF IInv, TypeOK, Bookkeeping, Statuses, callVars, Go, Defer, OfferAgain,
     Ignored
<1>2. Custody'
  BY RequestsAssumption DEF IInv, TypeOK, Custody, Bookkeeping, Go, Defer,
     OfferAgain
<1>3. GetFindsEntry'
  BY DEF IInv, GetFindsEntry, Go, Defer, OfferAgain
<1>4. NoStrandedEntry'
  BY DEF IInv, NoStrandedEntry, Asleep, Go, Defer
<1>5. RetryBudget'
  BY DEF IInv, TypeOK, RetryBudget, InFlight, Go, Defer, OfferAgain
<1>6. Bookkeeping'
  BY DEF IInv, TypeOK, Bookkeeping, Go, Defer, OfferAgain
<1> QED
  BY <1>1, <1>2, <1>3, <1>4, <1>5, <1>6 DEF IInv

\* A sleeper goes back to lock cond.L and stays up.
LEMMA EndSleepInv ==
  ASSUME IInv, NEW r \in Reporters, EndSleep(r) PROVE IInv'
<1>1. TypeOK'
  BY DEF IInv, TypeOK, callVars, storeVars, fateVars, Go, EndSleep
<1>2. Custody'
  BY DEF IInv, Custody, storeVars, fateVars, EndSleep
<1>3. GetFindsEntry'
  BY DEF IInv, GetFindsEntry, storeVars, Go, EndSleep
<1>4. NoStrandedEntry'
  BY DEF IInv, NoStrandedEntry, Asleep, Go, EndSleep
<1>5. RetryBudget'
  BY DEF IInv, RetryBudget, InFlight, storeVars, fateVars, Go, EndSleep
<1>6. Bookkeeping'
  BY DEF IInv, Bookkeeping, storeVars, fateVars, Go, EndSleep
<1> QED
  BY <1>1, <1>2, <1>3, <1>4, <1>5, <1>6 DEF IInv

\* The entry is in this hand only, so no other try of it is in flight.
LEMMA SendInv ==
  ASSUME IInv, NEW r \in Reporters, Send(r) PROVE IInv'
<1>1. TypeOK'
  BY NumbersAssumption DEF IInv, TypeOK, Custody, Bookkeeping, RetryBudget,
     InFlight, callVars, storeVars, clockVars, Go, Send
<1>2. Custody'
  BY DEF IInv, Custody, storeVars, Send
<1>3. GetFindsEntry'
  BY DEF IInv, GetFindsEntry, storeVars, Go, Send
<1>4. NoStrandedEntry'
  BY DEF IInv, NoStrandedEntry, Asleep, Go, Send
<1>5. RetryBudget'
  BY NumbersAssumption DEF IInv, TypeOK, Custody, Bookkeeping, RetryBudget,
     InFlight, storeVars, Go, Send
<1>6. Bookkeeping'
  BY DEF IInv, TypeOK, Custody, Bookkeeping, storeVars, clockVars, Go, Send
<1> QED
  BY <1>1, <1>2, <1>3, <1>4, <1>5, <1>6 DEF IInv

\* A try that is in flight is executed at most once.
LEMMA ServerExecutesInv ==
  ASSUME IInv, NEW r \in Reporters, ServerExecutes(r) PROVE IInv'
<1>1. TypeOK'
  BY DEF IInv, TypeOK, Bookkeeping, callVars, storeVars, clockVars, Go,
     ServerExecutes
<1>2. Custody'
  BY DEF IInv, Custody, storeVars, ServerExecutes
<1>3. GetFindsEntry'
  BY DEF IInv, GetFindsEntry, storeVars, Go, ServerExecutes
<1>4. NoStrandedEntry'
  BY DEF IInv, NoStrandedEntry, Asleep, Go, ServerExecutes
<1>5. RetryBudget'
  BY DEF IInv, RetryBudget, InFlight, storeVars, Go, ServerExecutes
<1>6. Bookkeeping'
  BY DEF IInv, TypeOK, Custody, Bookkeeping, storeVars, clockVars, Go,
     ServerExecutes
<1> QED
  BY <1>1, <1>2, <1>3, <1>4, <1>5, <1>6 DEF IInv

\* The hand is emptied and its request is settled.
LEMMA SucceedInv ==
  ASSUME IInv, NEW r \in Reporters, Succeed(r) PROVE IInv'
<1>1. TypeOK'
  BY DEF IInv, TypeOK, Bookkeeping, Statuses, callVars, storeVars, clockVars,
     Go, Succeed
<1>2. Custody'
  BY RequestsAssumption DEF IInv, TypeOK, Custody, storeVars, Succeed
<1>3. GetFindsEntry'
  BY DEF IInv, GetFindsEntry, storeVars, Go, Succeed
<1>4. NoStrandedEntry'
  BY DEF IInv, NoStrandedEntry, Asleep, Go, Succeed
<1>5. RetryBudget'
  BY DEF IInv, TypeOK, RetryBudget, InFlight, storeVars, Go, Succeed
<1>6. Bookkeeping'
  BY DEF IInv, TypeOK, Bookkeeping, storeVars, clockVars, Go, Succeed
<1> QED
  BY <1>1, <1>2, <1>3, <1>4, <1>5, <1>6 DEF IInv

\* The reporter that offers the entry again goes on to lock cond.L.
LEMMA RetryInv ==
  ASSUME IInv, NEW r \in Reporters, Retry(r) PROVE IInv'
<1>1. TypeOK'
  <2>1. /\ retry[hand[r]] - 1 \in 0 .. RetryLimit
        /\ RetryLimit - retry[hand[r]] \in Nat
    BY NumbersAssumption DEF IInv, TypeOK, Bookkeeping, Go,
       Retry, CanRetry
  <2>2. 2 ^ (RetryLimit - retry[hand[r]]) \in Int
    BY <2>1
  <2>3. due' \in [Requests -> Int] /\ retry' \in [Requests -> 0 .. RetryLimit]
    BY <2>1, <2>2 DEF IInv, TypeOK, Bookkeeping, Go, Retry, RetriesLeft,
       NextDue
  <2>4. counters' \in [success : Nat, failure : Nat, ignored : Nat]
    <3>1. /\ counters.failure + 1 \in Nat
          /\ (IF HasRoom THEN counters.ignored ELSE counters.ignored + 1) \in Nat
      BY DEF IInv, TypeOK
    <3> QED
      BY <3>1, CountersType DEF IInv, TypeOK, Retry, Ignored
  <2>5. queue' \subseteq Requests /\ status' \in [Requests -> Statuses]
    BY DEF IInv, TypeOK, Bookkeeping, Statuses, Go, Retry, OfferAgain
  <2> QED
    BY <2>3, <2>4, <2>5 DEF IInv, TypeOK, Go, Retry, callVars, clockVars
<1>2. Custody'
  BY RequestsAssumption DEF IInv, TypeOK, Custody, Bookkeeping, Go, Retry,
     OfferAgain
<1>3. GetFindsEntry'
  BY DEF IInv, GetFindsEntry, Go, Retry, OfferAgain
<1>4. NoStrandedEntry'
  BY DEF IInv, NoStrandedEntry, Asleep, Go, Retry
<1>5. RetryBudget'
  BY NumbersAssumption DEF IInv, TypeOK, Custody, Bookkeeping, RetryBudget,
     InFlight, Go, Retry, OfferAgain, CanRetry, RetriesLeft
<1>6. Bookkeeping'
  BY DEF IInv, TypeOK, Bookkeeping, clockVars, Go, Retry, OfferAgain,
     RetriesLeft
<1> QED
  BY <1>1, <1>2, <1>3, <1>4, <1>5, <1>6 DEF IInv

\* The hand is emptied and its request is given up, with no retry left.
LEMMA ExhaustInv ==
  ASSUME IInv, NEW r \in Reporters, Exhaust(r) PROVE IInv'
<1>1. TypeOK'
  <2>1. counters' \in [success : Nat, failure : Nat, ignored : Nat]
    <3>1. counters.failure + 1 \in Nat /\ counters.ignored + 1 \in Nat
      BY DEF IInv, TypeOK
    <3> QED
      BY <3>1, CountersType DEF IInv, TypeOK, Exhaust
  <2>2. status' \in [Requests -> Statuses]
    BY DEF IInv, TypeOK, Statuses, Exhaust
  <2> QED
    BY <2>1, <2>2 DEF IInv, TypeOK, Go, Exhaust, callVars, storeVars,
       clockVars
<1>2. Custody'
  BY RequestsAssumption DEF IInv, TypeOK, Custody, storeVars, Exhaust
<1>3. GetFindsEntry'
  BY DEF IInv, GetFindsEntry, storeVars, Go, Exhaust
<1>4. NoStrandedEntry'
  BY DEF IInv, NoStrandedEntry, Asleep, Go, Exhaust
<1>5. RetryBudget'
  BY DEF IInv, TypeOK, RetryBudget, InFlight, storeVars, Go, Exhaust
<1>6. Bookkeeping'
  BY DEF IInv, TypeOK, Bookkeeping, storeVars, clockVars, Go, Exhaust
<1> QED
  BY <1>1, <1>2, <1>3, <1>4, <1>5, <1>6 DEF IInv

\* Time only grows, so what was due stays due.
LEMMA TickInv ==
  ASSUME IInv, Tick PROVE IInv'
<1>1. TypeOK'
  BY DEF IInv, TypeOK, callVars, storeVars, fateVars, Tick
<1>2. Custody'
  BY DEF IInv, Custody, storeVars, fateVars, Tick
<1>3. GetFindsEntry'
  BY DEF IInv, GetFindsEntry, storeVars, Tick
<1>4. NoStrandedEntry'
  BY DEF IInv, NoStrandedEntry, Asleep, callVars, storeVars, Tick
<1>5. RetryBudget'
  BY DEF IInv, RetryBudget, InFlight, storeVars, fateVars, Tick
<1>6. Bookkeeping'
  BY DEF IInv, TypeOK, Bookkeeping, storeVars, fateVars, Tick
<1> QED
  BY <1>1, <1>2, <1>3, <1>4, <1>5, <1>6 DEF IInv

\* A step that changes none of the variables.
LEMMA StutterInv == ASSUME IInv, UNCHANGED vars PROVE IInv'
  BY DEF IInv, TypeOK, Custody, GetFindsEntry, NoStrandedEntry, RetryBudget,
         Bookkeeping, InFlight, Asleep, vars, callVars, storeVars,
         clockVars, fateVars

\* Every step keeps the inductive invariant.
LEMMA NextInv == IInv /\ [Next]_vars => IInv'
<1> SUFFICES ASSUME IInv, [Next]_vars PROVE IInv'
  OBVIOUS
<1>1. ASSUME NEW q \in Requests, Caller(q) PROVE IInv'
  BY <1>1, PostInv, PostRefusedInv, SignalInv DEF Caller
<1>2. ASSUME NEW r \in Reporters, Run(r) PROVE IInv'
  BY <1>2, LockInv, SizeInv, WaitInv, WakeInv, GetInv, DeferInv, EndSleepInv DEF Run
<1>3. ASSUME NEW r \in Reporters, Query(r) \/ ServerExecutes(r) PROVE IInv'
  BY <1>3, SendInv, SucceedInv, RetryInv, ExhaustInv, ServerExecutesInv DEF Query
<1>4. CASE Tick
  BY <1>4, TickInv
<1>5. CASE UNCHANGED vars
  BY <1>5, StutterInv
<1> QED
  BY <1>1, <1>2, <1>3, <1>4, <1>5 DEF Next

\* IInv holds in every reachable state.
LEMMA Invariance == Spec => []IInv
  BY InitInv, NextInv, PTL DEF Spec

-----------------------------------------------------------------------------
\* Every variable keeps its type.
THEOREM TypeCorrectness == Spec => []TypeOK
<1>1. IInv => TypeOK
  BY DEF IInv
<1> QED
  BY <1>1, Invariance, PTL

\* No accepted request is lost, duplicated or forgotten between the queue and
\* the reporters (Run and query).
THEOREM CustodyTheorem == Spec => []Custody
<1>1. IInv => Custody
  BY DEF IInv
<1> QED
  BY <1>1, Invariance, PTL

\* The error branch of Get in Run is dead.
THEOREM GetFindsEntryTheorem == Spec => []GetFindsEntry
<1>1. IInv => GetFindsEntry
  BY DEF IInv
<1> QED
  BY <1>1, Invariance, PTL

\* Signalling without the lock, and offering a retry without a signal, never
\* leaves an entry in the queue with every reporter asleep.
THEOREM NoLostWakeup == Spec => []NoStrandedEntry
<1>1. IInv => NoStrandedEntry
  BY DEF IInv
<1> QED
  BY <1>1, Invariance, PTL

\* A request is sent at most RetryLimit + 1 times, and retries and tries add up.
THEOREM RetryBudgetTheorem == Spec => []RetryBudget
<1>1. IInv => RetryBudget
  BY DEF IInv
<1> QED
  BY <1>1, Invariance, PTL
-----------------------------------------------------------------------------
(* The backoff. *)

\* The library has no law of exponents but that a set of n elements has 2 ^ n
\* subsets: one more element doubles them.
LEMMA PowerOfSubsets ==
  ASSUME NEW n \in Nat
  PROVE  /\ IsFiniteSet(SUBSET (1 .. n))
         /\ Cardinality(SUBSET (1 .. n)) = 2 ^ n
         /\ 2 ^ n \in Nat
<1>1. IsFiniteSet(1 .. n) /\ Cardinality(1 .. n) = n
  BY FS_Interval
<1>2. IsFiniteSet(SUBSET (1 .. n)) /\ Cardinality(SUBSET (1 .. n)) = 2 ^ Cardinality(1 .. n)
  BY <1>1, FS_SUBSET
<1>3. Cardinality(SUBSET (1 .. n)) \in Nat
  BY <1>2, FS_CardinalityType
<1> QED
  BY <1>1, <1>2, <1>3

LEMMA PowerDoubles ==
  ASSUME NEW n \in Nat
  PROVE  2 ^ (n + 1) = 2 ^ n + 2 ^ n
<1> DEFINE S == 1 .. n
           x == n + 1
           f == [U \in SUBSET S |-> U \union {x}]
           T == {U \union {x} : U \in SUBSET S}
<1>1. x \notin S /\ 1 .. (n + 1) = S \union {x}
  OBVIOUS
<1>2. f \in Bijection(SUBSET S, T)
  <2>1. f \in [SUBSET S -> T]
    OBVIOUS
  <2>2. ASSUME NEW U \in SUBSET S, NEW V \in SUBSET S, f[U] = f[V]
        PROVE  U = V
    <3>1. U \union {x} = V \union {x} /\ x \notin U /\ x \notin V
      BY <1>1, <2>2
    <3> QED
      BY <3>1
  <2>3. \A t \in T : \E U \in SUBSET S : f[U] = t
    OBVIOUS
  <2> HIDE DEF f, T, S, x
  <2> QED
    BY <2>1, <2>2, <2>3 DEF Bijection, Injection, Surjection, IsInjective
<1>3. SUBSET (S \union {x}) = (SUBSET S) \union T
  <2>1. ASSUME NEW V \in SUBSET (S \union {x}), V \notin SUBSET S
        PROVE  V \in T
    <3>1. V \ {x} \in SUBSET S /\ V = (V \ {x}) \union {x}
      BY <2>1
    <3> QED
      BY <3>1
  <2> QED
    BY <2>1
<1>4. (SUBSET S) \intersect T = {}
  BY <1>1
<1>5. /\ IsFiniteSet(SUBSET S) /\ Cardinality(SUBSET S) = 2 ^ n /\ 2 ^ n \in Nat
      /\ Cardinality(SUBSET (S \union {x})) = 2 ^ (n + 1)
  <2>1. n + 1 \in Nat
    OBVIOUS
  <2>2. Cardinality(SUBSET (1 .. (n + 1))) = 2 ^ (n + 1)
    BY <2>1, PowerOfSubsets
  <2> QED
    BY <1>1, <2>2, PowerOfSubsets
<1> HIDE DEF S, x, f, T
<1>6. IsFiniteSet(T) /\ Cardinality(T) = Cardinality(SUBSET S)
  BY <1>2, <1>5, FS_Bijection DEF ExistsBijection
<1>7. Cardinality((SUBSET S) \union T) = Cardinality(SUBSET S) + Cardinality(T)
  BY <1>4, <1>5, <1>6, FS_Union, FS_EmptySet
<1> QED
  BY <1>3, <1>5, <1>6, <1>7

LEMMA PowerOfZero == 2 ^ 0 = 1
<1>1. 1 .. 0 = {} /\ SUBSET {} = {{}}
  OBVIOUS
<1> QED
  BY <1>1, PowerOfSubsets, FS_Singleton

\* A new entry starts the schedule, a failed try takes it one step on, and
\* nothing else touches the due time or the retries of a pending request.
LEMMA BackoffStep ==
  ASSUME IInv, BackoffSchedule, [Next]_vars
  PROVE  BackoffSchedule'
<1>1. ASSUME UNCHANGED <<due, retry, posted>>,
             \A q \in Requests : status'[q] = "pending" => status[q] = "pending"
      PROVE  BackoffSchedule'
  BY <1>1 DEF BackoffSchedule
<1>2. ASSUME NEW q \in Requests, Post(q)
      PROVE  BackoffSchedule'
  <2>1. due'[q] = now /\ retry'[q] = RetryLimit /\ posted'[q] = now /\ now \in Nat
    BY <1>2 DEF Post, IInv, TypeOK
  <2>2. due'[q] = posted'[q] + 2 ^ (RetryLimit - retry'[q]) - 1
    <3>1. RetryLimit - retry'[q] = 0
      BY <2>1, NumbersAssumption
    <3>2. 2 ^ (RetryLimit - retry'[q]) = 1
      BY <3>1, PowerOfZero, Zenon
    <3> QED
      BY <2>1, <3>2
  <2>3. \A p \in Requests \ {q} :
          /\ due'[p] = due[p] /\ retry'[p] = retry[p] /\ posted'[p] = posted[p]
          /\ status'[p] = status[p]
    BY <1>2 DEF Post, IInv, TypeOK
  <2> QED
    BY <2>2, <2>3 DEF BackoffSchedule
<1>3. ASSUME NEW r \in Reporters, Retry(r)
      PROVE  BackoffSchedule'
  <2> DEFINE q == hand[r]
             n == RetryLimit - retry[q]
  <2>1. q \in Requests /\ status[q] = "pending"
    BY <1>3 DEF Go, Retry, IInv, TypeOK, Custody, Bookkeeping
  <2>2. /\ n \in Nat /\ retry[q] \in Int /\ due[q] \in Int /\ posted[q] \in Int
        /\ RetryLimit - (retry[q] - 1) = n + 1
    BY <2>1, NumbersAssumption DEF IInv, TypeOK
  <2>3. due[q] = posted[q] + 2 ^ n - 1
    BY <2>1 DEF BackoffSchedule
  <2>4. /\ due'[q] = due[q] + 2 ^ n /\ retry'[q] = retry[q] - 1
        /\ posted'[q] = posted[q]
    BY <1>3, <2>1 DEF Retry, NextDue, RetriesLeft, callVars, IInv, TypeOK
  <2>5. 2 ^ n \in Nat /\ 2 ^ (n + 1) = 2 ^ n + 2 ^ n
    BY <2>2, PowerOfSubsets, PowerDoubles
  <2>6. due'[q] = posted'[q] + 2 ^ (RetryLimit - retry'[q]) - 1
    <3>1. 2 ^ (RetryLimit - retry'[q]) = 2 ^ n + 2 ^ n
      BY <2>2, <2>4, <2>5
    <3> HIDE DEF n, q
    <3> QED
      BY <2>2, <2>3, <2>4, <2>5, <3>1
  <2>7. \A p \in Requests \ {q} :
          /\ due'[p] = due[p] /\ retry'[p] = retry[p] /\ posted'[p] = posted[p]
          /\ status'[p] = "pending" => status[p] = "pending"
    BY <1>3, <2>1 DEF Retry, OfferAgain, callVars, IInv, TypeOK
  <2> HIDE DEF n, q
  <2> QED
    BY <2>6, <2>7 DEF BackoffSchedule
<1>4. ASSUME NEW q \in Requests, PostRefused(q) \/ Signal(q)
      PROVE  BackoffSchedule'
  BY <1>1, <1>4 DEF PostRefused, Signal, storeVars, callVars, fateVars, IInv, TypeOK
<1>5. ASSUME NEW r \in Reporters, Run(r)
      PROVE  BackoffSchedule'
  BY <1>1, <1>5 DEF Run, Lock, Size, Wait, Wake, Get, Defer, EndSleep, OfferAgain,
     storeVars, callVars, fateVars, IInv, TypeOK
<1>6. ASSUME NEW r \in Reporters, Send(r) \/ ServerExecutes(r) \/ Succeed(r) \/ Exhaust(r)
      PROVE  BackoffSchedule'
  BY <1>1, <1>6 DEF Send, ServerExecutes, Succeed, Exhaust, storeVars, callVars,
     IInv, TypeOK
<1>7. CASE Tick
  BY <1>1, <1>7 DEF Tick, storeVars, callVars, fateVars
<1>8. CASE UNCHANGED vars
  BY <1>1, <1>8 DEF vars, storeVars, callVars, fateVars
<1> QED
  BY <1>2, <1>3, <1>4, <1>5, <1>6, <1>7, <1>8 DEF Next, Caller, Query

\* However often an entry was deferred and however long its tries took, its k-th
\* retry is due 2^k - 1 seconds after the request was accepted (query and Run).
THEOREM BackoffTheorem == Spec => []BackoffSchedule
<1>1. Init => BackoffSchedule
  BY DEF Init, BackoffSchedule
<1> QED
  BY <1>1, BackoffStep, Invariance, PTL DEF Spec

-----------------------------------------------------------------------------
(* The counters. *)

With(v) == {q \in Requests : status[q] = v}

\* When one pending request gets its verdict, the number of requests with that
\* verdict grows by one and the number with any other settled verdict stays.
LEMMA VerdictCounts ==
  ASSUME TypeOK, NEW q \in Requests, status[q] = "pending",
         NEW v \in Statuses \ {"pending"},
         status' = [status EXCEPT ![q] = v]
  PROVE  /\ Cardinality(With(v)') = Cardinality(With(v)) + 1
         /\ \A u \in Statuses \ {"pending", v} : With(u)' = With(u)
<1>1. IsFiniteSet(With(v))
  BY RequestsAssumption, FS_Subset DEF With
<1>2. With(v)' = With(v) \union {q} /\ q \notin With(v)
  BY DEF With, TypeOK, Statuses
<1>3. \A u \in Statuses \ {"pending", v} : With(u)' = With(u)
  BY DEF With, TypeOK, Statuses
<1> QED
  BY <1>1, <1>2, <1>3, FS_AddElement

\* Each step that settles a request counts it where it belongs.
LEMMA CountersStep ==
  ASSUME IInv, CountersAgree, [Next]_vars
  PROVE  CountersAgree'
<1> DEFINE d == Cardinality(With("delivered"))
           a == Cardinality(With("abandoned"))
<1>1. d \in Nat /\ a \in Nat /\ counters.success = d /\ counters.ignored = a
  BY RequestsAssumption, FS_Subset, FS_CardinalityType DEF With, CountersAgree
<1>2. SUFFICES counters'.success = d' /\ counters'.ignored = a'
  BY DEF With, CountersAgree
<1>3. /\ counters.success \in Nat
      /\ counters.ignored \in Nat
      /\ counters = [success |-> counters.success, failure |-> counters.failure,
                     ignored |-> counters.ignored]
  BY DEF IInv, TypeOK
<1>4. ASSUME NEW r \in Reporters, pc[r] \in {"dispatch", "query", "reply"}
      PROVE  hand[r] \in Requests /\ status[hand[r]] = "pending"
  BY <1>4 DEF IInv, TypeOK, Custody, Bookkeeping
<1>5. ASSUME NEW q \in Requests, status[q] = "pending",
             status' = [status EXCEPT ![q] = "abandoned"]
      PROVE  a' = a + 1 /\ d' = d
  BY <1>5, VerdictCounts DEF IInv, Statuses
<1>6. ASSUME NEW q \in Requests, status[q] = "pending",
             status' = [status EXCEPT ![q] = "delivered"]
      PROVE  d' = d + 1 /\ a' = a
  BY <1>6, VerdictCounts DEF IInv, Statuses
<1>7. ASSUME status' = status, counters' = counters
      PROVE  counters'.success = d' /\ counters'.ignored = a'
  BY <1>1, <1>7 DEF With
<1>8. ASSUME NEW q \in Requests, Caller(q)
      PROVE  counters'.success = d' /\ counters'.ignored = a'
  <2>1. CASE Signal(q)
    BY <1>7, <2>1 DEF Signal, fateVars
  <2>2. CASE Post(q) \/ PostRefused(q)
    <3>1. counters' = counters
      BY <2>2 DEF Post, PostRefused
    <3>2. /\ With("delivered")' = With("delivered")
          /\ With("abandoned")' = With("abandoned")
      BY <2>2 DEF Post, PostRefused, With, IInv, TypeOK
    <3> QED
      BY <1>1, <3>1, <3>2
  <2> QED
    BY <1>8, <2>1, <2>2 DEF Caller
<1>9. ASSUME NEW r \in Reporters, Run(r)
      PROVE  counters'.success = d' /\ counters'.ignored = a'
  <2>1. CASE Defer(r)
    <3>1. CASE HasRoom
      <4>1. status' = status
        BY <2>1, <3>1 DEF Defer, OfferAgain
      <4>2. /\ counters'.success = counters.success
            /\ counters'.ignored = counters.ignored
        BY <1>3, <2>1, <3>1 DEF Defer, Ignored
      <4> QED
        BY <1>1, <4>1, <4>2 DEF With
    <3>2. CASE ~HasRoom
      <4>1. a' = a + 1 /\ d' = d
        BY <1>4, <1>5, <2>1, <3>2 DEF Go, Defer, OfferAgain
      <4> QED
        BY <1>1, <1>3, <2>1, <3>2, <4>1 DEF Defer, Ignored
    <3> QED
      BY <3>1, <3>2
  <2> QED
    BY <1>7, <1>9, <2>1 DEF Run, Lock, Size, Wait, Wake, Get, EndSleep, fateVars
<1>10. ASSUME NEW r \in Reporters, Query(r) \/ ServerExecutes(r)
       PROVE  counters'.success = d' /\ counters'.ignored = a'
  <2>1. CASE Send(r) \/ ServerExecutes(r)
    BY <1>7, <2>1 DEF Send, ServerExecutes
  <2>2. CASE Succeed(r)
    <3>1. d' = d + 1 /\ a' = a
      BY <1>4, <1>6, <2>2 DEF Go, Succeed
    <3> QED
      BY <1>1, <1>3, <2>2, <3>1 DEF Succeed
  <2>3. CASE Retry(r)
    <3>1. CASE HasRoom
      <4>1. status' = status
        BY <2>3, <3>1 DEF Retry, OfferAgain
      <4>2. /\ counters'.success = counters.success
            /\ counters'.ignored = counters.ignored
        BY <1>3, <2>3, <3>1 DEF Retry, Ignored
      <4> QED
        BY <1>1, <4>1, <4>2 DEF With
    <3>2. CASE ~HasRoom
      <4>1. a' = a + 1 /\ d' = d
        BY <1>4, <1>5, <2>3, <3>2 DEF Go, Retry, OfferAgain
      <4>2. /\ counters'.success = counters.success
            /\ counters'.ignored = counters.ignored + 1
        BY <1>3, <2>3, <3>2 DEF Retry, Ignored
      <4> QED
        BY <1>1, <4>1, <4>2
    <3> QED
      BY <3>1, <3>2
  <2>4. CASE Exhaust(r)
    <3>1. a' = a + 1 /\ d' = d
      BY <1>4, <1>5, <2>4 DEF Go, Exhaust
    <3>2. /\ counters'.success = counters.success
          /\ counters'.ignored = counters.ignored + 1
      BY <1>3, <2>4 DEF Exhaust
    <3> QED
      BY <1>1, <3>1, <3>2
  <2> QED
    BY <1>10, <2>1, <2>2, <2>3, <2>4 DEF Query
<1>11. CASE Tick
  BY <1>7, <1>11 DEF Tick, fateVars
<1>12. CASE UNCHANGED vars
  BY <1>7, <1>12 DEF vars, fateVars
<1> QED
  BY <1>2, <1>8, <1>9, <1>10, <1>11, <1>12 DEF Next

\* The reporters' counters account for every accepted request that is settled
\* (the success, failure and ignored counts of query and Run).
THEOREM CountersTheorem == Spec => []CountersAgree
<1>1. Init => CountersAgree
  <2> SUFFICES ASSUME Init PROVE CountersAgree
    OBVIOUS
  <2>1. /\ {q \in Requests : status[q] = "delivered"} = {}
        /\ {q \in Requests : status[q] = "abandoned"} = {}
    BY DEF Init
  <2> QED
    BY <2>1, FS_EmptySet DEF Init, CountersAgree
<1> QED
  BY <1>1, CountersStep, Invariance, PTL DEF Spec

-----------------------------------------------------------------------------
(* The queue implements Delivery. *)

PendingSet == {q \in Requests : status[q] = "pending"}

\* The entries in the queue and in one hand are that many pending requests, so
\* a queue that has no room means a backlog as large as the capacity.
LEMMA BacklogInv ==
  ASSUME IInv, ~HasRoom
  PROVE  /\ Cardinality(PendingSet) >= Capacity
         /\ \A r \in Reporters :
              hand[r] # Nothing => Cardinality(PendingSet) > Capacity
<1>1. /\ IsFiniteSet(PendingSet) /\ Cardinality(PendingSet) \in Nat
      /\ IsFiniteSet(queue) /\ Cardinality(queue) \in Nat
  BY RequestsAssumption, FS_Subset, FS_CardinalityType DEF IInv, TypeOK, PendingSet
<1>2. queue \subseteq PendingSet
  BY DEF IInv, TypeOK, Custody, PendingSet
<1>3. Cardinality(queue) >= Capacity
  BY <1>1, NumbersAssumption DEF HasRoom
<1>4. Cardinality(PendingSet) >= Capacity
  BY <1>1, <1>2, <1>3, FS_Subset, NumbersAssumption
<1>5. ASSUME NEW r \in Reporters, hand[r] # Nothing
      PROVE  Cardinality(PendingSet) > Capacity
  <2>1. hand[r] \in PendingSet /\ hand[r] \notin queue
    BY <1>5 DEF IInv, TypeOK, Custody, PendingSet
  <2>2. /\ queue \union {hand[r]} \subseteq PendingSet
        /\ Cardinality(queue \union {hand[r]}) = Cardinality(queue) + 1
    BY <1>1, <1>2, <2>1, FS_AddElement
  <2>3. Cardinality(queue) + 1 <= Cardinality(PendingSet)
    BY <1>1, <2>2, FS_Subset
  <2> QED
    BY <1>1, <1>3, <2>3, NumbersAssumption
<1> QED
  BY <1>4, <1>5

\* Initially every request is idle, untried and not executed.
LEMMA RefinementInit == Init => Promise!Init
  BY DEF Init, Promise!Init

\* Posting, refusing, sending, executing and answering are the steps of the
\* same name; putting an entry back and everything else is a stutter.
LEMMA RefinementStep ==
  ASSUME IInv, [Next]_vars
  PROVE  [Promise!Next]_(Promise!vars)
<1>1. Promise!Cardinality(Promise!Pending) = Cardinality(PendingSet)
  BY Zenon DEF PendingSet, Promise!Pending, Cardinality, Promise!Cardinality
<1>2. ASSUME NEW q \in Requests, Caller(q)
      PROVE  [Promise!Next]_(Promise!vars)
  <2>1. CASE Post(q)
    <3>1. Promise!Accept(q)
      BY <2>1 DEF Post, Promise!Accept
    <3> QED
      BY <3>1 DEF Promise!Next
  <2>2. CASE PostRefused(q)
    <3>1. Promise!Refuse(q)
      BY <1>1, <2>2, BacklogInv DEF PostRefused, Promise!Refuse
    <3> QED
      BY <3>1 DEF Promise!Next
  <2>3. CASE Signal(q)
    BY <2>3 DEF Signal, fateVars, Promise!vars
  <2> QED
    BY <1>2, <2>1, <2>2, <2>3 DEF Caller
<1>3. ASSUME NEW r \in Reporters, hand[r] # Nothing, OfferAgain(hand[r]),
             tries[hand[r]] > 0, UNCHANGED <<tries, executed>>
      PROVE  [Promise!Next]_(Promise!vars)
  <2>1. hand[r] \in Requests /\ status[hand[r]] = "pending"
    BY <1>3 DEF IInv, TypeOK, Custody
  <2>2. CASE HasRoom
    BY <1>3, <2>2 DEF OfferAgain, Promise!vars
  <2>3. CASE ~HasRoom
    <3>1. Promise!GiveUp(hand[r])
      BY <1>1, <1>3, <2>1, <2>3, BacklogInv DEF OfferAgain, Promise!GiveUp
    <3> QED
      BY <2>1, <3>1 DEF Promise!Next
  <2> QED
    BY <2>2, <2>3
<1>4. ASSUME NEW r \in Reporters, Run(r)
      PROVE  [Promise!Next]_(Promise!vars)
  <2>1. CASE Defer(r)
    <3>1. hand[r] \in Requests /\ hand[r] # Nothing /\ status[hand[r]] = "pending"
      BY <2>1 DEF IInv, TypeOK, Custody, Bookkeeping, Go, Defer
    <3>2. retry[hand[r]] # RetryLimit
      BY <2>1, <3>1 DEF IInv, TypeOK, Bookkeeping, Defer
    <3>3. tries[hand[r]] > 0
      BY <2>1, <3>1, <3>2, NumbersAssumption DEF IInv, TypeOK, RetryBudget
    <3> QED
      BY <1>3, <2>1, <3>1, <3>3 DEF Defer
  <2> QED
    BY <1>4, <2>1 DEF Run, Lock, Size, Wait, Wake, Get, EndSleep, fateVars,
       Promise!vars
<1>5. ASSUME NEW r \in Reporters, pc[r] \in {"dispatch", "query", "reply"}
      PROVE  /\ hand[r] \in Requests /\ hand[r] # Nothing
             /\ status[hand[r]] = "pending"
             /\ retry[hand[r]] \in 0 .. RetryLimit
             /\ executed[hand[r]] \in Nat
             /\ tries[hand[r]] = RetryLimit - retry[hand[r]]
                                   + (IF pc[r] = "dispatch" THEN 0 ELSE 1)
  BY <1>5 DEF IInv, TypeOK, Custody, Bookkeeping, RetryBudget, InFlight
<1>6. ASSUME NEW r \in Reporters, Query(r) \/ ServerExecutes(r)
      PROVE  [Promise!Next]_(Promise!vars)
  <2>1. CASE Send(r)
    <3>1. Promise!Try(hand[r])
      BY <1>5, <2>1, NumbersAssumption DEF Go, Send, Promise!Try
    <3> QED
      BY <1>5, <2>1, <3>1 DEF Go, Send, Promise!Next
  <2>2. CASE ServerExecutes(r)
    <3>1. Promise!Execute(hand[r])
      BY <1>5, <2>2 DEF Go, ServerExecutes, Promise!Execute, IInv, Bookkeeping
    <3> QED
      BY <1>5, <2>2, <3>1 DEF Go, ServerExecutes, Promise!Next
  <2>3. CASE Succeed(r)
    <3>1. Promise!Deliver(hand[r])
      BY <1>5, <2>3 DEF Go, Succeed, Promise!Deliver, IInv, Bookkeeping
    <3> QED
      BY <1>5, <2>3, <3>1 DEF Go, Succeed, Promise!Next
  <2>4. CASE Retry(r)
    <3>1. tries[hand[r]] > 0
      BY <1>5, <2>4, NumbersAssumption DEF Go, Retry
    <3> QED
      BY <1>3, <1>5, <2>4, <3>1 DEF Go, Retry
  <2>5. CASE Exhaust(r)
    <3>1. Promise!GiveUp(hand[r])
      BY <1>5, <2>5, NumbersAssumption DEF Go, Exhaust, Promise!GiveUp
    <3> QED
      BY <1>5, <2>5, <3>1 DEF Go, Exhaust, Promise!Next
  <2> QED
    BY <1>6, <2>1, <2>2, <2>3, <2>4, <2>5 DEF Query
<1>7. CASE Tick
  BY <1>7 DEF Tick, fateVars, Promise!vars
<1>8. CASE UNCHANGED vars
  BY <1>8 DEF vars, fateVars, Promise!vars
<1> QED
  BY <1>2, <1>4, <1>6, <1>7, <1>8 DEF Next

\* The promise of Delivery: refused or dropped early only under overload,
\* tried at least once, settled for good, executed at least once if delivered.
THEOREM Refinement == Spec => DeliverySpec
<1>1. Spec => Promise!Init /\ [][Promise!Next]_(Promise!vars)
  BY RefinementInit, RefinementStep, Invariance, PTL DEF Spec
<1> QED
  BY <1>1 DEF DeliverySpec, Promise!Spec
=============================================================================
