------------------------------ MODULE Delivery ------------------------------
(***************************************************************************)
(* What the outgoing request queue of the agent promises to the code that  *)
(* posts to it (command results, sync updates, log records, events),       *)
(* without threads, locks, priorities or clocks:                           *)
(*                                                                         *)
(*   - a request is refused only when the backlog has reached the capacity; *)
(*   - an accepted request stays pending until it is delivered or given up, *)
(*     and that verdict is final: it is never tried again;                 *)
(*   - it is tried at least once before it is given up, and at most         *)
(*     RetryLimit + 1 times in all;                                        *)
(*   - it is given up before its last try only under overload;              *)
(*   - delivery is at-least-once: the server has executed a delivered       *)
(*     request, possibly once for each try.                                 *)
(***************************************************************************)
EXTENDS Integers, FiniteSets

CONSTANTS Requests,    \* the calls of Post, Put, Patch and Delete
          Capacity,    \* MaxQueueSize
          RetryLimit   \* how often a failed request is tried again

VARIABLES status,      \* what has become of each request
          tries,       \* how often it has been sent
          executed     \* how often the server has executed it

vars == <<status, tries, executed>>

Pending == {q \in Requests : status[q] = "pending"}

Init == /\ status = [q \in Requests |-> "idle"]
        /\ tries = [q \in Requests |-> 0]
        /\ executed = [q \in Requests |-> 0]

Accept(q) == /\ status[q] = "idle"
             /\ status' = [status EXCEPT ![q] = "pending"]
             /\ UNCHANGED <<tries, executed>>

Refuse(q) == /\ status[q] = "idle"
             /\ Cardinality(Pending) >= Capacity
             /\ status' = [status EXCEPT ![q] = "refused"]
             /\ UNCHANGED <<tries, executed>>

Try(q) == /\ status[q] = "pending"
          /\ tries[q] <= RetryLimit
          /\ tries' = [tries EXCEPT ![q] = @ + 1]
          /\ UNCHANGED <<status, executed>>

Execute(q) == /\ status[q] = "pending"
              /\ executed[q] < tries[q]
              /\ executed' = [executed EXCEPT ![q] = @ + 1]
              /\ UNCHANGED <<status, tries>>

Deliver(q) == /\ status[q] = "pending"
              /\ executed[q] > 0
              /\ status' = [status EXCEPT ![q] = "delivered"]
              /\ UNCHANGED <<tries, executed>>

GiveUp(q) == /\ status[q] = "pending"
             /\ tries[q] > 0
             /\ tries[q] > RetryLimit \/ Cardinality(Pending) > Capacity
             /\ status' = [status EXCEPT ![q] = "abandoned"]
             /\ UNCHANGED <<tries, executed>>

Next == \E q \in Requests : \/ Accept(q) \/ Refuse(q)
                            \/ Try(q) \/ Execute(q)
                            \/ Deliver(q) \/ GiveUp(q)

Spec == Init /\ [][Next]_vars
=============================================================================
