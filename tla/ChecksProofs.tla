---------------------------- MODULE ChecksProofs ----------------------------
(***************************************************************************)
(* For any workers, windows, retries and times: the types with the bound   *)
(* on retries, the truth of the retry status, and that no row is lost, or  *)
(* summed up twice but for what a late check shares with the next one.     *)
(***************************************************************************)
EXTENDS Checks, FiniteSetTheorems, TLAPS

Busy == {"begin", "insert", "save", "delete", "push", "next table", "ok", "clear",
         "failed", "retry", "due", "expiry", "count"}

Sound(x) == /\ x \in Executions /\ x.since <= ticked /\ x.stamp <= now
            /\ x.pc \in Busy <=> x.task \in Tasks

\* What the types rest on: rows are finite in number, a worker with a task is
\* not idle, and the dispatcher has a task in hand when it is at one.
Types ==
  /\ {now, ticked} \subseteq 0 .. MaxTime /\ ticked <= now
  /\ nextRun \in [Tasks -> Nat] /\ due \in [Tasks -> Nat] /\ expiry \in [Tasks -> Nat]
  /\ isSuccess \in [Tasks -> BOOLEAN] /\ outcome \in [Tasks -> BOOLEAN]
  /\ attempt \in [Tasks -> Nat]
  /\ overlapped \subseteq Tasks
  /\ scan \in Scans
  /\ scan.at \in {"send", "retry", "resend"} => scan.task \in Tasks
  /\ worker \in [Workers -> Executions] /\ \A w \in Workers : Sound(worker[w])
  /\ rows \in [Tables -> SUBSET Rows] /\ ever \in [Tables -> SUBSET Rows]
  /\ IsFiniteSet(Ids)
  /\ sums \in [saved : SUBSET SumRecords, sent : SUBSET SumRecords]

(***************************************************************************)
(* The retry status.  While the executions of a task do not overlap, its   *)
(* worker alone writes the status, in several steps: between them, the     *)
(* status is behind the outcome.                                           *)
(***************************************************************************)
Agree(success, last, count) == success = last /\ (success <=> count = 0)

Settled(t) == Agree(isSuccess[t], outcome[t], attempt[t])

Behind == {"clear", "retry", "due", "expiry", "count"}

StatusOf(t) ==
  /\ \A v, w \in Workers : worker[v].task = t /\ worker[w].task = t => v = w
  /\ attempt[t] <= MaxRetries
  /\ \A w \in Workers : worker[w].task = t =>
       /\ worker[w].pc \in {"retry", "due", "expiry", "count"} =>
            ~outcome[t] /\ attempt[t] < MaxRetries
       /\ worker[w].pc \in {"due", "expiry", "count"} => ~isSuccess[t]
       /\ worker[w].pc = "count" => worker[w].seen = attempt[t]
       /\ worker[w].pc = "clear" => isSuccess[t] /\ outcome[t]
  /\ (\A w \in Workers : worker[w].task = t => worker[w].pc \notin Behind) => Settled(t)

Status == \A t \in Tasks \ overlapped : StatusOf(t)

(***************************************************************************)
(* No row is lost.  Rows are deleted only once they are older than the     *)
(* window, so that a check that looks finds every row of its window that   *)
(* was there before it looked.                                             *)
(***************************************************************************)
Kept ==
  \A table \in Tables : \A r \in ever[table] :
    /\ r.at <= r.inserted /\ r.inserted <= now
    /\ r \notin rows[table] => r.at <= now - Window(table)

Saw(known, t, time, of) ==
  \A r \in known[Source(t)] :
    time - Window(Source(t)) < r.at /\ r.inserted < time => r \in of

Looking(x) == x.task \in Batch /\ x.pc \in {"save", "delete", "push"}

Seen ==
  /\ \A w \in Workers :
       Looking(worker[w]) => Saw(ever, worker[w].task, worker[w].stamp, worker[w].of)
  /\ \A t \in Batch : \A s \in Complete(t) : s.at <= now /\ Saw(ever, t, s.at, s.of)

(***************************************************************************)
(* No row is summed up twice.  Two ticks that dispatch a check because it  *)
(* is its time are more than its interval apart, which is also its window; *)
(* and no check looks before it was dispatched.                            *)
(***************************************************************************)
Apart(t, x, y) == x + Interval(t) < y \/ y + Interval(t) < x

Recent(t, of, time) == \A r \in of : time <= r.at + Interval(t)

\* An execution that is no retry and may still leave a sum; sums of such ones.
Planned(x, t) == x.task = t /\ ~x.again /\ x.pc \in {"begin", "save", "delete", "push"}

PlannedSums(t) == {s \in Sums(t) : ~s.again}

RunsOf(t) ==
  /\ \A w \in Workers : Planned(worker[w], t) =>
       /\ worker[w].since + Interval(t) <= nextRun[t]
       /\ worker[w].pc # "begin" => Recent(t, worker[w].of, worker[w].since)
  /\ \A v, w \in Workers : v # w /\ Planned(worker[v], t) /\ Planned(worker[w], t) =>
       Apart(t, worker[v].since, worker[w].since)

SumsOf(t) ==
  /\ \A s \in PlannedSums(t) :
       /\ s.since + Interval(t) <= nextRun[t] /\ Recent(t, s.of, s.since)
       /\ \A w \in Workers : Planned(worker[w], t) =>
            (worker[w].pc # "begin" /\ s = Sum(w)) \/ Apart(t, s.since, worker[w].since)
  /\ \A s1, s2 \in PlannedSums(t) : s1 # s2 => Apart(t, s1.since, s2.since)

TurnOf(t) ==
  scan.at = "send" /\ scan.task = t =>
    /\ ticked + Interval(t) = nextRun[t]
    /\ \A w \in Workers : Planned(worker[w], t) => worker[w].since + Interval(t) < ticked
    /\ \A s \in PlannedSums(t) : s.since + Interval(t) < ticked

Spaced == \A t \in Batch : RunsOf(t) /\ SumsOf(t) /\ TurnOf(t)

-----------------------------------------------------------------------------
(* The types. *)

LEMMA WindowsNat == Hour \in Nat /\ Day \in Nat /\ \A t \in Tasks : Interval(t) \in Nat
BY WindowsAssumption DEF Interval, Tasks

LEMMA PowerNat == ASSUME NEW n \in Nat PROVE 2 ^ n \in Nat
<1>1. IsFiniteSet(1 .. n) /\ Cardinality(1 .. n) = n BY FS_Interval
<1>2. IsFiniteSet(SUBSET (1 .. n)) /\ Cardinality(SUBSET (1 .. n)) = 2 ^ Cardinality(1 .. n)
  BY <1>1, FS_SUBSET
<1>3. Cardinality(SUBSET (1 .. n)) \in Nat BY <1>2, FS_CardinalityType
<1>4. QED BY <1>1, <1>2, <1>3

LEMMA RestingTyped == Resting \in Executions
BY BoundsAssumption DEF Resting, Executions, Places

LEMMA InitTypes == Init => Types
<1> SUFFICES ASSUME Init PROVE Types
  OBVIOUS
<1>1. Ids \subseteq {1} BY DEF Init, Ids, Tables, Left
<1>2. IsFiniteSet(Ids)
  <2>1. IsFiniteSet({1}) BY FS_Singleton
  <2> QED BY <1>1, <2>1, FS_Subset
<1>3. worker = [w \in Workers |-> Resting] BY DEF Init
<1>4. Resting \in Executions BY RestingTyped
<1>5. Sound(Resting)
  <2>1. Resting.since = 0 /\ Resting.stamp = 0 /\ now = 0 /\ ticked = 0 BY DEF Resting, Init
  <2>2. Resting.pc \notin Busy /\ Resting.task \notin Tasks
    BY WorkersAssumption DEF Resting, Busy
  <2>3. QED BY <1>4, <2>1, <2>2 DEF Sound
<1>6. nextRun \in [Tasks -> Nat] BY WindowsNat DEF Init
<1>7. rows \in [Tables -> SUBSET Rows] /\ ever \in [Tables -> SUBSET Rows]
  BY DEF Init, Left, Rows
<1>8. QED
  BY <1>2, <1>3, <1>4, <1>5, <1>6, <1>7, BoundsAssumption DEF Types, Init, Waiting, Scans

\* A worker goes on with a sound record.
LEMMA WorkersSound ==
  ASSUME Types, NEW w \in Workers, NEW x, Sound(x), worker' = [worker EXCEPT ![w] = x],
         UNCHANGED <<now, ticked>>
  PROVE  /\ worker' \in [Workers -> Executions]
         /\ \A v \in Workers : Sound(worker[v])'
BY DEF Types, Sound

LEMMA DispatchTypes == Types /\ Dispatch => Types'
<1> SUFFICES ASSUME Types, Dispatch PROVE Types'
  OBVIOUS
<1> USE DEF Types, taskVars, historyVars, Sound, Scans
<1>0. Ids' = Ids BY DEF Dispatch, Tick, Visit, Look, Send, Ids
<1>1. CASE Tick
  <2>1. ticked' = now /\ now' = now /\ worker' = worker BY <1>1 DEF Tick
  <2>2. \A w \in Workers : Sound(worker[w])'
    <3>1. ASSUME NEW w \in Workers PROVE worker[w].since <= now
      <4>1. worker[w].since \in Nat /\ ticked \in Nat /\ now \in Nat
        BY BoundsAssumption DEF Executions
      <4>2. QED BY <4>1
    <3>2. QED BY <2>1, <3>1
  <2>3. now \in 0 .. MaxTime /\ now <= now BY BoundsAssumption
  <2>4. scan' \in Scans /\ scan'.at = "scan" BY <1>1 DEF Tick
  <2>5. QED BY <1>0, <1>1, <2>1, <2>2, <2>3, <2>4 DEF Tick
<1>2. ASSUME NEW t \in Tasks, Visit(t) PROVE Types'
  <2>1. NextRun(t) \in Nat BY WindowsNat DEF NextRun
  <2>2. /\ Retry(t, scan.left \ {t}) \in Scans
        /\ Retry(t, scan.left \ {t}).at \in {"send", "retry", "resend"} =>
             Retry(t, scan.left \ {t}).task \in Tasks
    BY DEF Retry, Waiting
  <2>3. nextRun' \in [Tasks -> Nat] BY <1>2, <2>1 DEF Visit
  <2>4. scan' \in Scans /\ (scan'.at \in {"send", "retry", "resend"} => scan'.task \in Tasks)
    <3>1. \/ scan' = [at |-> "send", left |-> scan.left \ {t}, task |-> t]
          \/ scan' = Retry(t, scan.left \ {t})
      BY <1>2 DEF Visit
    <3>2. CASE scan' = [at |-> "send", left |-> scan.left \ {t}, task |-> t]
      BY <3>2
    <3>3. CASE scan' = Retry(t, scan.left \ {t}) BY <2>2, <3>3
    <3>4. QED BY <3>1, <3>2, <3>3
  <2>5. QED BY <1>0, <1>2, <2>3, <2>4 DEF Visit
<1>3. CASE Look
  <2>1. scan'.at \in {"send", "retry", "resend"} => scan'.task \in Tasks
    BY <1>3 DEF Look, Retry, Waiting
  <2>2. scan' \in Scans BY <1>3 DEF Look, Retry, Waiting
  <2>3. QED BY <1>0, <1>3, <2>1, <2>2 DEF Look
<1>4. ASSUME NEW w \in Workers, Send(w) PROVE Types'
  <2>1. scan.task \in Tasks BY <1>4 DEF Send
  <2> DEFINE x == [Resting EXCEPT !.pc = "begin", !.task = scan.task, !.since = ticked,
                                  !.again = scan.at = "resend"]
  <2>2. worker' = [worker EXCEPT ![w] = x] BY <1>4 DEF Send
  <2>3. Sound(x)
    <3>1. Resting \in Executions BY RestingTyped
    <3>2. /\ x \in Executions
          /\ x.pc = "begin" /\ x.task = scan.task /\ x.since = ticked
          /\ x.stamp = Resting.stamp
      BY <2>1, <3>1 DEF Executions, Places
    <3>3. x.stamp = 0 BY <3>2 DEF Resting
    <3> HIDE DEF x
    <3>4. x \in Executions BY <3>2
    <3>5. x.since <= ticked /\ x.stamp <= now
      <4>1. ticked \in Nat /\ now \in Nat BY BoundsAssumption
      <4>2. QED BY <3>2, <3>3, <4>1
    <3>6. x.pc \in Busy /\ x.task \in Tasks BY <2>1, <3>2 DEF Busy
    <3>7. QED BY <3>4, <3>5, <3>6
  <2> HIDE DEF x
  <2>4. worker' \in [Workers -> Executions] /\ \A v \in Workers : Sound(worker[v])'
    BY <1>4, <2>2, <2>3, WorkersSound DEF Send
  <2>5. scan' \in Scans /\ (scan'.at \in {"send", "retry", "resend"} => scan'.task \in Tasks)
    BY <1>4, <2>1 DEF Send, Waiting
  <2>6. overlapped' \subseteq Tasks BY <1>4, <2>1 DEF Send
  <2>7. QED BY <1>0, <1>4, <2>4, <2>5, <2>6 DEF Send
<1>5. QED BY <1>1, <1>2, <1>3, <1>4 DEF Dispatch

\* A worker only changes where it is.
LEMMA BecomeSound ==
  ASSUME Types, NEW w \in Workers, NEW pc \in Busy, Become(w, pc), worker[w].pc \in Busy,
         UNCHANGED <<now, ticked>>
  PROVE  worker' \in [Workers -> Executions] /\ \A v \in Workers : Sound(worker[v])'
<1> DEFINE x == [worker[w] EXCEPT !.pc = pc]
<1>1. worker[w] \in Executions /\ Sound(worker[w]) BY DEF Types
<1>2. x \in Executions /\ x.pc = pc /\ x.task = worker[w].task /\ x.since = worker[w].since
      /\ x.stamp = worker[w].stamp
  BY <1>1 DEF Executions, Places, Busy
<1>3. Sound(x) BY <1>1, <1>2 DEF Sound
<1>4. worker' = [worker EXCEPT ![w] = x] BY DEF Become
<1> HIDE DEF x
<1>5. QED BY <1>3, <1>4, WorkersSound

\* It takes the time, too, and the rows it has found.
LEMMA StampSound ==
  ASSUME Types, NEW w \in Workers, NEW pc \in Busy, NEW of \in SUBSET Rows,
         worker' = [worker EXCEPT ![w].pc = pc, ![w].stamp = now, ![w].of = of]
           \/ worker' = [worker EXCEPT ![w].pc = pc, ![w].stamp = now],
         worker[w].pc \in Busy, UNCHANGED <<now, ticked>>
  PROVE  worker' \in [Workers -> Executions] /\ \A v \in Workers : Sound(worker[v])'
<1>1. worker[w] \in Executions /\ Sound(worker[w]) /\ now \in 0 .. MaxTime BY DEF Types
<1>2. now <= now BY <1>1, BoundsAssumption
<1>3. CASE worker' = [worker EXCEPT ![w].pc = pc, ![w].stamp = now]
  <2> DEFINE x == [worker[w] EXCEPT !.pc = pc, !.stamp = now]
  <2>1. x \in Executions /\ x.pc = pc /\ x.task = worker[w].task /\ x.since = worker[w].since
        /\ x.stamp = now
    BY <1>1 DEF Executions, Places, Busy
  <2>2. Sound(x) BY <1>1, <1>2, <2>1 DEF Sound
  <2>3. worker' = [worker EXCEPT ![w] = x] BY <1>3
  <2> HIDE DEF x
  <2>4. QED BY <2>2, <2>3, WorkersSound
<1>4. CASE worker' = [worker EXCEPT ![w].pc = pc, ![w].stamp = now, ![w].of = of]
  <2> DEFINE x == [worker[w] EXCEPT !.pc = pc, !.stamp = now, !.of = of]
  <2>1. x \in Executions /\ x.pc = pc /\ x.task = worker[w].task /\ x.since = worker[w].since
        /\ x.stamp = now
    BY <1>1 DEF Executions, Places, Busy
  <2>2. Sound(x) BY <1>1, <1>2, <2>1 DEF Sound
  <2>3. worker' = [worker EXCEPT ![w] = x] BY <1>4
  <2> HIDE DEF x
  <2>4. QED BY <2>2, <2>3, WorkersSound
<1>5. QED BY <1>3, <1>4

LEMMA InsertTypes ==
  ASSUME Types, NEW table \in Tables, NEW stamp \in 0 .. MaxTime, Insert(table, stamp)
  PROVE  /\ rows' \in [Tables -> SUBSET Rows] /\ ever' \in [Tables -> SUBSET Rows]
         /\ IsFiniteSet(Ids')
<1>1. Row(stamp) \in Rows
  <2>1. Cardinality(Ids) \in Nat BY FS_CardinalityType DEF Types
  <2>2. stamp \in Nat /\ now \in Nat BY BoundsAssumption DEF Types
  <2>3. QED BY <2>1, <2>2 DEF Row, Rows
<1>2. Ids' = Ids \union {Row(stamp).n}
  <2>1. ever["real"]' \union ever["hourly"]' = ever["real"] \union ever["hourly"] \union {Row(stamp)}
    BY DEF Insert, Types, Tables
  <2>2. QED BY <2>1 DEF Ids
<1>3. IsFiniteSet(Ids') BY <1>2, FS_AddElement DEF Types
<1>4. QED BY <1>1, <1>3 DEF Insert, Types

LEMMA DeletesTypes ==
  ASSUME Types, NEW table \in Tables, NEW time, Deletes(table, time)
  PROVE  rows' \in [Tables -> SUBSET Rows]
BY DEF Deletes, Without, Types

LEMMA SumRecordsd ==
  ASSUME Types, NEW w \in Workers, worker[w].task \in Batch PROVE Sum(w) \in SumRecords
BY DEF Types, Executions, Sum, SumRecords

LEMMA CheckTypes == ASSUME Types, NEW w \in Workers, Check(w) PROVE Types'
<1> USE DEF At, Busy, taskVars, historyVars
<1>1. CASE Collect(w)
  <2>1. worker' \in [Workers -> Executions] /\ \A v \in Workers : Sound(worker[v])'
    BY <1>1, StampSound DEF Collect
  <2>2. QED BY <1>1, <2>1, SMTT(30) DEF Collect, Types, Ids
<1>2. CASE InsertRow(w)
  <2>1. worker' \in [Workers -> Executions] /\ \A v \in Workers : Sound(worker[v])'
    BY <1>2, BecomeSound DEF InsertRow
  <2>2. /\ rows' \in [Tables -> SUBSET Rows] /\ ever' \in [Tables -> SUBSET Rows]
        /\ IsFiniteSet(Ids')
    BY <1>2, InsertTypes DEF InsertRow, Tables, Types, Executions
  <2>3. QED BY <1>2, <2>1, <2>2 DEF InsertRow, Types
<1>3. CASE Query(w)
  <2>1. {r \in rows[Source(worker[w].task)] : InWindow(r, Source(worker[w].task))} \in SUBSET Rows
    BY SMTT(30) DEF Types, Source, Tables
  <2>2. worker' \in [Workers -> Executions] /\ \A v \in Workers : Sound(worker[v])'
    BY <1>3, <2>1, StampSound DEF Query
  <2>3. QED BY <1>3, <2>2 DEF Query, Types, Ids
<1>4. CASE Save(w)
  <2>1. worker' \in [Workers -> Executions] /\ \A v \in Workers : Sound(worker[v])'
    BY <1>4, BecomeSound DEF Save
  <2>2. /\ rows' \in [Tables -> SUBSET Rows] /\ ever' \in [Tables -> SUBSET Rows]
        /\ IsFiniteSet(Ids')
    <3>1. PICK time \in worker[w].stamp .. now : Insert("hourly", time) BY <1>4 DEF Save
    <3>2. time \in 0 .. MaxTime BY <3>1, BoundsAssumption DEF Types, Executions
    <3> QED BY <3>1, <3>2, InsertTypes DEF Tables
  <2>3. sums' \in [saved : SUBSET SumRecords, sent : SUBSET SumRecords]
    BY <1>4, SumRecordsd DEF Save, Types, Batch
  <2>4. QED BY <1>4, <2>1, <2>2, <2>3 DEF Save, Types
<1>5. CASE SaveUncommitted(w)
  <2>1. worker' \in [Workers -> Executions] /\ \A v \in Workers : Sound(worker[v])'
    BY <1>5, BecomeSound DEF SaveUncommitted
  <2>2. QED BY <1>5, <2>1 DEF SaveUncommitted, Types, Ids, Tasks
<1>6. CASE Delete(w)
  <2>1. worker' \in [Workers -> Executions] /\ \A v \in Workers : Sound(worker[v])'
    BY <1>6, BecomeSound DEF Delete
  <2>2. rows' \in [Tables -> SUBSET Rows]
    BY <1>6, DeletesTypes DEF Delete, Source, Tables
  <2>3. QED BY <1>6, <2>1, <2>2 DEF Delete, Types, Ids
<1>7. CASE Push(w)
  <2>1. worker' \in [Workers -> Executions] /\ \A v \in Workers : Sound(worker[v])'
    BY <1>7, BecomeSound DEF Push
  <2>2. sums' \in [saved : SUBSET SumRecords, sent : SUBSET SumRecords]
    BY <1>7, SumRecordsd DEF Push, Types
  <2>3. QED BY <1>7, <2>1, <2>2 DEF Push, Types, Ids
<1>8. CASE CleanUp(w)
  <2>1. rows' \in [Tables -> SUBSET Rows]
    BY <1>8, DeletesTypes, ZenonT(30) DEF CleanUp, Tables
  <2>2. worker' \in [Workers -> Executions] /\ \A v \in Workers : Sound(worker[v])'
    BY <1>8, BecomeSound, StampSound DEF CleanUp
  <2>3. QED BY <1>8, <2>1, <2>2 DEF CleanUp, Types, Ids
<1>9. CASE Fail(w)
  <2>1. worker[w].pc \in Busy BY <1>9 DEF Fail, Types, Executions, Places
  <2>2. worker' \in [Workers -> Executions] /\ \A v \in Workers : Sound(worker[v])'
    BY <1>9, <2>1, BecomeSound DEF Fail
  <2>3. QED BY <1>9, <2>2 DEF Fail, Types, Ids
<1>10. QED BY <1>1, <1>2, <1>3, <1>4, <1>5, <1>6, <1>7, <1>8, <1>9 DEF Check

LEMMA RestSound ==
  ASSUME Types, NEW w \in Workers, Rest(w), UNCHANGED <<now, ticked>>
  PROVE  worker' \in [Workers -> Executions] /\ \A v \in Workers : Sound(worker[v])'
<1>1. Resting \in Executions BY RestingTyped
<1>2. Resting.pc \notin Busy /\ Resting.task \notin Tasks
  BY WorkersAssumption DEF Resting, Busy
<1>3. Resting.since = 0 /\ Resting.stamp = 0 BY DEF Resting
<1>4. 0 <= ticked /\ 0 <= now BY BoundsAssumption DEF Types
<1>5. Sound(Resting) BY <1>1, <1>2, <1>3, <1>4 DEF Sound
<1>6. worker' = [worker EXCEPT ![w] = Resting] BY DEF Rest
<1>7. QED BY <1>5, <1>6, WorkersSound

\* A step that sets the retry status leaves the worker sound.
LEMMA RetrySound ==
  ASSUME Types, NEW w \in Workers, SetRetry(w)
  PROVE  worker' \in [Workers -> Executions] /\ \A v \in Workers : Sound(worker[v])'
<1>1. worker[w] \in Executions /\ Sound(worker[w]) /\ now \in 0 .. MaxTime BY DEF Types
<1>2. UNCHANGED <<now, ticked>> /\ now <= now BY <1>1, BoundsAssumption DEF SetRetry
<1>3. worker[w].pc \in Busy /\ worker[w].task \in Tasks BY <1>1 DEF SetRetry, Busy, Sound
<1>4. attempt[worker[w].task] \in Nat BY <1>3 DEF Types
<1>5. CASE worker' = [worker EXCEPT ![w].pc = "due", ![w].stamp = now,
                                    ![w].seen = attempt[worker[w].task]]
  <2> DEFINE n == attempt[worker[w].task]
             x == [worker[w] EXCEPT !.pc = "due", !.stamp = now, !.seen = n]
  <2>1. n \in Nat BY <1>4
  <2> HIDE DEF n
  <2>2. x \in Executions /\ x.pc = "due" /\ x.task = worker[w].task
        /\ x.since = worker[w].since /\ x.stamp = now
    BY <1>1, <2>1 DEF Executions, Places
  <2>3. Sound(x) BY <1>1, <1>2, <1>3, <2>2 DEF Sound, Busy
  <2>4. worker' = [worker EXCEPT ![w] = x] BY <1>5 DEF n
  <2> HIDE DEF x
  <2> QED BY <1>2, <2>3, <2>4, WorkersSound
<1>6. CASE worker' = [worker EXCEPT ![w].pc = "count", ![w].seen = attempt[worker[w].task]]
  <2> DEFINE n == attempt[worker[w].task]
             x == [worker[w] EXCEPT !.pc = "count", !.seen = n]
  <2>1. n \in Nat BY <1>4
  <2> HIDE DEF n
  <2>2. x \in Executions /\ x.pc = "count" /\ x.task = worker[w].task
        /\ x.since = worker[w].since /\ x.stamp = worker[w].stamp
    BY <1>1, <2>1 DEF Executions, Places
  <2>3. Sound(x) BY <1>1, <1>3, <2>2 DEF Sound, Busy
  <2>4. worker' = [worker EXCEPT ![w] = x] BY <1>6 DEF n
  <2> HIDE DEF x
  <2> QED BY <1>2, <2>3, <2>4, WorkersSound
<1>7. CASE Become(w, "expiry") BY <1>2, <1>3, <1>7, BecomeSound DEF Busy
<1>8. CASE Rest(w) BY <1>2, <1>8, RestSound
<1> QED BY <1>5, <1>6, <1>7, <1>8 DEF SetRetry

LEMMA RetryStatusTyped ==
  ASSUME Types, NEW w \in Workers, SetRetry(w)
  PROVE  /\ due' \in [Tasks -> Nat] /\ expiry' \in [Tasks -> Nat]
         /\ attempt' \in [Tasks -> Nat] /\ isSuccess' \in [Tasks -> BOOLEAN]
<1> DEFINE time == worker[w].stamp
           n == worker[w].seen
<1>1. time \in Nat /\ n \in Nat BY BoundsAssumption DEF Types, Executions
<1> HIDE DEF time, n
<1>2. 2 ^ n \in Nat /\ Second \in Nat BY <1>1, PowerNat, WindowsAssumption
<1>3. 2 ^ n * Second \in Nat BY <1>2
<1>4. time + 2 ^ n * Second \in Nat /\ time + MaxRetryTime \in Nat /\ n + 1 \in Nat
  BY <1>1, <1>3, BoundsAssumption
<1>5. due' \in [Tasks -> Nat] BY <1>4 DEF SetRetry, Types, time, n
<1>6. expiry' \in [Tasks -> Nat] BY <1>4 DEF SetRetry, Types, time
<1>7. attempt' \in [Tasks -> Nat] BY <1>4 DEF SetRetry, Types, n
<1>8. isSuccess' \in [Tasks -> BOOLEAN] BY DEF SetRetry, Types
<1> QED BY <1>5, <1>6, <1>7, <1>8

LEMMA WorkTypes == ASSUME Types, NEW w \in Workers, Work(w) PROVE Types'
<1>1. CASE Check(w) BY <1>1, CheckTypes
<1>2. CASE Succeeded(w)
  <2>1. worker[w].pc \in Busy /\ worker[w].task \in Tasks
    BY <1>2 DEF Succeeded, Types, Sound, Busy
  <2>2. worker' \in [Workers -> Executions] /\ \A v \in Workers : Sound(worker[v])'
    BY <1>2, <2>1, RestSound, BecomeSound DEF Succeeded, Busy
  <2>3. /\ isSuccess' \in [Tasks -> BOOLEAN] /\ outcome' \in [Tasks -> BOOLEAN]
        /\ attempt' \in [Tasks -> Nat]
    <3>1. isSuccess' \in [Tasks -> BOOLEAN] BY <1>2 DEF Succeeded, Cleared, Types
    <3>2. outcome' \in [Tasks -> BOOLEAN] BY <1>2 DEF Succeeded, Types
    <3>3. attempt' \in [Tasks -> Nat] BY <1>2 DEF Succeeded, Types
    <3> QED BY <3>1, <3>2, <3>3
  <2>4. QED BY <1>2, <2>2, <2>3 DEF Succeeded, Types, Ids
<1>3. CASE Failed(w)
  <2>1. worker[w].pc \in Busy BY <1>3 DEF Failed, Busy
  <2>2. worker' \in [Workers -> Executions] /\ \A v \in Workers : Sound(worker[v])'
    BY <1>3, <2>1, RestSound, BecomeSound DEF Failed, Busy
  <2>3. outcome' \in [Tasks -> BOOLEAN] BY <1>3 DEF Failed, Types
  <2>4. QED BY <1>3, <2>2, <2>3 DEF Failed, Types, Ids, taskVars
<1>4. CASE SetRetry(w)
  <2>1. worker' \in [Workers -> Executions] /\ \A v \in Workers : Sound(worker[v])'
    BY <1>4, RetrySound
  <2>2. QED BY <1>4, <2>1, RetryStatusTyped DEF SetRetry, Types, Ids, historyVars
<1>5. QED BY <1>1, <1>2, <1>3, <1>4 DEF Work

LEMMA NextTypes == Types /\ [Next]_vars => Types'
<1> SUFFICES ASSUME Types, [Next]_vars PROVE Types'
  OBVIOUS
<1>1. CASE Dispatch BY <1>1, DispatchTypes
<1>2. ASSUME NEW w \in Workers, Work(w) PROVE Types' BY <1>2, WorkTypes
<1>3. CASE Pass
  <2>1. now' = now + 1 /\ now' \in 0 .. MaxTime /\ worker' = worker /\ ticked' = ticked
    BY <1>3, BoundsAssumption DEF Pass, Types
  <2>2. ASSUME NEW v \in Workers PROVE Sound(worker[v])'
    <3>1. worker[v] \in Executions /\ Sound(worker[v]) BY DEF Types
    <3>2. worker[v].stamp \in 0 .. MaxTime BY <3>1 DEF Executions
    <3>3. worker[v].stamp <= now + 1
      BY <2>1, <3>1, <3>2, BoundsAssumption DEF Sound, Types
    <3>4. QED BY <2>1, <3>1, <3>3 DEF Sound
  <2>3. ticked <= now + 1 BY BoundsAssumption DEF Types
  <2>4. QED BY <1>3, <2>1, <2>2, <2>3 DEF Pass, Types, Ids, taskVars, historyVars
<1>4. CASE UNCHANGED vars
  BY <1>4 DEF vars, Types, Ids, Sound, taskVars, historyVars
<1>5. QED BY <1>1, <1>2, <1>3, <1>4 DEF Next

-----------------------------------------------------------------------------
(* The retry status. *)

\* A check leaves the task of every worker, and no worker is at its status by it.
LEMMA CheckFrame ==
  ASSUME Types, NEW w \in Workers, Check(w)
  PROVE  /\ UNCHANGED <<taskVars, outcome, overlapped, scan, ticked, now>>
         /\ \A v \in Workers : v # w => worker'[v] = worker[v]
         /\ worker'[w].task = worker[w].task /\ worker'[w].since = worker[w].since
         /\ worker'[w].again = worker[w].again
         /\ worker[w].task \in Tasks
         /\ worker[w].pc \in Busy \ Behind
         /\ worker'[w].pc \in Busy \ Behind
<1>1. worker \in [Workers -> Executions] /\ Sound(worker[w]) BY DEF Types
<1>2. UNCHANGED <<taskVars, outcome, overlapped, scan, ticked, now>>
  BY ZenonT(30)
  DEF Check, Collect, InsertRow, Query, Save, SaveUncommitted, Delete, Push, CleanUp, Fail,
      taskVars, historyVars
<1>3. \E x \in Busy \ Behind :
        \/ worker' = [worker EXCEPT ![w].pc = x]
        \/ worker' = [worker EXCEPT ![w].pc = x, ![w].stamp = now]
        \/ \E of : worker' = [worker EXCEPT ![w].pc = x, ![w].stamp = now, ![w].of = of]
  BY DEF Check, Collect, InsertRow, Query, Save, SaveUncommitted, Delete, Push, CleanUp, Fail,
         Become, Busy, Behind
<1>4. /\ \A v \in Workers : v # w => worker'[v] = worker[v]
      /\ worker'[w].task = worker[w].task /\ worker'[w].since = worker[w].since
      /\ worker'[w].again = worker[w].again
      /\ worker'[w].pc \in Busy \ Behind
  BY <1>1, <1>3 DEF Executions
<1>5. worker[w].pc \in Busy \ Behind
  BY <1>1 DEF Check, Collect, InsertRow, Query, Save, SaveUncommitted, Delete, Push, CleanUp,
              Fail, At, Busy, Behind
<1>6. QED BY <1>1, <1>2, <1>4, <1>5 DEF Sound

LEMMA InitStatus == Init => Status
<1> SUFFICES ASSUME Init PROVE Status
  OBVIOUS
<1>1. \A w \in Workers : worker[w].task \notin Tasks
  BY WorkersAssumption DEF Init, Resting
<1>2. QED BY <1>1, BoundsAssumption DEF Init, Status, StatusOf, Settled, Agree

\* The status of a task at which no worker moves, or only within its check.
LEMMA StatusFrame ==
  ASSUME NEW t, StatusOf(t), UNCHANGED <<attempt[t], isSuccess[t], outcome[t]>>,
         \A v \in Workers : worker'[v].task = t <=> worker[v].task = t,
         \A v \in Workers : worker[v].task = t =>
           \/ worker'[v] = worker[v]
           \/ worker[v].pc \notin Behind /\ worker'[v].pc \notin Behind
  PROVE  StatusOf(t)'
<1>1. \A v, w \in Workers : worker'[v].task = t /\ worker'[w].task = t => v = w BY DEF StatusOf
<1>2. attempt'[t] <= MaxRetries BY DEF StatusOf
<1>3. ASSUME NEW w \in Workers, worker'[w].task = t
      PROVE  /\ worker'[w].pc \in {"retry", "due", "expiry", "count"} =>
                  ~outcome'[t] /\ attempt'[t] < MaxRetries
             /\ worker'[w].pc \in {"due", "expiry", "count"} => ~isSuccess'[t]
             /\ worker'[w].pc = "count" => worker'[w].seen = attempt'[t]
             /\ worker'[w].pc = "clear" => isSuccess'[t] /\ outcome'[t]
  <2>1. CASE worker'[w] = worker[w] BY <1>3, <2>1 DEF StatusOf
  <2>2. CASE worker'[w].pc \notin Behind BY <2>2 DEF Behind
  <2> QED BY <1>3, <2>1, <2>2
<1>4. ASSUME \A w \in Workers : worker'[w].task = t => worker'[w].pc \notin Behind
      PROVE  Settled(t)'
  <2>1. \A w \in Workers : worker[w].task = t => worker[w].pc \notin Behind BY <1>4
  <2>2. Settled(t) BY <2>1 DEF StatusOf
  <2> QED BY <2>2 DEF Settled
<1> QED BY <1>1, <1>2, <1>3, <1>4 DEF StatusOf

\* A step of one worker at its task, which says what that worker leaves.
LEMMA StatusStep ==
  ASSUME Types, Status, NEW w \in Workers, worker[w].task \in Tasks, overlapped' = overlapped,
         \A v \in Workers : v # w => worker'[v] = worker[v],
         worker'[w].task = worker[w].task \/ worker'[w].task \notin Tasks,
         \A u \in Tasks : u # worker[w].task => UNCHANGED <<attempt[u], isSuccess[u], outcome[u]>>,
         LET t == worker[w].task
         IN StatusOf(t) =>
              /\ attempt'[t] <= MaxRetries
              /\ worker'[w].task = t =>
                   /\ worker'[w].pc \in {"retry", "due", "expiry", "count"} =>
                        ~outcome'[t] /\ attempt'[t] < MaxRetries
                   /\ worker'[w].pc \in {"due", "expiry", "count"} => ~isSuccess'[t]
                   /\ worker'[w].pc = "count" => worker'[w].seen = attempt'[t]
                   /\ worker'[w].pc = "clear" => isSuccess'[t] /\ outcome'[t]
              /\ worker'[w].task # t \/ worker'[w].pc \notin Behind =>
                   Agree(isSuccess'[t], outcome'[t], attempt'[t])
  PROVE  Status'
<1> SUFFICES ASSUME NEW u \in Tasks, u \notin overlapped PROVE StatusOf(u)'
  BY DEF Status
<1>1. StatusOf(u) BY DEF Status
<1>2. CASE u # worker[w].task
  <2>1. \A v \in Workers : worker'[v].task = u <=> worker[v].task = u BY <1>2
  <2>2. \A v \in Workers : worker[v].task = u => worker'[v] = worker[v] BY <1>2
  <2> QED BY <1>1, <1>2, <2>1, <2>2, StatusFrame
<1>3. CASE u = worker[w].task
  <2>1. \A v \in Workers : worker'[v].task = u => v = w BY <1>1, <1>3 DEF StatusOf
  <2>2. attempt'[u] <= MaxRetries BY <1>1, <1>3
  <2>3. ASSUME worker'[w].task = u
        PROVE  /\ worker'[w].pc \in {"retry", "due", "expiry", "count"} =>
                    ~outcome'[u] /\ attempt'[u] < MaxRetries
               /\ worker'[w].pc \in {"due", "expiry", "count"} => ~isSuccess'[u]
               /\ worker'[w].pc = "count" => worker'[w].seen = attempt'[u]
               /\ worker'[w].pc = "clear" => isSuccess'[u] /\ outcome'[u]
    BY <1>1, <1>3, <2>3
  <2>4. worker'[w].task # u \/ worker'[w].pc \notin Behind =>
          Agree(isSuccess'[u], outcome'[u], attempt'[u])
    BY <1>1, <1>3
  <2> QED BY <2>1, <2>2, <2>3, <2>4 DEF StatusOf, Settled
<1> QED BY <1>2, <1>3

LEMMA SendStatus ==
  ASSUME Types, Status, NEW w \in Workers, Send(w)
  PROVE  Status'
<1>1. UNCHANGED <<attempt, isSuccess, outcome>> BY DEF Send, taskVars
<1>2. worker[w].task \notin Tasks BY WorkersAssumption DEF Send, Resting
<1>3. /\ worker'[w].task = scan.task /\ worker'[w].pc = "begin"
      /\ \A v \in Workers : v # w => worker'[v] = worker[v]
  BY DEF Send, Resting, Types
<1> SUFFICES ASSUME NEW t \in Tasks, t \notin overlapped' PROVE StatusOf(t)'
  BY DEF Status
<1>4. t \notin overlapped /\ StatusOf(t) BY DEF Send, Status
<1>5. CASE t # scan.task
  <2>1. \A v \in Workers : worker'[v].task = t <=> worker[v].task = t BY <1>2, <1>3, <1>5
  <2>2. \A v \in Workers : worker[v].task = t => worker'[v] = worker[v] BY <1>2, <1>3, <1>5
  <2> QED BY <1>1, <1>4, <2>1, <2>2, StatusFrame
<1>6. CASE t = scan.task
  <2>1. \A v \in Workers : worker[v].task # t BY <1>6 DEF Send
  <2>2. \A v \in Workers : worker'[v].task = t => v = w BY <1>3, <2>1
  <2>3. attempt[t] <= MaxRetries /\ Settled(t) BY <1>4, <2>1 DEF StatusOf
  <2>4. Settled(t)' BY <1>1, <2>3 DEF Settled
  <2> QED BY <1>1, <1>3, <2>2, <2>3, <2>4 DEF StatusOf
<1> QED BY <1>5, <1>6

LEMMA SucceededStatus == ASSUME Types, Status, NEW w \in Workers, Succeeded(w) PROVE Status'
<1> DEFINE t == worker[w].task
<1>1. t \in Tasks /\ worker[w].pc \in {"ok", "clear"} BY DEF Succeeded, Types, Sound, Busy
<1>2. attempt \in [Tasks -> Nat] /\ isSuccess \in [Tasks -> BOOLEAN]
      /\ outcome \in [Tasks -> BOOLEAN] /\ overlapped' = overlapped
  BY DEF Types, Succeeded
<1>3. \A v \in Workers : v # w => worker'[v] = worker[v]
  BY DEF Succeeded, Rest, Become, Types
<1>4. \A u \in Tasks : u # t => UNCHANGED <<attempt[u], isSuccess[u], outcome[u]>>
  BY <1>2 DEF Succeeded, Cleared
<1>5. CASE worker[w].pc = "ok"
  <2>1. worker'[w].task = t /\ worker'[w].pc = "clear"
    BY <1>5 DEF Succeeded, Become, Types, Executions
  <2>2. attempt'[t] = attempt[t] /\ isSuccess'[t] /\ outcome'[t]
    BY <1>1, <1>2, <1>5 DEF Succeeded, Cleared
  <2>3. StatusOf(t) => attempt'[t] <= MaxRetries BY <2>2 DEF StatusOf
  <2> QED BY <1>1, <1>2, <1>3, <1>4, <2>1, <2>2, <2>3, StatusStep DEF Behind
<1>6. CASE worker[w].pc = "clear"
  <2>1. worker'[w].task \notin Tasks
    BY <1>6, WorkersAssumption DEF Succeeded, Rest, Resting, Types
  <2>2. attempt'[t] = 0 /\ isSuccess'[t] = isSuccess[t] /\ outcome'[t] = outcome[t]
    BY <1>1, <1>2, <1>6 DEF Succeeded
  <2>3. ASSUME StatusOf(t) PROVE Agree(isSuccess'[t], outcome'[t], attempt'[t])
    <3>1. isSuccess[t] /\ outcome[t] BY <1>6, <2>3 DEF StatusOf
    <3>2. isSuccess[t] \in BOOLEAN /\ outcome[t] \in BOOLEAN BY <1>1, <1>2
    <3>3. isSuccess'[t] = TRUE /\ outcome'[t] = TRUE BY <2>2, <3>1, <3>2
    <3> QED BY <2>2, <3>3 DEF Agree
  <2>4. attempt'[t] <= MaxRetries BY <2>2, BoundsAssumption
  <2> QED BY <1>1, <1>2, <1>3, <1>4, <2>1, <2>3, <2>4, StatusStep
<1> QED BY <1>1, <1>5, <1>6

LEMMA FailedStatus == ASSUME Types, Status, NEW w \in Workers, Failed(w) PROVE Status'
<1> DEFINE t == worker[w].task
<1>1. t \in Tasks /\ worker[w].pc = "failed" BY DEF Failed, Types, Sound, Busy
<1>2. /\ UNCHANGED <<attempt, isSuccess, overlapped>>
      /\ outcome' = [outcome EXCEPT ![t] = FALSE] /\ outcome \in [Tasks -> BOOLEAN]
      /\ attempt \in [Tasks -> Nat] /\ isSuccess \in [Tasks -> BOOLEAN]
  BY DEF Failed, taskVars, Types
<1>3. \A v \in Workers : v # w => worker'[v] = worker[v]
  BY DEF Failed, Rest, Become, Types
<1>4. \A u \in Tasks : u # t => UNCHANGED <<attempt[u], isSuccess[u], outcome[u]>> BY <1>2
<1>5. outcome'[t] = FALSE /\ attempt[t] \in Nat BY <1>1, <1>2
<1>6. StatusOf(t) => attempt'[t] <= MaxRetries BY <1>2 DEF StatusOf
<1>7. CASE attempt[t] < MaxRetries
  <2>1. worker'[w].task = t /\ worker'[w].pc = "retry"
    BY <1>7 DEF Failed, Become, RetriesLeft, Types, Executions
  <2> QED BY <1>1, <1>2, <1>3, <1>4, <1>5, <1>6, <1>7, <2>1, StatusStep DEF Behind
<1>8. CASE ~(attempt[t] < MaxRetries)
  <2>1. worker'[w].task \notin Tasks
    BY <1>8, WorkersAssumption DEF Failed, Rest, Resting, RetriesLeft, Types
  <2>2. ASSUME StatusOf(t) PROVE Agree(isSuccess'[t], outcome'[t], attempt'[t])
    <3>1. \A v \in Workers : worker[v].task = t => v = w BY <2>2 DEF StatusOf
    <3>2. Settled(t) BY <1>1, <2>2, <3>1 DEF StatusOf, Behind
    <3>3. attempt[t] # 0 BY <1>5, <1>8, BoundsAssumption
    <3>4. isSuccess[t] = FALSE BY <1>1, <1>2, <3>2, <3>3 DEF Settled, Agree
    <3>5. attempt'[t] # 0 /\ isSuccess'[t] = FALSE BY <1>2, <3>3, <3>4
    <3> QED BY <1>5, <3>5 DEF Agree
  <2> QED BY <1>1, <1>2, <1>3, <1>4, <1>6, <2>1, <2>2, StatusStep
<1> QED BY <1>7, <1>8

LEMMA SetRetryStatus == ASSUME Types, Status, NEW w \in Workers, SetRetry(w) PROVE Status'
<1> DEFINE t == worker[w].task
<1>1. t \in Tasks /\ worker[w].pc \in {"retry", "due", "expiry", "count"}
  BY DEF SetRetry, Types, Sound, Busy
<1>2. /\ attempt \in [Tasks -> Nat] /\ isSuccess \in [Tasks -> BOOLEAN]
      /\ UNCHANGED <<outcome, overlapped>>
  BY DEF SetRetry, historyVars, Types
<1>3. \A v \in Workers : v # w => worker'[v] = worker[v]
  BY DEF SetRetry, Rest, Become, Types
<1>4. \A u \in Tasks : u # t => UNCHANGED <<attempt[u], isSuccess[u], outcome[u]>>
  BY <1>2 DEF SetRetry
<1>5. ASSUME StatusOf(t) PROVE attempt[t] < MaxRetries /\ ~outcome[t] /\ attempt[t] <= MaxRetries
  BY <1>1, <1>5 DEF StatusOf
<1>6. CASE worker[w].pc = "retry"
  <2>1. worker'[w].task = t /\ worker'[w].pc = "due"
    BY <1>6 DEF SetRetry, Types, Executions
  <2>2. attempt' = attempt /\ isSuccess'[t] = FALSE BY <1>1, <1>2, <1>6 DEF SetRetry
  <2> QED BY <1>1, <1>2, <1>3, <1>4, <1>5, <2>1, <2>2, StatusStep DEF Behind
<1>7. CASE worker[w].pc = "due"
  <2>1. worker'[w].task = t /\ worker'[w].pc = "expiry"
    BY <1>7 DEF SetRetry, Become, Types, Executions
  <2>2. attempt' = attempt /\ isSuccess' = isSuccess BY <1>7 DEF SetRetry
  <2>3. StatusOf(t) => ~isSuccess[t] BY <1>7 DEF StatusOf
  <2> QED BY <1>1, <1>2, <1>3, <1>4, <1>5, <2>1, <2>2, <2>3, StatusStep DEF Behind
<1>8. CASE worker[w].pc = "expiry"
  <2>1. worker'[w].task = t /\ worker'[w].pc = "count" /\ worker'[w].seen = attempt[t]
    BY <1>8 DEF SetRetry, Types, Executions
  <2>2. attempt' = attempt /\ isSuccess' = isSuccess BY <1>8 DEF SetRetry
  <2>3. StatusOf(t) => ~isSuccess[t] BY <1>8 DEF StatusOf
  <2> QED BY <1>1, <1>2, <1>3, <1>4, <1>5, <2>1, <2>2, <2>3, StatusStep DEF Behind
<1>9. CASE worker[w].pc = "count"
  <2>1. worker'[w].task \notin Tasks
    BY <1>9, WorkersAssumption DEF SetRetry, Rest, Resting, Types
  <2>2. attempt'[t] = worker[w].seen + 1 /\ isSuccess' = isSuccess
    BY <1>1, <1>2, <1>9 DEF SetRetry
  <2>3. ASSUME StatusOf(t)
        PROVE  attempt'[t] <= MaxRetries /\ Agree(isSuccess'[t], outcome'[t], attempt'[t])
    <3>1. worker[w].seen = attempt[t] /\ ~isSuccess[t] BY <1>9, <2>3 DEF StatusOf
    <3>2. attempt[t] < MaxRetries /\ ~outcome[t] BY <1>5, <2>3
    <3>3. attempt'[t] = attempt[t] + 1 /\ attempt[t] \in Nat BY <1>1, <1>2, <2>2, <3>1
    <3>4. attempt'[t] <= MaxRetries /\ attempt'[t] # 0 BY <3>2, <3>3, BoundsAssumption
    <3>5. isSuccess[t] \in BOOLEAN /\ outcome[t] \in BOOLEAN BY <1>1 DEF Types
    <3>6. isSuccess'[t] = FALSE /\ outcome'[t] = FALSE BY <1>2, <2>2, <3>1, <3>2, <3>5
    <3> QED BY <3>4, <3>6 DEF Agree
  <2> QED BY <1>1, <1>2, <1>3, <1>4, <2>1, <2>3, StatusStep
<1> QED BY <1>1, <1>6, <1>7, <1>8, <1>9

LEMMA NextStatus == Types /\ Status /\ [Next]_vars => Status'
<1> SUFFICES ASSUME Types, Status, [Next]_vars PROVE Status'
  OBVIOUS
<1>1. ASSUME NEW w \in Workers, Send(w) PROVE Status' BY <1>1, SendStatus
<1>2. ASSUME NEW w \in Workers, Check(w) PROVE Status'
  <2>1. UNCHANGED <<attempt, isSuccess, outcome, overlapped>> BY <1>2, CheckFrame DEF taskVars
  <2>2. \A v \in Workers : worker'[v].task = worker[v].task BY <1>2, CheckFrame
  <2>3. \A v \in Workers :
          worker'[v] = worker[v] \/ (worker[v].pc \notin Behind /\ worker'[v].pc \notin Behind)
    BY <1>2, CheckFrame
  <2> QED BY <2>1, <2>2, <2>3, StatusFrame DEF Status
<1>3. ASSUME NEW w \in Workers, Succeeded(w) PROVE Status' BY <1>3, SucceededStatus
<1>4. ASSUME NEW w \in Workers, Failed(w) PROVE Status' BY <1>4, FailedStatus
<1>5. ASSUME NEW w \in Workers, SetRetry(w) PROVE Status' BY <1>5, SetRetryStatus
<1>6. CASE Tick \/ (\E t \in Tasks : Visit(t)) \/ Look \/ Pass \/ UNCHANGED vars
  <2>1. UNCHANGED <<attempt, isSuccess, outcome, overlapped, worker>>
    BY <1>6 DEF Tick, Visit, Look, Pass, vars, taskVars, historyVars
  <2>2. QED BY <2>1, StatusFrame DEF Status
<1>7. QED BY <1>1, <1>2, <1>3, <1>4, <1>5, <1>6 DEF Next, Dispatch, Work

-----------------------------------------------------------------------------
(* Rows. *)

LEMMA WindowNat ==
  /\ \A table \in Tables : Window(table) \in Nat
  /\ \A t \in Batch : Source(t) \in Tables /\ t \in Tasks /\ Window(Source(t)) = Interval(t)
BY WindowsAssumption DEF Window, Source, Tables, Batch, Interval, Tasks

LEMMA DeletesKept ==
  ASSUME Types, Kept, NEW table \in Tables, NEW time \in 0 .. MaxTime, time <= now,
         Deletes(table, time), UNCHANGED <<ever, now>>
  PROVE  Kept'
<1> SUFFICES ASSUME NEW u \in Tables, NEW r \in ever[u]
             PROVE  r.at <= r.inserted /\ r.inserted <= now
                    /\ (r \notin rows'[u] => r.at <= now - Window(u))
  BY DEF Kept
<1>1. r.at <= r.inserted /\ r.inserted <= now /\ (r \notin rows[u] => r.at <= now - Window(u))
  BY DEF Kept
<1>2. r.at \in Nat /\ now \in Nat /\ time \in Nat /\ Window(u) \in Nat
  BY WindowNat, BoundsAssumption DEF Types, Rows
<1>3. rows'[u] = rows[u] \/ (u = table /\ rows'[u] = {x \in rows[u] : ~Old(x, u, time)})
  BY DEF Deletes, Without, Types
<1>4. r \in rows[u] /\ r \notin rows'[u] => r.at <= now - Window(u)
  BY <1>2, <1>3 DEF Old
<1>5. QED BY <1>1, <1>4

LEMMA InsertKept ==
  ASSUME Types, Kept, NEW table \in Tables, NEW stamp \in 0 .. MaxTime, stamp <= now,
         Insert(table, stamp), UNCHANGED now
  PROVE  Kept'
<1>1. now \in Nat /\ now <= now BY BoundsAssumption DEF Types
<1>2. Row(stamp).at = stamp /\ Row(stamp).inserted = now BY DEF Row
<1>3. \A u \in Tables : /\ ever'[u] = ever[u] \union (IF u = table THEN {Row(stamp)} ELSE {})
                        /\ rows'[u] = rows[u] \union (IF u = table THEN {Row(stamp)} ELSE {})
  BY DEF Insert, Types
<1>4. QED BY <1>1, <1>2, <1>3 DEF Kept

\* A row that is inserted now is none that a check should have seen.
LEMMA InsertSaw ==
  ASSUME Types, NEW table \in Tables, NEW stamp, Insert(table, stamp),
         NEW t \in Batch, NEW time \in Nat, time <= now, NEW of, Saw(ever, t, time, of)
  PROVE  Saw(ever', t, time, of)
<1>1. now \in Nat /\ time \in Nat BY BoundsAssumption DEF Types
<1>2. Row(stamp).inserted = now BY DEF Row
<1>3. ever'[Source(t)] \subseteq ever[Source(t)] \union {Row(stamp)}
  BY WindowNat DEF Insert, Types
<1>4. ~(now < time) BY <1>1
<1>5. QED BY <1>2, <1>3, <1>4 DEF Saw

LEMMA NextKept == Types /\ Kept /\ [Next]_vars => Kept'
<1> SUFFICES ASSUME Types, Kept, [Next]_vars PROVE Kept'
  OBVIOUS
<1>1. ASSUME NEW w \in Workers, InsertRow(w) PROVE Kept'
  BY <1>1, InsertKept DEF InsertRow, Types, Executions, Sound, Tables
<1>2. ASSUME NEW w \in Workers, Save(w) PROVE Kept'
  <2>1. PICK time \in worker[w].stamp .. now : Insert("hourly", time) BY <1>2 DEF Save
  <2>2. time \in 0 .. MaxTime /\ time <= now BY <2>1, BoundsAssumption DEF Types, Executions
  <2> QED BY <1>2, <2>1, <2>2, InsertKept DEF Save, Tables
<1>3. ASSUME NEW w \in Workers, Delete(w) PROVE Kept'
  <2>1. worker[w].task \in Batch /\ Source(worker[w].task) \in Tables
    BY <1>3, WindowNat DEF Delete, At
  <2>2. now \in 0 .. MaxTime /\ now <= now BY BoundsAssumption DEF Types
  <2>3. QED BY <1>3, <2>1, <2>2, DeletesKept DEF Delete, historyVars
<1>4. ASSUME NEW w \in Workers, CleanUp(w) PROVE Kept'
  <2>1. now \in 0 .. MaxTime /\ now <= now BY BoundsAssumption DEF Types
  <2>2. worker[w].stamp \in 0 .. MaxTime /\ worker[w].stamp <= now
    BY DEF Types, Executions, Sound
  <2>3. "real" \in Tables /\ "hourly" \in Tables BY DEF Tables
  <2>4. QED BY <1>4, <2>1, <2>2, <2>3, DeletesKept DEF CleanUp, historyVars
<1>5. CASE Pass
  <2>1. now' = now + 1 /\ rows' = rows /\ ever' = ever BY <1>5 DEF Pass, historyVars
  <2>2. SUFFICES ASSUME NEW u \in Tables, NEW r \in ever'[u]
                 PROVE  r.at <= r.inserted /\ r.inserted <= now'
                        /\ (r \notin rows'[u] => r.at <= now' - Window(u))
    BY DEF Kept
  <2>3. r.at \in Nat /\ r.inserted \in Nat /\ now \in Nat /\ Window(u) \in Nat
    BY <2>1, WindowNat, BoundsAssumption DEF Types, Rows
  <2>4. r.at <= r.inserted /\ r.inserted <= now /\ (r \notin rows[u] => r.at <= now - Window(u))
    BY <2>1 DEF Kept
  <2>5. QED BY <2>1, <2>3, <2>4
<1>6. CASE UNCHANGED <<rows, ever, now>> BY <1>6 DEF Kept
<1>7. ASSUME NEW w \in Workers, Work(w) PROVE Kept'
  <2>1. CASE Collect(w) \/ Query(w) \/ SaveUncommitted(w) \/ Push(w) \/ Fail(w)
             \/ Succeeded(w) \/ Failed(w) \/ SetRetry(w)
    BY <1>6, <2>1 DEF Collect, Query, SaveUncommitted, Push, Fail, Succeeded, Failed, SetRetry,
                      historyVars
  <2>2. QED BY <1>1, <1>2, <1>3, <1>4, <1>7, <2>1 DEF Work, Check
<1>8. CASE Dispatch \/ UNCHANGED vars
  BY <1>6, <1>8 DEF Dispatch, Tick, Visit, Look, Send, vars, historyVars
<1>9. QED BY <1>5, <1>7, <1>8 DEF Next

\* A worker that looks, looked before, at the same rows.
SameLook(w) ==
  Looking(worker'[w]) =>
    /\ Looking(worker[w]) /\ worker'[w].task = worker[w].task
    /\ worker'[w].stamp = worker[w].stamp /\ worker'[w].of = worker[w].of

LEMMA SeenFrame ==
  ASSUME Types, Seen, \A w \in Workers : SameLook(w), UNCHANGED <<ever, sums>>,
         now' = now \/ now' = now + 1
  PROVE  Seen'
<1>1. ASSUME NEW w \in Workers, Looking(worker'[w])
      PROVE  Saw(ever', worker'[w].task, worker'[w].stamp, worker'[w].of)
  BY <1>1 DEF Seen, SameLook
<1>2. ASSUME NEW t \in Batch, NEW s \in Complete(t)'
      PROVE  s.at <= now' /\ Saw(ever', t, s.at, s.of)
  <2>1. s \in Complete(t) /\ s.at \in Nat BY DEF Complete, Types, SumRecords
  <2>2. s.at <= now' BY <2>1, BoundsAssumption DEF Seen, Types
  <2>3. QED BY <2>1, <2>2 DEF Seen
<1>3. QED BY <1>1, <1>2 DEF Seen, Looking

LEMMA QuerySeen ==
  ASSUME Types, Kept, Seen, NEW w \in Workers, Query(w) PROVE Seen'
<1> DEFINE t == worker[w].task
           found == {r \in rows[Source(t)] : InWindow(r, Source(t))}
<1>1. t \in Batch /\ UNCHANGED <<ever, sums, now>> BY DEF Query, At, historyVars
<1>2. /\ \A v \in Workers : v # w => worker'[v] = worker[v]
      /\ worker'[w].task = t /\ worker'[w].stamp = now /\ worker'[w].of = found
  BY DEF Query, Types, Executions
<1>3. Saw(ever, t, now, found)
  <2>1. SUFFICES ASSUME NEW r \in ever[Source(t)], now - Window(Source(t)) < r.at,
                        r.inserted < now
                 PROVE  r \in found
    BY DEF Saw
  <2>2. Source(t) \in Tables /\ Window(Source(t)) \in Nat BY <1>1, WindowNat
  <2>3. r.at \in Nat /\ r.inserted \in Nat /\ now \in Nat
    BY <2>2, BoundsAssumption DEF Types, Rows
  <2>4. r.at <= r.inserted /\ (r \notin rows[Source(t)] => r.at <= now - Window(Source(t)))
    BY <2>2 DEF Kept
  <2>5. r \in rows[Source(t)] /\ now - Window(Source(t)) <= r.at /\ r.at <= now
    BY <2>1, <2>2, <2>3, <2>4
  <2>6. QED BY <2>5 DEF InWindow
<1> HIDE DEF t, found
<1>4. ASSUME NEW v \in Workers, Looking(worker'[v])
      PROVE  Saw(ever', worker'[v].task, worker'[v].stamp, worker'[v].of)
  <2>1. CASE v = w BY <1>1, <1>2, <1>3, <2>1
  <2>2. CASE v # w BY <1>1, <1>2, <1>4, <2>2 DEF Seen
  <2>3. QED BY <2>1, <2>2
<1>5. \A u \in Batch : \A s \in Complete(u)' : s.at <= now' /\ Saw(ever', u, s.at, s.of)
  BY <1>1 DEF Seen, Complete
<1>6. QED BY <1>4, <1>5 DEF Seen, Looking

LEMMA InsertSeen ==
  ASSUME Types, Seen, NEW table \in Tables, NEW stamp, Insert(table, stamp),
         \A v \in Workers : SameLook(v), UNCHANGED now,
         \A t \in Batch : UNCHANGED Complete(t)
  PROVE  Seen'
<1>1. ASSUME NEW t \in Batch, NEW time \in Nat, time <= now, NEW of,
             Saw(ever, t, time, of)
      PROVE  Saw(ever', t, time, of)
  BY <1>1, InsertSaw
<1>2. ASSUME NEW v \in Workers, Looking(worker'[v])
      PROVE  Saw(ever', worker'[v].task, worker'[v].stamp, worker'[v].of)
  <2>1. /\ Looking(worker[v]) /\ worker'[v].task = worker[v].task
        /\ worker'[v].stamp = worker[v].stamp /\ worker'[v].of = worker[v].of
    BY <1>2 DEF SameLook
  <2>2. worker[v].task \in Batch /\ worker[v].stamp \in Nat /\ worker[v].stamp <= now
    BY <2>1, BoundsAssumption DEF Looking, Types, Executions, Sound
  <2>3. Saw(ever, worker[v].task, worker[v].stamp, worker[v].of) BY <2>1 DEF Seen
  <2>4. QED BY <1>1, <2>1, <2>2, <2>3
<1>3. ASSUME NEW t \in Batch, NEW s \in Complete(t)'
      PROVE  s.at <= now' /\ Saw(ever', t, s.at, s.of)
  <2>1. s \in Complete(t) /\ s.at \in Nat BY DEF Complete, Types, SumRecords
  <2>2. QED BY <1>1, <2>1 DEF Seen
<1>4. QED BY <1>2, <1>3 DEF Seen, Looking

LEMMA PushSeen ==
  ASSUME Types, Seen, NEW w \in Workers, Push(w) PROVE Seen'
<1>1. UNCHANGED <<ever, now>> BY DEF Push
<1>2. /\ worker[w].task \in Batch /\ Looking(worker[w]) /\ worker[w].stamp <= now
      /\ sums' = [sums EXCEPT !.sent = @ \union {Sum(w)}]
  BY DEF Push, At, Looking, Types, Sound
<1>3. ASSUME NEW v \in Workers, Looking(worker'[v])
      PROVE  Saw(ever', worker'[v].task, worker'[v].stamp, worker'[v].of)
  <2>1. worker'[v] = worker[v]
    BY <1>3 DEF Push, Become, Looking, Types, Executions
  <2>2. QED BY <1>1, <1>3, <2>1 DEF Seen
<1>4. ASSUME NEW t \in Batch, NEW s \in Complete(t)'
      PROVE  s.at <= now' /\ Saw(ever', t, s.at, s.of)
  <2>1. s \in Complete(t) \/ (s = Sum(w) /\ t = worker[w].task)
    BY <1>2 DEF Complete, Types, Sum
  <2>2. CASE s \in Complete(t) BY <1>1, <2>2 DEF Seen
  <2>3. CASE s = Sum(w) /\ t = worker[w].task BY <1>1, <1>2, <2>3 DEF Seen, Sum
  <2>4. QED BY <2>1, <2>2, <2>3
<1>5. QED BY <1>3, <1>4 DEF Seen, Looking

LEMMA BecomeLook ==
  ASSUME Types, NEW w \in Workers, NEW pc, Become(w, pc) \/ Rest(w),
         Become(w, pc) /\ pc \in {"save", "delete", "push"} =>
           worker[w].pc \in {"save", "delete", "push"}
  PROVE  \A v \in Workers : SameLook(v)
<1>1. worker \in [Workers -> Executions] BY DEF Types
<1>2. CASE Become(w, pc) BY <1>1, <1>2 DEF Become, SameLook, Looking, Executions
<1>3. CASE Rest(w)
  BY <1>1, <1>3 DEF Rest, Resting, SameLook, Looking
<1>4. QED BY <1>2, <1>3

LEMMA NextSeen == Types /\ Kept /\ Seen /\ [Next]_vars => Seen'
<1> SUFFICES ASSUME Types, Kept, Seen, [Next]_vars PROVE Seen'
  OBVIOUS
<1>1. ASSUME NEW w \in Workers, InsertRow(w) PROVE Seen'
  <2>1. \A v \in Workers : SameLook(v) BY <1>1, BecomeLook DEF InsertRow
  <2>2. QED BY <1>1, <2>1, InsertSeen DEF InsertRow, Tables, Complete
<1>2. ASSUME NEW w \in Workers, Save(w) PROVE Seen'
  <2>1. \A v \in Workers : SameLook(v) BY <1>2, BecomeLook DEF Save, At
  <2>2. sums'.sent = sums.sent BY <1>2 DEF Save, Types
  <2>3. \A t \in Batch : UNCHANGED Complete(t) BY <2>2 DEF Complete
  <2>4. QED BY <1>2, <2>1, <2>3, InsertSeen DEF Save, Tables
<1>3. ASSUME NEW w \in Workers, Query(w) PROVE Seen' BY <1>3, QuerySeen
<1>4. ASSUME NEW w \in Workers, Push(w) PROVE Seen' BY <1>4, PushSeen
<1>5. ASSUME NEW w \in Workers,
             \/ SaveUncommitted(w) \/ Delete(w) \/ Fail(w)
             \/ Succeeded(w) \/ Failed(w) \/ SetRetry(w)
      PROVE  Seen'
  <2>1. \A v \in Workers : SameLook(v)
    <3>1. CASE SetRetry(w)
      <4>1. worker'[w].pc \notin {"save", "delete", "push"}
        BY <3>1 DEF SetRetry, Become, Rest, Resting, Types, Executions
      <4>2. \A v \in Workers : v # w => worker'[v] = worker[v]
        BY <3>1 DEF SetRetry, Become, Rest, Types
      <4> QED BY <4>1, <4>2 DEF SameLook, Looking
    <3> QED BY <1>5, <3>1, BecomeLook DEF SaveUncommitted, Delete, Fail, Succeeded, Failed, At
  <2>2. UNCHANGED <<ever, sums, now>>
    BY <1>5 DEF SaveUncommitted, Delete, Fail, Succeeded, Failed, SetRetry, historyVars
  <2>3. QED BY <2>1, <2>2, SeenFrame
<1>6. ASSUME NEW w \in Workers, Collect(w) \/ CleanUp(w) PROVE Seen'
  <2>1. \A v \in Workers : SameLook(v)
    <3>1. worker[w].task \notin Batch BY <1>6 DEF Collect, CleanUp, At, Batch
    <3>2. /\ worker'[w].task = worker[w].task
          /\ \A v \in Workers : v # w => worker'[v] = worker[v]
      BY <1>6, CheckFrame DEF Check
    <3>3. QED BY <3>1, <3>2 DEF SameLook, Looking
  <2>2. UNCHANGED <<ever, sums, now>> BY <1>6 DEF Collect, CleanUp, historyVars
  <2>3. QED BY <2>1, <2>2, SeenFrame
<1>7. ASSUME NEW w \in Workers, Send(w) PROVE Seen'
  <2>1. \A v \in Workers : SameLook(v)
    BY <1>7 DEF Send, Resting, SameLook, Looking, Types, Executions
  <2>2. UNCHANGED <<ever, sums, now>> BY <1>7 DEF Send
  <2>3. QED BY <2>1, <2>2, SeenFrame
<1>8. CASE Tick \/ (\E t \in Tasks : Visit(t)) \/ Look \/ Pass \/ UNCHANGED vars
  <2>1. UNCHANGED <<ever, sums, worker>> /\ (now' = now \/ now' = now + 1)
    BY <1>8 DEF Tick, Visit, Look, Pass, vars, historyVars
  <2>2. QED BY <2>1, SeenFrame DEF SameLook
<1>9. QED
  BY <1>1, <1>2, <1>3, <1>4, <1>5, <1>6, <1>7, <1>8 DEF Next, Dispatch, Work, Check

LEMMA InitRows == Init => Kept /\ Seen
<1> SUFFICES ASSUME Init PROVE Kept /\ Seen
  OBVIOUS
<1>1. Kept BY DEF Init, Kept, Left
<1>2. \A w \in Workers : ~Looking(worker[w]) BY DEF Init, Looking, Resting
<1>3. \A t : Complete(t) = {} BY DEF Init, Complete
<1>4. QED BY <1>1, <1>2, <1>3 DEF Seen

-----------------------------------------------------------------------------
(* The spacing of the checks. *)

\* A task that was not dispatched, and no worker of which has moved in its check.
LEMMA SpacedFrame ==
  ASSUME Spaced, NEW t \in Batch, nextRun'[t] = nextRun[t], PlannedSums(t)' = PlannedSums(t),
         \A w \in Workers : Planned(worker'[w], t) => worker'[w] = worker[w]
  PROVE  RunsOf(t)' /\ SumsOf(t)'
<1>1. RunsOf(t) /\ SumsOf(t) BY DEF Spaced
<1>2. RunsOf(t)' BY <1>1 DEF RunsOf, Recent, Apart
<1>3. SumsOf(t)' BY <1>1 DEF SumsOf, Sum, Recent, Apart
<1>4. QED BY <1>2, <1>3

LEMMA TurnFrame ==
  ASSUME Spaced, NEW t \in Batch, nextRun'[t] = nextRun[t], UNCHANGED <<scan, ticked>>,
         PlannedSums(t)' = PlannedSums(t),
         \A w \in Workers : Planned(worker'[w], t) => worker'[w] = worker[w]
  PROVE  TurnOf(t)'
<1>1. TurnOf(t) BY DEF Spaced
<1> QED BY <1>1 DEF TurnOf

\* What is planned has been dispatched.
LEMMA PlannedTyped ==
  ASSUME Types, NEW t \in Batch
  PROVE  /\ t \in Tasks /\ t # Idle /\ Interval(t) \in Nat /\ nextRun[t] \in Nat
         /\ ticked \in Nat /\ now \in Nat
         /\ \A w \in Workers : worker[w].since \in Nat /\ worker[w].since <= ticked
         /\ \A s \in PlannedSums(t) : s.since \in Nat /\ \A r \in s.of : r.at \in Nat
<1>1. t \in Tasks /\ t # Idle /\ Interval(t) \in Nat
  BY WindowsNat, WorkersAssumption DEF Batch, Tasks
<1>2. nextRun[t] \in Nat /\ ticked \in Nat /\ now \in Nat
  BY <1>1, BoundsAssumption DEF Types
<1>3. \A w \in Workers : worker[w].since \in Nat /\ worker[w].since <= ticked
  BY BoundsAssumption DEF Types, Sound, Executions
<1>4. \A s \in PlannedSums(t) : s \in SumRecords BY DEF Types, PlannedSums, Sums
<1>5. \A s \in PlannedSums(t) : s.since \in Nat /\ \A r \in s.of : r.at \in Nat
  BY <1>4 DEF SumRecords, Rows
<1> QED BY <1>1, <1>2, <1>3, <1>5

LEMMA VisitSpaced ==
  ASSUME Types, Spaced, NEW u \in Tasks, Visit(u) PROVE Spaced'
<1>1. UNCHANGED <<worker, ticked, sums>> BY DEF Visit, historyVars
<1> SUFFICES ASSUME NEW t \in Batch
             PROVE  RunsOf(t)' /\ SumsOf(t)' /\ TurnOf(t)'
  BY DEF Spaced
<1>2. RunsOf(t) /\ SumsOf(t) /\ PlannedSums(t)' = PlannedSums(t)
  BY <1>1 DEF Spaced, PlannedSums, Sums
<1>3. t \in Tasks /\ Interval(t) \in Nat /\ nextRun[t] \in Nat /\ ticked \in Nat
  BY PlannedTyped
<1>4. CASE u = t /\ Later(ticked, nextRun[t])
  <2>1. nextRun'[t] = ticked + Interval(t) /\ scan'.at = "send" /\ scan'.task = t
    BY <1>3, <1>4 DEF Visit, NextRun, Types
  <2>2. nextRun[t] < ticked BY <1>3, <1>4 DEF Later
  <2>3. ASSUME NEW x \in Nat, x + Interval(t) <= nextRun[t]
        PROVE  x + Interval(t) < ticked /\ x + Interval(t) <= nextRun'[t]
    BY <1>3, <2>1, <2>2, <2>3
  <2>4. /\ \A w \in Workers : worker[w].since \in Nat
        /\ \A s \in PlannedSums(t) : s.since \in Nat
    BY PlannedTyped
  <2>5. RunsOf(t)' BY <1>1, <1>2, <2>3, <2>4 DEF RunsOf, Recent, Apart
  <2>6. SumsOf(t)' BY <1>1, <1>2, <2>3, <2>4 DEF SumsOf, Sum, Recent, Apart
  <2>7. TurnOf(t)'
    <3>1. \A w \in Workers : Planned(worker[w], t) => worker[w].since + Interval(t) < ticked
      BY <1>2, <2>3, <2>4 DEF RunsOf
    <3>2. \A s \in PlannedSums(t) : s.since + Interval(t) < ticked
      BY <1>2, <2>3, <2>4 DEF SumsOf
    <3>3. QED BY <1>1, <1>2, <2>1, <3>1, <3>2 DEF TurnOf
  <2>8. QED BY <2>5, <2>6, <2>7
<1>5. CASE ~(u = t /\ Later(ticked, nextRun[t]))
  <2>1. nextRun'[t] = nextRun[t] BY <1>3, <1>5 DEF Visit, Types
  <2>2. RunsOf(t)' /\ SumsOf(t)' BY <1>1, <1>2, <2>1, SpacedFrame
  <2>3. ~(scan'.at = "send" /\ scan'.task = t)
    <3>1. CASE Later(ticked, nextRun[u]) BY <1>5, <3>1 DEF Visit
    <3>2. CASE ~Later(ticked, nextRun[u]) BY <3>2 DEF Visit, Retry, Waiting
    <3>3. QED BY <3>1, <3>2
  <2>4. QED BY <2>2, <2>3 DEF TurnOf
<1>6. QED BY <1>4, <1>5

LEMMA LookSpaced ==
  ASSUME Types, Spaced, Look PROVE Spaced'
<1>1. UNCHANGED <<worker, nextRun, sums>> BY DEF Look, taskVars, historyVars
<1> SUFFICES ASSUME NEW t \in Batch
             PROVE  RunsOf(t)' /\ SumsOf(t)' /\ TurnOf(t)'
  BY DEF Spaced
<1>2. RunsOf(t)' /\ SumsOf(t)' BY <1>1, SpacedFrame DEF PlannedSums, Sums
<1>3. scan'.at # "send" BY DEF Look, Retry, Waiting
<1>4. QED BY <1>2, <1>3 DEF TurnOf

LEMMA SendSpaced ==
  ASSUME Types, Spaced, NEW w \in Workers, Send(w) PROVE Spaced'
<1>1. UNCHANGED <<nextRun, ticked, sums>> BY DEF Send, taskVars
<1>2. /\ worker'[w].task = scan.task /\ worker'[w].pc = "begin"
      /\ worker'[w].since = ticked /\ worker'[w].again = (scan.at = "resend")
      /\ \A v \in Workers : v # w => worker'[v] = worker[v]
  BY DEF Send, Resting, Types
<1>3. scan'.at # "send" BY DEF Send, Waiting, Types, Scans
<1> SUFFICES ASSUME NEW t \in Batch
             PROVE  RunsOf(t)' /\ SumsOf(t)' /\ TurnOf(t)'
  BY DEF Spaced
<1>4. TurnOf(t)' BY <1>3 DEF TurnOf
<1>5. PlannedSums(t)' = PlannedSums(t) BY <1>1 DEF PlannedSums, Sums
<1>6. CASE ~Planned(worker'[w], t)
  <2>1. \A v \in Workers : Planned(worker'[v], t) => worker'[v] = worker[v] BY <1>2, <1>6
  <2> QED BY <1>1, <1>4, <1>5, <2>1, SpacedFrame
<1>7. CASE Planned(worker'[w], t)
  <2>1. scan.task = t /\ scan.at = "send"
    <3>1. scan.task = t /\ worker'[w].again # TRUE BY <1>2, <1>7 DEF Planned
    <3>2. scan.at \in {"send", "resend"} BY DEF Send
    <3> QED BY <1>2, <3>1, <3>2
  <2>2. RunsOf(t) /\ SumsOf(t) BY DEF Spaced
  <2>3. /\ ticked + Interval(t) = nextRun[t]
        /\ \A v \in Workers : Planned(worker[v], t) => worker[v].since + Interval(t) < ticked
        /\ \A s \in PlannedSums(t) : s.since + Interval(t) < ticked
    BY <2>1 DEF Spaced, TurnOf
  <2>4. nextRun[t] \in Nat BY PlannedTyped
  <2>5. nextRun[t] <= nextRun[t] BY <2>4
  <2>6. ASSUME NEW v \in Workers, Planned(worker'[v], t)
        PROVE  /\ worker'[v].since + Interval(t) <= nextRun'[t]
               /\ worker'[v].pc # "begin" => Recent(t, worker'[v].of, worker'[v].since)
    BY <1>1, <1>2, <2>2, <2>3, <2>5, <2>6 DEF RunsOf
  <2>7. ASSUME NEW v \in Workers, NEW x \in Workers, v # x, Planned(worker'[v], t),
               Planned(worker'[x], t)
        PROVE  Apart(t, worker'[v].since, worker'[x].since)
    <3>1. CASE v = w BY <1>2, <2>3, <2>7, <3>1 DEF Apart
    <3>2. CASE x = w BY <1>2, <2>3, <2>7, <3>2 DEF Apart
    <3>3. CASE v # w /\ x # w BY <1>2, <2>2, <2>7, <3>3 DEF RunsOf
    <3>4. QED BY <3>1, <3>2, <3>3
  <2>8. RunsOf(t)' BY <2>6, <2>7 DEF RunsOf, Recent, Apart
  <2>9. ASSUME NEW s \in PlannedSums(t), NEW v \in Workers, Planned(worker'[v], t)
        PROVE  (worker'[v].pc # "begin" /\ s = Sum(v)') \/ Apart(t, s.since, worker'[v].since)
    <3>1. CASE v = w BY <1>2, <2>3, <3>1 DEF Apart
    <3>2. CASE v # w BY <1>2, <2>2, <2>9, <3>2 DEF SumsOf, Sum
    <3>3. QED BY <3>1, <3>2
  <2>10. SumsOf(t)' BY <1>1, <1>5, <2>2, <2>9 DEF SumsOf, Apart, Recent
  <2>11. QED BY <1>4, <2>8, <2>10
<1>8. QED BY <1>6, <1>7

\* A step of a check that goes on, or leaves a sum.
LEMMA StepSpaced ==
  ASSUME Types, Spaced, NEW w \in Workers, NEW t \in Batch, Planned(worker[w], t),
         UNCHANGED <<nextRun, scan, ticked>>,
         \A v \in Workers : v # w => worker'[v] = worker[v],
         worker'[w].task = t, worker'[w].since = worker[w].since,
         worker'[w].again = worker[w].again, worker'[w].pc # "begin",
         worker[w].pc = "begin" => /\ Recent(t, worker'[w].of, worker[w].since)
                                   /\ PlannedSums(t)' = PlannedSums(t),
         worker[w].pc # "begin" => /\ worker'[w].stamp = worker[w].stamp
                                   /\ worker'[w].of = worker[w].of
                                   /\ PlannedSums(t)' \subseteq PlannedSums(t) \union {Sum(w)}
  PROVE  RunsOf(t)' /\ SumsOf(t)' /\ TurnOf(t)'
<1>1. RunsOf(t) /\ SumsOf(t) /\ TurnOf(t) BY DEF Spaced
<1>2. \A v \in Workers : /\ worker'[v].since = worker[v].since
                         /\ Planned(worker'[v], t) => Planned(worker[v], t)
  OBVIOUS
<1>3. Recent(t, worker'[w].of, worker[w].since) BY <1>1 DEF RunsOf
<1>4. RunsOf(t)'
  <2>1. ASSUME NEW v \in Workers, Planned(worker'[v], t)
        PROVE  /\ worker'[v].since + Interval(t) <= nextRun'[t]
               /\ worker'[v].pc # "begin" => Recent(t, worker'[v].of, worker'[v].since)
    <3>1. CASE v = w BY <1>1, <1>2, <1>3, <3>1 DEF RunsOf
    <3>2. CASE v # w BY <1>1, <2>1, <3>2 DEF RunsOf
    <3>3. QED BY <3>1, <3>2
  <2>2. QED BY <1>1, <1>2, <2>1 DEF RunsOf, Recent, Apart
<1>5. ASSUME NEW s \in PlannedSums(t)'
      PROVE  s \in PlannedSums(t) \/ (worker[w].pc # "begin" /\ s = Sum(w) /\ s = Sum(w)')
  BY <1>5 DEF Sum, Planned
<1>6. ASSUME worker[w].pc # "begin"
      PROVE  /\ Sum(w)' = Sum(w) /\ Sum(w).since = worker[w].since
             /\ Sum(w).since + Interval(t) <= nextRun[t]
             /\ Recent(t, Sum(w).of, Sum(w).since)
             /\ \A v \in Workers : v # w /\ Planned(worker[v], t) =>
                  Apart(t, Sum(w).since, worker[v].since)
             /\ \A s \in PlannedSums(t) : s # Sum(w) => Apart(t, s.since, Sum(w).since)
  BY <1>1, <1>6 DEF RunsOf, SumsOf, Sum, Planned
<1>7. SumsOf(t)'
  <2>1. ASSUME NEW s \in PlannedSums(t)'
        PROVE  s.since + Interval(t) <= nextRun'[t] /\ Recent(t, s.of, s.since)
    BY <1>1, <1>5, <1>6 DEF SumsOf
  <2>2. ASSUME NEW s \in PlannedSums(t)', NEW v \in Workers, Planned(worker'[v], t)
        PROVE  (worker'[v].pc # "begin" /\ s = Sum(v)') \/ Apart(t, s.since, worker'[v].since)
    <3>1. CASE v = w /\ s \in PlannedSums(t)
      BY <1>1, <1>2, <1>6, <3>1 DEF SumsOf
    <3>2. CASE v # w /\ s \in PlannedSums(t) BY <1>1, <1>2, <2>2, <3>2 DEF SumsOf, Sum
    <3>3. CASE s \notin PlannedSums(t) BY <1>2, <1>5, <1>6, <2>2, <3>3
    <3>4. QED BY <3>1, <3>2, <3>3
  <2>3. ASSUME NEW s1 \in PlannedSums(t)', NEW s2 \in PlannedSums(t)', s1 # s2
        PROVE  Apart(t, s1.since, s2.since)
    <3>1. CASE s1 \in PlannedSums(t) /\ s2 \in PlannedSums(t) BY <1>1, <2>3, <3>1 DEF SumsOf
    <3>2. CASE s1 \notin PlannedSums(t) BY <1>5, <1>6, <2>3, <3>2 DEF Apart
    <3>3. CASE s2 \notin PlannedSums(t) BY <1>5, <1>6, <2>3, <3>3
    <3>4. QED BY <3>1, <3>2, <3>3
  <2>4. QED BY <1>2, <2>1, <2>2, <2>3 DEF SumsOf, Apart, Recent
<1>8. TurnOf(t)'
  <2>1. ASSUME scan.at = "send", scan.task = t, NEW s \in PlannedSums(t)'
        PROVE  s.since + Interval(t) < ticked
    BY <1>1, <1>5, <1>6, <2>1 DEF TurnOf
  <2>2. QED BY <1>1, <1>2, <2>1 DEF TurnOf
<1>9. QED BY <1>4, <1>7, <1>8

LEMMA QueryRecent ==
  ASSUME Types, NEW w \in Workers, Query(w), NEW t \in Batch, worker[w].task = t
  PROVE  /\ Recent(t, worker'[w].of, worker[w].since)
         /\ worker[w].pc = "begin" /\ worker'[w].pc \in {"save", "delete"}
<1> DEFINE found == {r \in rows[Source(t)] : InWindow(r, Source(t))}
<1>1. worker[w].pc = "begin" /\ worker'[w].of = found /\ worker'[w].pc \in {"save", "delete"}
  BY DEF Query, At, Types, Executions
<1>2. /\ Source(t) \in Tables /\ Window(Source(t)) = Interval(t)
      /\ Interval(t) \in Nat /\ now \in Nat
      /\ worker[w].since \in Nat /\ worker[w].since <= ticked /\ ticked <= now /\ ticked \in Nat
  BY WindowNat, PlannedTyped DEF Types
<1>3. ASSUME NEW r \in found PROVE worker[w].since <= r.at + Interval(t)
  <2>1. r \in rows[Source(t)] /\ now - Interval(t) <= r.at BY <1>2 DEF InWindow
  <2>2. r.at \in Nat BY <1>2, <2>1 DEF Types, Rows
  <2> QED BY <1>2, <2>1, <2>2
<1> QED BY <1>1, <1>3 DEF Recent

LEMMA CheckSpaced ==
  ASSUME Types, Spaced, NEW w \in Workers, Check(w) PROVE Spaced'
<1>1. /\ UNCHANGED <<nextRun, scan, ticked>>
      /\ \A v \in Workers : v # w => worker'[v] = worker[v]
      /\ worker'[w].task = worker[w].task /\ worker'[w].since = worker[w].since
      /\ worker'[w].again = worker[w].again
  BY CheckFrame DEF taskVars
<1>2. \/ sums' = sums
      \/ /\ Save(w) \/ Push(w)
         /\ worker[w].pc \in {"save", "push"}
         /\ sums' \in {[sums EXCEPT !.saved = @ \union {Sum(w)}],
                       [sums EXCEPT !.sent = @ \union {Sum(w)}]}
  BY DEF Check, Collect, InsertRow, Query, Save, SaveUncommitted, Delete, Push, CleanUp, Fail,
         historyVars, At
<1> SUFFICES ASSUME NEW t \in Batch
             PROVE  RunsOf(t)' /\ SumsOf(t)' /\ TurnOf(t)'
  BY DEF Spaced
<1>3. /\ PlannedSums(t)' \subseteq PlannedSums(t) \union {Sum(w)}
      /\ ~Planned(worker[w], t) \/ worker[w].pc = "begin" => PlannedSums(t)' = PlannedSums(t)
  <2>1. CASE sums' = sums BY <2>1 DEF PlannedSums, Sums
  <2>2. CASE /\ worker[w].pc \in {"save", "push"}
             /\ sums' \in {[sums EXCEPT !.saved = @ \union {Sum(w)}],
                           [sums EXCEPT !.sent = @ \union {Sum(w)}]}
    <3>1. Sums(t)' = Sums(t) \union (IF worker[w].task = t THEN {Sum(w)} ELSE {})
      BY <2>2 DEF Sums, Sum, Types
    <3>2. PlannedSums(t)' = PlannedSums(t) \union
                              (IF worker[w].task = t /\ ~worker[w].again THEN {Sum(w)} ELSE {})
      BY <3>1 DEF PlannedSums, Sum
    <3> QED BY <2>2, <3>2 DEF Planned
  <2> QED BY <1>2, <2>1, <2>2
<1>4. CASE ~Planned(worker'[w], t) /\ PlannedSums(t)' = PlannedSums(t)
  <2>1. \A v \in Workers : Planned(worker'[v], t) => worker'[v] = worker[v] BY <1>1, <1>4
  <2> QED BY <1>1, <1>4, <2>1, SpacedFrame, TurnFrame
<1>5. CASE Planned(worker[w], t)
  <2>1. CASE Query(w)
    BY <1>1, <1>3, <1>5, <2>1, QueryRecent, StepSpaced DEF Planned
  <2>2. CASE Save(w) \/ SaveUncommitted(w) \/ Delete(w) \/ Push(w)
    <3>1. /\ worker[w].pc # "begin" /\ worker'[w].pc # "begin"
          /\ worker'[w].stamp = worker[w].stamp /\ worker'[w].of = worker[w].of
      BY <2>2 DEF Save, SaveUncommitted, Delete, Push, At, Become, Types, Executions
    <3>2. worker'[w].task = t BY <1>1, <1>5 DEF Planned
    <3> QED BY <1>1, <1>3, <1>5, <3>1, <3>2, StepSpaced
  <2>3. CASE Fail(w)
    <3>1. ~Planned(worker'[w], t) /\ PlannedSums(t)' = PlannedSums(t)
      BY <2>3 DEF Fail, Become, Planned, Types, Executions, PlannedSums, Sums, historyVars
    <3> QED BY <1>4, <3>1
  <2> QED BY <1>5, <2>1, <2>2, <2>3
          DEF Check, Collect, InsertRow, CleanUp, At, Batch, Planned
<1>6. ASSUME ~Planned(worker[w], t) PROVE ~Planned(worker'[w], t)
  <2>1. CASE worker[w].pc \in {"begin", "save", "delete", "push"}
    BY <1>1, <1>6, <2>1 DEF Planned
  <2>2. CASE worker[w].pc \notin {"begin", "save", "delete", "push"}
    <3>1. InsertRow(w) \/ CleanUp(w) \/ Fail(w)
      BY <2>2 DEF Check, Collect, Query, Save, SaveUncommitted, Delete, Push, At
    <3>2. worker'[w].pc \in {"next table", "ok", "failed"}
      <4>1. CASE InsertRow(w) BY <4>1 DEF InsertRow, Become, Types, Executions
      <4>2. CASE CleanUp(w)
        <5>1. \/ worker' = [worker EXCEPT ![w].pc = "next table", ![w].stamp = now]
              \/ worker' = [worker EXCEPT ![w].pc = "ok"]
          BY <4>2 DEF CleanUp, Become
        <5>2. worker \in [Workers -> Executions] BY DEF Types
        <5> QED BY <5>1, <5>2 DEF Executions
      <4>3. CASE Fail(w) BY <4>3 DEF Fail, Become, Types, Executions
      <4> QED BY <3>1, <4>1, <4>2, <4>3
    <3> QED BY <3>2 DEF Planned
  <2> QED BY <2>1, <2>2
<1>7. QED BY <1>3, <1>4, <1>5, <1>6

LEMMA EndSpaced ==
  ASSUME Types, Spaced, NEW w \in Workers, Succeeded(w) \/ Failed(w) \/ SetRetry(w)
  PROVE  Spaced'
<1>1. UNCHANGED <<nextRun, scan, ticked, sums>>
  BY DEF Succeeded, Failed, SetRetry, taskVars, historyVars
<1>2. \A v \in Workers : v # w => worker'[v] = worker[v]
  BY DEF Succeeded, Failed, SetRetry, Rest, Become, Types
<1>3. worker'[w].pc \notin {"begin", "save", "delete", "push"}
  BY DEF Succeeded, Failed, SetRetry, Rest, Become, Resting, Types, Executions
<1> SUFFICES ASSUME NEW t \in Batch
             PROVE  RunsOf(t)' /\ SumsOf(t)' /\ TurnOf(t)'
  BY DEF Spaced
<1>4. \A v \in Workers : Planned(worker'[v], t) => worker'[v] = worker[v]
  BY <1>2, <1>3 DEF Planned
<1>5. PlannedSums(t)' = PlannedSums(t) BY <1>1 DEF PlannedSums, Sums
<1> QED BY <1>1, <1>4, <1>5, SpacedFrame, TurnFrame

LEMMA NextSpaced == Types /\ Spaced /\ [Next]_vars => Spaced'
<1> SUFFICES ASSUME Types, Spaced, [Next]_vars PROVE Spaced'
  OBVIOUS
<1>1. ASSUME NEW t \in Tasks, Visit(t) PROVE Spaced' BY <1>1, VisitSpaced
<1>2. CASE Look BY <1>2, LookSpaced
<1>3. ASSUME NEW w \in Workers, Send(w) PROVE Spaced' BY <1>3, SendSpaced
<1>4. ASSUME NEW w \in Workers, Work(w) PROVE Spaced'
  BY <1>4, CheckSpaced, EndSpaced DEF Work
<1>5. CASE Tick \/ Pass \/ UNCHANGED vars
  <2>1. UNCHANGED <<worker, nextRun, sums>> /\ (scan'.at = "scan" \/ UNCHANGED <<scan, ticked>>)
    BY <1>5 DEF Tick, Pass, vars, taskVars, historyVars
  <2>2. ASSUME NEW t \in Batch
        PROVE  RunsOf(t)' /\ SumsOf(t)' /\ TurnOf(t)'
    <3>1. PlannedSums(t)' = PlannedSums(t) BY <2>1 DEF PlannedSums, Sums
    <3>2. RunsOf(t)' /\ SumsOf(t)' BY <2>1, <2>2, <3>1, SpacedFrame
    <3>3. TurnOf(t)'
      <4>1. CASE scan'.at = "scan" BY <4>1 DEF TurnOf
      <4>2. CASE UNCHANGED <<scan, ticked>> BY <2>1, <3>1, <4>2, TurnFrame
      <4> QED BY <2>1, <4>1, <4>2
    <3>4. QED BY <3>2, <3>3
  <2>3. QED BY <2>2 DEF Spaced
<1>6. QED BY <1>1, <1>2, <1>3, <1>4, <1>5 DEF Next, Dispatch

LEMMA InitSpaced == Init => Spaced
<1> SUFFICES ASSUME Init, NEW t \in Batch PROVE RunsOf(t) /\ SumsOf(t) /\ TurnOf(t)
  BY DEF Spaced
<1>1. \A w \in Workers : ~Planned(worker[w], t) BY DEF Init, Resting, Planned
<1>2. PlannedSums(t) = {} BY DEF Init, Sums, PlannedSums
<1>3. scan.at = "wait" BY DEF Init, Waiting
<1>4. QED BY <1>1, <1>2, <1>3 DEF RunsOf, SumsOf, TurnOf

LEMMA NextTroubles ==
  troubles \in 0 .. MaxTroubles /\ [Next]_vars => troubles' \in 0 .. MaxTroubles
<1> SUFFICES ASSUME troubles \in 0 .. MaxTroubles, [Next]_vars
             PROVE  troubles' \in 0 .. MaxTroubles
  OBVIOUS
<1>1. troubles' = troubles \/ Trouble
  <2>1. ASSUME NEW w \in Workers, Check(w) PROVE troubles' = troubles \/ Trouble
    BY <2>1 DEF Check, Collect, InsertRow, Query, Save, SaveUncommitted, Delete, Deletes, Push,
                CleanUp, Fail
  <2>2. ASSUME NEW w \in Workers, Work(w) PROVE troubles' = troubles \/ Trouble
    BY <2>1, <2>2 DEF Work, Succeeded, Failed, SetRetry
  <2>3. CASE Dispatch BY <2>3 DEF Dispatch, Tick, Visit, Look, Send
  <2>4. CASE Pass BY <2>4 DEF Pass
  <2> QED BY <2>2, <2>3, <2>4 DEF Next, vars
<1> QED BY <1>1, BoundsAssumption DEF Trouble

-----------------------------------------------------------------------------
(* The theorems. *)

IInv == Types /\ troubles \in 0 .. MaxTroubles /\ Status /\ Kept /\ Seen /\ Spaced

LEMMA Inductive == Spec => []IInv
<1>1. Init => troubles \in 0 .. MaxTroubles BY BoundsAssumption DEF Init
<1>2. Init => IInv BY <1>1, InitTypes, InitStatus, InitRows, InitSpaced DEF IInv
<1>3. IInv /\ [Next]_vars => IInv'
  BY NextTypes, NextTroubles, NextStatus, NextKept, NextSeen, NextSpaced DEF IInv
<1>4. QED BY <1>2, <1>3, PTL DEF Spec

\* Every variable has its type.  A task no two workers executed at once is not
\* retried more often than MaxRetries (executeTask).
THEOREM CheckerTypes == Spec => []TypeOK
<1>1. IInv => TypeOK
  <2> SUFFICES ASSUME IInv PROVE TypeOK
    OBVIOUS
  <2>1. \A t \in Tasks \ overlapped : attempt[t] <= MaxRetries BY DEF IInv, Status, StatusOf
  <2>2. QED BY <2>1 DEF IInv, Types, TypeOK
<1>2. QED BY <1>1, Inductive, PTL

\* When no worker has the task, its retry status says how its last execution ended
\* and counts attempts only after a failure (executeTask), unless two executions of
\* it overlapped.
THEOREM StatusTheorem == Spec => []RetryStatusTruthful
<1>1. IInv => RetryStatusTruthful
  BY DEF IInv, Status, StatusOf, Settled, Agree, RetryStatusTruthful
<1>2. QED BY <1>1, Inductive, PTL

\* A row that the checks delete is part of a sum, whenever a check that ended
\* well looked at the table while the row was in its window.
THEOREM LossTheorem == Spec => []NoneLost
<1>1. IInv => NoneLost
  <2> SUFFICES ASSUME IInv, NEW t \in Batch, NEW r \in ever[Source(t)], NEW s \in Complete(t),
                      s.at - Window(Source(t)) < r.at, r.inserted < s.at
               PROVE  \E x \in Sums(t) : r \in x.of
    BY DEF NoneLost
  <2>1. r \in s.of BY DEF IInv, Seen, Saw
  <2>2. s \in Sums(t) BY DEF Complete, Sums
  <2>3. QED BY <2>1, <2>2
<1>2. QED BY <1>1, Inductive, PTL

\* Of two checks that were dispatched because it was their time, the later one sums
\* up no row that was taken before the earlier one was dispatched, however late they
\* look at the clock and whatever fails.
THEOREM TwiceTheorem == Spec => []NoneTwice
<1>1. IInv => NoneTwice
  <2> SUFFICES ASSUME IInv, NEW t \in Batch, NEW s1 \in PlannedSums(t),
                      NEW s2 \in PlannedSums(t), s1 # s2, s1.since <= s2.since,
                      NEW r \in s1.of, r \in s2.of
               PROVE  r.at > s1.since
    BY DEF NoneTwice, PlannedSums
  <2>1. SumsOf(t) BY DEF IInv, Spaced
  <2>2. Apart(t, s1.since, s2.since) /\ s2.since <= r.at + Interval(t)
    BY <2>1 DEF SumsOf, Recent
  <2>3. s1.since \in Nat /\ s2.since \in Nat /\ r.at \in Nat /\ Interval(t) \in Nat
    BY PlannedTyped DEF IInv
  <2>4. QED BY <2>2, <2>3 DEF Apart
<1>2. QED BY <1>1, Inductive, PTL
=============================================================================
