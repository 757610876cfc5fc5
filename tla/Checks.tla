------------------------------- MODULE Checks -------------------------------
(***************************************************************************)
(* pkg/collector/scheduler/scheduler.go with the checks it runs: when a    *)
(* check is dispatched and retried, and what the batch checks make of the  *)
(* rows that the realtime checks leave in the database.                    *)
(*                                                                         *)
(* The metrics (CPU, memory, disk usage, disk io, net) have the same four  *)
(* tables and checks each; this is one of them.  "collect" inserts a row   *)
(* into the table "real"; "hourly" sums up the rows of the last hour in    *)
(* one row of the table "hourly"; "daily" sums up those of the last day    *)
(* and sends the sum; both, and "cleanup", delete rows that are older.     *)
(* How metrics get from the checks to the server is in Collector.          *)
(*                                                                         *)
(* Every reading of the clock is a reading of its own: the dispatcher's,   *)
(* once per tick, those of a check, and that of the retry.  Time may pass  *)
(* between any two steps, and its unit may be as short as one likes: the   *)
(* second, the hour and the day are any number of units.                   *)
(***************************************************************************)
EXTENDS Integers, FiniteSets

CONSTANTS Workers,
          Second, Hour, Day,
          Realtime,      \* how often the server asks for the realtime metrics
          Earlier,       \* tables with a row that an earlier run of the agent left
          MaxRetries,
          MaxRetryTime,
          Idle,
          MaxTime,       \* bound: the time
          MaxTroubles    \* bound: calls that fail, ticks that are dropped, and times
                         \* that pass during work

ASSUME WindowsAssumption == /\ {Second, Realtime, Hour, Day} \subseteq Nat \ {0}
                             /\ Hour < Day
ASSUME BoundsAssumption == /\ {MaxRetryTime, MaxTime, MaxTroubles} \subseteq Nat
                           /\ MaxRetries \in Nat \ {0}

Tasks == {"collect", "hourly", "daily", "cleanup"}

ASSUME WorkersAssumption == IsFiniteSet(Workers) /\ Workers # {} /\ Idle \notin Tasks

Tables == {"real", "hourly"}

ASSUME EarlierAssumption == Earlier \subseteq Tables

VARIABLES
  now,
  nextRun, isSuccess, due, expiry, attempt,  \* ScheduledTask
  ticked,      \* what the dispatcher read from the clock at its last tick
  scan,        \* the tasks it has still to visit, and the one it is at
  worker,      \* what each worker does
  rows,        \* the tables
  ever,        \* history: all rows there have been
  sums,        \* history: what was summed up, and whether it was saved or sent
  outcome,     \* history: whether the last execution of a task succeeded
  overlapped,  \* history: tasks that two workers executed at once
  troubles

taskVars == <<nextRun, isSuccess, due, expiry, attempt>>
historyVars == <<ever, sums, outcome, overlapped>>
vars == <<now, taskVars, ticked, scan, worker, rows, historyVars, troubles>>

\* The interval is the server's choice; it asks for every hour and every day.
Interval(t) == CASE t = "collect" -> Realtime
                 [] t = "hourly" -> Hour
                 [] t \in {"daily", "cleanup"} -> Day

-----------------------------------------------------------------------------
(* The dispatcher. *)

Waiting == [at |-> "wait", left |-> {}, task |-> Idle]

\* The ticker drops the ticks that the dispatcher does not come to take.
Tick ==
  /\ scan = Waiting /\ ticked < now
  /\ ticked' = now
  /\ scan' = [at |-> "scan", left |-> Tasks, task |-> Idle]
  /\ UNCHANGED <<now, taskVars, worker, rows, historyVars, troubles>>

\* time.Time.After
Later(t, time) == t > time

IsRetryRequired(t) ==
  ~isSuccess[t] /\ Later(ticked, due[t]) /\ ~Later(ticked, expiry[t])

\* The rest of the visit of a task, once it was sent if it was its turn.
Retry(t, left) ==
  IF IsRetryRequired(t) THEN [at |-> "resend", left |-> left, task |-> t]
  ELSE IF left = {} THEN Waiting
  ELSE [at |-> "scan", left |-> left, task |-> Idle]

\* Faulty variant of NextRun: as often as the interval says, late or not.
NextRunFromLast(t) == nextRun[t] + Interval(t)

NextRun(t) == ticked + Interval(t)

Visit(t) ==
  /\ scan.at = "scan" /\ t \in scan.left
  /\ IF Later(ticked, nextRun[t])
       THEN /\ nextRun' = [nextRun EXCEPT ![t] = NextRun(t)]
            /\ scan' = [at |-> "send", left |-> scan.left \ {t}, task |-> t]
       ELSE /\ scan' = Retry(t, scan.left \ {t})
            /\ UNCHANGED nextRun
  /\ UNCHANGED <<now, isSuccess, due, expiry, attempt, ticked, worker, rows>>
  /\ UNCHANGED <<historyVars, troubles>>

\* The dispatcher reads the status after the worker has taken the task.
Look ==
  /\ scan.at = "retry"
  /\ scan' = Retry(scan.task, scan.left)
  /\ UNCHANGED <<now, taskVars, ticked, worker, rows, historyVars, troubles>>

\* taskQueue has no buffer: the dispatcher waits for a worker.
\* `since` is the tick, and `again` says that it is a retry.
Resting == [pc |-> "idle", task |-> Idle, since |-> 0, again |-> FALSE, stamp |-> 0,
            of |-> {}, seen |-> 0]

Send(w) ==
  /\ scan.at \in {"send", "resend"} /\ worker[w] = Resting
  /\ scan' = IF scan.at = "send" THEN [scan EXCEPT !.at = "retry"]
               ELSE IF scan.left = {} THEN Waiting
               ELSE [scan EXCEPT !.at = "scan", !.task = Idle]
  /\ worker' = [worker EXCEPT ![w] = [Resting EXCEPT !.pc = "begin", !.task = scan.task,
                                                     !.since = ticked,
                                                     !.again = scan.at = "resend"]]
  /\ overlapped' = IF \E v \in Workers : worker[v].task = scan.task
                     THEN overlapped \union {scan.task} ELSE overlapped
  /\ UNCHANGED <<now, taskVars, ticked, rows, ever, sums, outcome, troubles>>

Dispatch == Tick \/ (\E t \in Tasks : Visit(t)) \/ Look \/ (\E w \in Workers : Send(w))

-----------------------------------------------------------------------------
(* The checks. *)

At(w, pc, tasks) == worker[w].pc = pc /\ worker[w].task \in tasks
Become(w, pc) == worker' = [worker EXCEPT ![w].pc = pc]

Ids == {r.n : r \in ever["real"] \union ever["hourly"]}
Row(stamp) == [n |-> Cardinality(Ids) + 1, at |-> stamp, inserted |-> now]

Insert(table, stamp) ==
  /\ rows' = [rows EXCEPT ![table] = @ \union {Row(stamp)}]
  /\ ever' = [ever EXCEPT ![table] = @ \union {Row(stamp)}]

\* A realtime check takes the time, then inserts its row.
Collect(w) ==
  /\ At(w, "begin", {"collect"})
  /\ worker' = [worker EXCEPT ![w].pc = "insert", ![w].stamp = now]
  /\ UNCHANGED <<now, taskVars, ticked, scan, rows, historyVars, troubles>>

InsertRow(w) ==
  /\ At(w, "insert", {"collect"})
  /\ Become(w, "ok")
  /\ Insert("real", worker[w].stamp)
  /\ UNCHANGED <<now, taskVars, ticked, scan, sums, outcome, overlapped, troubles>>

Batch == {"hourly", "daily"}
Source(t) == IF t = "hourly" THEN "real" ELSE "hourly"
Window(table) == IF table = "real" THEN Hour ELSE Day

InWindow(r, table) == now - Window(table) <= r.at /\ r.at <= now

Query(w) ==
  LET t == worker[w].task
  IN /\ At(w, "begin", Batch)
     /\ worker' = [worker EXCEPT
                     ![w].pc = IF t = "hourly" THEN "save" ELSE "delete",
                     ![w].stamp = now,
                     ![w].of = {r \in rows[Source(t)] : InWindow(r, Source(t))}]
     /\ UNCHANGED <<now, taskVars, ticked, scan, rows, historyVars, troubles>>

Trouble == troubles < MaxTroubles /\ troubles' = troubles + 1

Sum(w) == [by |-> worker[w].task, since |-> worker[w].since, again |-> worker[w].again,
           at |-> worker[w].stamp, of |-> worker[w].of]

\* The row has a time of its own, taken after the query.
Save(w) ==
  /\ At(w, "save", {"hourly"})
  /\ Become(w, "delete")
  /\ \E time \in worker[w].stamp .. now : Insert("hourly", time)
  /\ sums' = [sums EXCEPT !.saved = @ \union {Sum(w)}]
  /\ UNCHANGED <<now, taskVars, ticked, scan, outcome, overlapped, troubles>>

\* The error of tx.Commit is not looked at: the row is not saved.
SaveUncommitted(w) ==
  /\ At(w, "save", {"hourly"})
  /\ Trouble /\ Become(w, "delete")
  /\ UNCHANGED <<now, taskVars, ticked, scan, rows, historyVars>>

\* Faulty variant of Old: the table has the window of the other one.
OldByHour(r, table, time) == r.at <= time - Hour

Old(r, table, time) == r.at <= time - Window(table)

Without(table, time) == [rows EXCEPT ![table] = {r \in @ : ~Old(r, table, time)}]

\* Here too the error of tx.Commit is not looked at: then the rows stay.
Deletes(table, time) ==
  \/ rows' = Without(table, time) /\ UNCHANGED troubles
  \/ UNCHANGED rows /\ Trouble

\* The time is taken anew, so that it is not that of the query.
Delete(w) ==
  /\ At(w, "delete", Batch)
  /\ Become(w, "push")
  /\ Deletes(Source(worker[w].task), now)
  /\ UNCHANGED <<now, taskVars, ticked, scan, historyVars>>

Push(w) ==
  /\ At(w, "push", Batch)
  /\ Become(w, "ok")
  /\ sums' = [sums EXCEPT !.sent = @ \union {Sum(w)}]
  /\ UNCHANGED <<now, taskVars, ticked, scan, rows, ever, outcome, overlapped, troubles>>

\* deleteAllMetric: one table after the other, at the time it began.
CleanUp(w) ==
  /\ \/ /\ At(w, "begin", {"cleanup"})
        /\ worker' = [worker EXCEPT ![w].pc = "next table", ![w].stamp = now]
        /\ Deletes("real", now)
     \/ /\ At(w, "next table", {"cleanup"})
        /\ Become(w, "ok")
        /\ Deletes("hourly", worker[w].stamp)
  /\ UNCHANGED <<now, taskVars, ticked, scan, historyVars>>

\* Execute returns an error: the database, or the metric could not be read.
Fail(w) ==
  /\ Trouble
  /\ worker[w].pc \in {"begin", "insert", "save", "delete", "next table"}
  /\ Become(w, "failed")
  /\ UNCHANGED <<now, taskVars, ticked, scan, rows, historyVars>>

Check(w) == \/ Collect(w) \/ InsertRow(w) \/ Query(w) \/ Save(w) \/ SaveUncommitted(w)
            \/ Delete(w) \/ Push(w) \/ CleanUp(w) \/ Fail(w)

-----------------------------------------------------------------------------
(* executeTask, after the check.  Another worker may be executing the same  *)
(* task, and the dispatcher reads its status; nothing guards its fields, so *)
(* that each write is a step of its own.                                    *)

Rest(w) == worker' = [worker EXCEPT ![w] = Resting]

\* Faulty variant of Cleared: only the attempts are reset.
NotCleared(t) == UNCHANGED isSuccess

Cleared(t) == isSuccess' = [isSuccess EXCEPT ![t] = TRUE]

Succeeded(w) ==
  LET t == worker[w].task
  IN /\ \/ /\ worker[w].pc = "ok" /\ Become(w, "clear")
           /\ Cleared(t)
           /\ outcome' = [outcome EXCEPT ![t] = TRUE]
           /\ UNCHANGED attempt
        \/ /\ worker[w].pc = "clear" /\ Rest(w)
           /\ attempt' = [attempt EXCEPT ![t] = 0]
           /\ UNCHANGED <<isSuccess, outcome>>
     /\ UNCHANGED <<now, nextRun, due, expiry, ticked, scan, rows, ever, sums>>
     /\ UNCHANGED <<overlapped, troubles>>

\* Faulty variant of RetriesLeft: one more.
RetriesLeftOffByOne(t) == attempt[t] <= MaxRetries

RetriesLeft(t) == attempt[t] < MaxRetries

Failed(w) ==
  LET t == worker[w].task
  IN /\ worker[w].pc = "failed"
     /\ IF RetriesLeft(t) THEN Become(w, "retry") ELSE Rest(w)
     /\ outcome' = [outcome EXCEPT ![t] = FALSE]
     /\ UNCHANGED <<now, taskVars, ticked, scan, rows, ever, sums, overlapped, troubles>>

\* The clock and the attempts are read first; they are read again to be counted.
SetRetry(w) ==
  LET t == worker[w].task
  IN /\ \/ /\ worker[w].pc = "retry"
           /\ worker' = [worker EXCEPT ![w].pc = "due", ![w].stamp = now,
                                       ![w].seen = attempt[t]]
           /\ isSuccess' = [isSuccess EXCEPT ![t] = FALSE]
           /\ UNCHANGED <<due, expiry, attempt>>
        \/ /\ worker[w].pc = "due" /\ Become(w, "expiry")
           /\ due' = [due EXCEPT ![t] = worker[w].stamp + 2 ^ worker[w].seen * Second]
           /\ UNCHANGED <<isSuccess, expiry, attempt>>
        \/ /\ worker[w].pc = "expiry"
           /\ worker' = [worker EXCEPT ![w].pc = "count", ![w].seen = attempt[t]]
           /\ expiry' = [expiry EXCEPT ![t] = worker[w].stamp + MaxRetryTime]
           /\ UNCHANGED <<isSuccess, due, attempt>>
        \/ /\ worker[w].pc = "count" /\ Rest(w)
           /\ attempt' = [attempt EXCEPT ![t] = worker[w].seen + 1]
           /\ UNCHANGED <<isSuccess, due, expiry>>
     /\ UNCHANGED <<now, nextRun, ticked, scan, rows, historyVars, troubles>>

Work(w) == Check(w) \/ Succeeded(w) \/ Failed(w) \/ SetRetry(w)

-----------------------------------------------------------------------------
\* Time passes when all is done, while somebody is at work, or with a tick dropped.
Pass ==
  /\ now < MaxTime /\ now' = now + 1
  /\ IF scan = Waiting /\ ticked = now /\ \A w \in Workers : worker[w] = Resting
       THEN UNCHANGED troubles
       ELSE Trouble
  /\ UNCHANGED <<taskVars, ticked, scan, worker, rows, historyVars>>

Left == [n |-> 1, at |-> 0, inserted |-> 0]

\* AddTask, with the database as an earlier run left it.
Init ==
  /\ now = 0 /\ ticked = 0
  /\ nextRun = [t \in Tasks |-> Interval(t)] /\ isSuccess = [t \in Tasks |-> TRUE]
  /\ due = [t \in Tasks |-> 0] /\ expiry = [t \in Tasks |-> MaxRetryTime]
  /\ attempt = [t \in Tasks |-> 0]
  /\ scan = Waiting /\ worker = [w \in Workers |-> Resting]
  /\ rows = [table \in Tables |-> IF table \in Earlier THEN {Left} ELSE {}] /\ ever = rows
  /\ sums = [saved |-> {}, sent |-> {}]
  /\ outcome = [t \in Tasks |-> TRUE] /\ overlapped = {}
  /\ troubles = 0

Next == Dispatch \/ (\E w \in Workers : Work(w)) \/ Pass

Spec == Init /\ [][Next]_vars

-----------------------------------------------------------------------------
(* Properties. *)

Places == {"idle", "begin", "insert", "save", "delete", "push", "next table", "ok",
           "clear", "failed", "retry", "due", "expiry", "count"}
Rows == [n : Nat, at : Nat, inserted : Nat]
Executions == [pc : Places, task : Tasks \union {Idle}, since : 0 .. MaxTime,
               again : BOOLEAN, stamp : 0 .. MaxTime, of : SUBSET Rows, seen : Nat]
Scans == [at : {"wait", "scan", "send", "retry", "resend"}, left : SUBSET Tasks,
          task : Tasks \union {Idle}]
SumRecords == [by : Batch, since : Nat, again : BOOLEAN, at : Nat, of : SUBSET Rows]

\* Every variable has its type.  A task that no two workers executed at once is
\* retried MaxRetries times at most; two that fail with it may both see one left.
TypeOK ==
  /\ {now, ticked} \subseteq 0 .. MaxTime /\ troubles \in 0 .. MaxTroubles
  /\ nextRun \in [Tasks -> Nat] /\ due \in [Tasks -> Nat] /\ expiry \in [Tasks -> Nat]
  /\ isSuccess \in [Tasks -> BOOLEAN] /\ outcome \in [Tasks -> BOOLEAN]
  /\ attempt \in [Tasks -> Nat] /\ overlapped \subseteq Tasks
  /\ \A t \in Tasks \ overlapped : attempt[t] <= MaxRetries
  /\ scan \in Scans /\ worker \in [Workers -> Executions]
  /\ rows \in [Tables -> SUBSET Rows] /\ ever \in [Tables -> SUBSET Rows]
  /\ sums \in [saved : SUBSET SumRecords, sent : SUBSET SumRecords]

\* The retry status of a task says how its last execution ended, and counts no
\* attempt once one succeeded, unless two of them overlapped.
RetryStatusTruthful ==
  \A t \in Tasks :
    t \notin overlapped /\ (\A w \in Workers : worker[w].task # t) =>
      isSuccess[t] = outcome[t] /\ (isSuccess[t] <=> attempt[t] = 0)

Sums(t) == {s \in sums.saved \union sums.sent : s.by = t}
Complete(t) == {s \in sums.sent : s.by = t}

\* A row that is deleted is part of a sum, unless no check that ended well
\* looked at the table between its insertion and the end of its window.
NoneLost ==
  \A t \in Batch : \A r \in ever[Source(t)] \ rows[Source(t)] :
    (\E s \in Sums(t) : r \in s.of)
      \/ \A s \in Complete(t) : ~(s.at - Window(Source(t)) < r.at /\ r.inserted < s.at)

\* Two checks that were dispatched because it was their time, one after the other,
\* sum up a row twice only if it was taken after the first of them was dispatched:
\* what a check is late is all that its window may share with the next one's,
\* however late either of them is and whatever fails.
NoneTwice ==
  \A t \in Batch : \A s1, s2 \in {s \in Sums(t) : ~s.again} :
    s1 # s2 /\ s1.since <= s2.since => \A r \in s1.of \intersect s2.of : r.at > s1.since
=============================================================================
