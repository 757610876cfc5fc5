# Alpamon in TLA+

Alpamon is the agent that runs on a server and connects it to the Alpacon console:
it keeps a websocket ("backhaul") open, runs the commands that come in over it,
opens terminals (Websh), collects metrics and reports everything over HTTP.  This
directory models its concurrent parts, checks them with TLC and proves the central
ones with TLAPS.  Every definition follows the code under `src/`; `PROJECT.json`
gives the lines of each.

## The system

| Component | State | Operations | How it meets the others |
|---|---|---|---|
| Request queue and reporters (`pkg/scheduler`) | bounded priority queue `Rqueue`, its condition variable, the reporters' counters | `Post`/`Put`/`Patch`/`Delete`; `Run`, `query` in `HTTPThreads` reporters | called by commands, commit, log server, start-up; sends over the session |
| HTTP session (`session.go`) | base URL, credentials | `Request`, `CheckSession` | used by reporters, transporter, recovery, commit |
| Websh session (`pty.go`) | websocket, pty, two data channels, `isRecovering`, three notification channels | `RunPtyBackground`, four copying goroutines, `recovery`, `close` | started by the command `openpty`; found in the `terminals` map by `resizepty` |
| Collector (`pkg/collector`) | `SuccessQueue`, `FailureQueue`, wait group, context | `Start`, `Stop`, success and failure workers | created and restarted by the main loop; fed by the checks |
| Check scheduler (`pkg/collector/scheduler`) | tasks with next run and retry status, `taskQueue` | `dispatcher`, `worker`, `executeTask` | runs the checks; stopped by the collector |
| Checks (`pkg/collector/check`) | rows in a SQLite database | `Execute`: insert, sum up and delete, send, clean up | push on `SuccessQueue` |
| Main loop (`cmd/alpamon/command/root.go`) | the collector, the client, the pid file | start-up, select loop, `gracefulShutdown`, `restartAgent` | told by the client's channels and by signals; executes itself anew |
| Backhaul client (`client.go`) | connection, three channels to the main loop | `RunForever`, `Connect`, `Close`, `CommandRequestHandler` | starts a goroutine for each command |
| Command runner (`command.go`, `shell.go`) | the host's files and accounts; none of its own | internal and shell commands, user and group commands, file transfer, resize | posts acknowledgement and result into the request queue; reads the `terminals` map |
| Commit and sync (`commit.go`) | `syncMutex` | compare local state with the server's, queue the difference | reads by HTTP, writes through the request queue |
| FTP worker (`ftp.go`, `utils/fs.go`) | working directory, websocket, the host's files | one command at a time | process of its own, started by the command `openftp` |
| Pid file (`pkg/pidfile`) | one file | write, remove, look whether its process lives | main loop, at start-up and end |
| Log server (`logger/server.go`), configuration, logging, database schema, set-up | — | — | the log server posts into the request queue; set-up and configuration may end the process at its start |

What is hard here: goroutines that meet on channels and on a condition variable;
sends that look at no context; shutting down while others are in the middle of
something; failures, timeouts and retries of requests that may have been executed;
bounded queues that fill up.  `PROJECT.json` lists each hazard at its line, with the
properties that cover it or the reason why none does yet.

What makes each component correct:

- **Queue:** an accepted request is in one place until it is settled; none is
  forgotten while all reporters sleep; it is sent at least once before it is given
  up, at most `RetryLimit + 1` times, on the backoff schedule; one that is refused,
  or dropped early, met an overloaded queue; the counters account for all of it.
- **Websh session:** a lost connection starts exactly one recovery, whoever notices;
  who waits for it is answered.
- **Collector:** no metric vanishes between the checks, the queues and the server;
  workers that back up come back; `Stop` returns, and nobody sends on what it closed.
- **Checks:** a row is not deleted before it was summed up or its window has passed,
  and is summed up twice only if a check was late; the retry status of a task says how
  its last run ended.
- **Commit and sync:** undisturbed, a synchronisation makes the console agree with the
  host, whatever was wrong before; disturbed, it never invents a row, and never loses
  one that was there all the time.
- **Command runner:** a command line means what it means to a shell; a transfer that
  failed is reported; nothing is left behind, and no file of the user touched that
  the command does not name; no command makes the agent panic.
- **FTP worker:** a success did all that the command means, a failure is contained, a
  copy leaves its source alone, and every command is answered.
- **Agent:** told to end, it ends, whatever it is doing, unless `Collector.Stop` does
  not return; told to restart, it serves
  again; a request to restart the collector is not swallowed by a restart that is
  under way; a lost connection is replaced; no sequence of commands makes it panic.

## The modules

**`Delivery`** is what the queue promises, with no queue in it: each request is
accepted or refused, tried, executed by the server perhaps more than once, delivered
or given up; refusing needs a backlog of `Capacity` requests, giving up needs a try,
and all retries used or a backlog above `Capacity`.

**`RequestQueue`** models `queue.go` and `reporter.go`.  `Post` is the successful part of
`request` up to the `Offer`, `Signal` the `cond.Signal()` after it, so that reporters
may move between the two; `PostRefused` is the early return.  `Run` is cut where other
goroutines can act: taking `cond.L`, the size check, `Wait` (join the notify list and
release), waking up, `Get` with its unlock, then putting back and sleeping
(`Defer`, `EndSleep`) or sending.  `query` is cut into sending, execution by the server,
and the answer: `Succeed`; `Retry` and `Exhaust` from before or after the execution, which
is how an error, a timeout or a refusal looks from here.  `Best` leaves the order of
equal entries open, as the heap does.  An entry is in one place only (this is the
invariant `Custody`), so its due time and retries are kept by request.

**`PtySession`** models `RunPtyBackground`, the reader, the writer, the two goroutines
on the pty's side, `recovery` and `close`.  `at` says where each goroutine is.
Connections are numbered; the reader holds on to the one it has called `ReadMessage`
on (`readConn`), the writer looks `pc.conn` up for each message.  `Claim`, `Notify` and
`Resume` are the same code in the reader and the writer (lines 163-171 and 227-235).
A connection may break or be closed by the peer; a write to one that is gone may
succeed or fail.

**`Collector`** models `collector.go` with the channels of `scheduler.go`: the dispatcher
in the middle of a tick, check workers that have looked at the context and then push,
success workers, the failure worker with its backoff, and `Stop` in four steps.  A send
on a closed channel panics and ends everything.

**`Checks`** models the check scheduler and what its tasks do to the database: the dispatcher's tick
with a visit of each task (`Visit`, `Look` and `Send` apart, because a worker may change the status
between them), the four tasks of one metric (realtime, hourly, daily, clean-up), each cut at every
access to the database and at every look at the clock, and `executeTask`'s handling of the outcome,
in which two workers may be with the same task and each write of its status is a step.  Every
reading of the clock is one of its own: the dispatcher's, once a tick; those of a check for its
window, for the row it saves and for what it deletes; that of a retry.  Time may pass between any
two steps, in units as short as one likes: `Second`, `Hour` and `Day` are numbers of units.
`Deletes` and `SaveUncommitted` have the transaction whose commit error nobody looks at. `ever`,
`sums`, `outcome` and `overlapped` are history: all rows there have been; what was summed up, by a
check dispatched at which tick, as planned or `again`; how the last run of each task ended; and the
tasks that two workers executed at once.  `Earlier` says which tables have a row of an earlier run
of the agent.  `MCChecks` adds the symmetry of the workers.

**`Mirror`** is what the console may come to show of a host: a row was read on the host
at some time, one that is gone stays gone, and of the rows of a key the first stays
unless some reading lacked the key.

**`CommitSync`** models `commit.go` and the user commands: `host` is what is there, `shown` what the
console has, `queued` the requests that nobody has executed yet.  A synchronisation is `Lock`, then
for each table `Read`, `Fetch` and `Compare`, then `Unlock`; `Differences` is `compareListData`.  A
commit takes no mutex.  Readings may be partial or empty, because their errors are only logged.
`Execute`, `ExecuteAndRetry` and `Lose` are what `RequestQueue` and its `Delivery` leave of a
request seen from here: executed, executed and sent again, given up or dropped, in any order.
`fresh` is history: the tables that were compared with no request on its way and have not been
disturbed since.

**`CommandRunner`** models the goroutine of a command from acknowledgement to answer. For a command
line it has the tokens, the argument list and the early returns of `handleShellCmd`, and beside it
`ShellRuns`, what a shell does with the line.  Downloads and uploads are cut at every program they
start; a `zip` that fails may leave an archive (`"partial"`), because its removal is deferred only
after a success.  The `terminals` map is written in two steps by sessions, and `close` reads it
before, so that a concurrent write or read can be seen (the Go runtime ends a process that does
it).  `MCCommandRunner` lists what the console asks.

**`Ftp`** models the worker: a tree of paths from the root, the command in hand, and `agenda`, what
is left of a copy, recursive removal, recursive change of mode or listing, which are taken one entry
at a time; between them other processes may `Edit` the tree.  A recursive removal looks whether
there is anything (`RmdBegins`) before it begins.  A listing shows as an error what cannot be read,
is gone or has an owner without a name.  `Umasked` is what the umask makes of a mode: new
directories, also copied ones, have it taken off, copied files do not.  `HasPrefix` is the
comparison of strings by which the code decides that a directory is copied into itself.  `Meaning`
says in one step what a command means.  `MCFtp` has the trees and commands.

**`Agent`** models the life of the process: start-up with the pid file and the check of the session;
the `select` of `runAgent` with the three steps of a collector restart; `gracefulShutdown` and the
re-execution, which keeps the pid and resets everything else; `RunForever` with `Connect`, `Close`
and the reading of messages; and the commands that reach the main loop through `ShutDownChan`,
`RestartChan` and `CollectorRestartChan`, each in a goroutine or timer of its own.  `process` says
how it ends: by returning, by refusing to start beside another agent, by failing at its start, by
`os.Exit` after three days without a connection, or by a panic.  The collector is one variable here,
and its `Stop` returns or does not (`collector_hang` shows how): then the main loop is `"hung"`.
`kept` is history: the host refused to remove the pid file, which `gracefulShutdown` does not look
at.

*How they fit together.*  `Agent` starts what the others model, `Checks` pushes what `Collector`
passes on, and `CommandRunner` and `CommitSync` are callers of `RequestQueue`.  Each module takes of
its neighbours only what they promise: `CommitSync` uses a request's possible fates, `Collector` a
check's two looks at the context, `Agent` a collector that starts and stops.

**`RequestQueueProofs`**, **`PtySessionProofs`**, **`CollectorProofs`**, **`ChecksProofs`**,
**`CommitSyncProofs`**, **`CommandRunnerProofs`**, **`FtpProofs`** and **`AgentProofs`** hold the
theorems. `MCRequestQueue` gives `RequestQueue` its priorities.  Operators commented "Faulty variant
of X" are used nowhere: putting one in the place of X must make the properties fail, which shows
what they can detect.

## What is checked

| Run | Instance | What it shows |
|---|---|---|
| `queue` | 3 requests of 2 priorities, 2 reporters, capacity 2, 1 retry, all calls in second 0 | types, custody, no failing `Get`, no stranded entry, retry budget, backoff schedule, the refinement of `Delivery`, and that every accepted request is settled |
| `pty` | 1 lost connection, 3 connections, channels of 1 | one recovery at a time, and everybody who waits for one is answered |
| `pty_hang` | 2 lost connections | violated: a waiting goroutine is not answered |
| `collector` | 2 workers, 2 senders, queues of 2, 2 retries, 4 metrics | conservation of metrics, senders come back |
| `collector_hang` | the same, 3 metrics | violated: `Stop` does not return |
| `collector_panic` | the same, 2 metrics | violated: a send on a closed channel |
| `checks` | 2 workers, second and hour of 1 and a day of 3 units, metrics every 2, an hourly row left by an earlier run, 1 retry with a limit of 2, time up to 4, 2 troubles | no row lost, none shared by two sums but what a late check shares with the next, the retry status truthful |
| `commit` | 2 goroutines, the single row and 1 name, 2 values, 1 edit by others, 1 fault | synchronisations converge and end, and the refinement of `Mirror` |
| `commands` | every line of up to 4 words (5 with semicolons alone) and every choice of failures; pairs of transfers, of terminal commands, over 3 paths and 2 sessions | command lines against a shell, reports, nothing left behind, files kept, and where a panic can come from |
| `ftp` | 2 trees of 2 names and depth 4, 2 commands, 1 change by others | success, failure and listing against their meaning, sources kept, every command answered |
| `agent` | 3 messages of the console, 1 lost connection, a signal at any time | no collector restart lost, every one served, an agent told to end ends, one told to restart serves again, lost connections replaced; each but for what a hung `Collector.Stop` or a pid file that cannot be removed prevents |
| `agent_panic` | 2 messages | violated: a second quit panics |

*Why these bounds.*

- Queue: three requests over a capacity of two give a full queue, a refused call, an
  entry dropped on its way back, and two entries competing by priority and by due time;
  two reporters give every race on the lock and the notify list (the proofs cover any
  number).  One retry reaches zero.  Calls after second 0 differ from these in their due
  time only, and retries supply other due times; by `LastTime` every entry is due, so the
  clock may stop there.
- Websh session: a buffer of one is enough for both data channels to block; three
  connections allow two recoveries, and one more than the losses a spurious one.
- Collector: one configured check gives exactly queues of two, two workers and two
  senders (`len(conf) * 2`); four metrics fill one queue and occupy both senders, and two
  dispatches in a tick are what `dispatcher` makes of one check.
- Checks: undelayed, the hourly check runs at 2 and at 4, the metric is collected at 3, on the
  edge of the second one's window, and the daily check and the clean-up run at 4, when
  the row of the earlier run is out of the daily window and those of the hourly check are in
  it.  A trouble is a failure, a lost commit, a dropped tick or a unit of time that passes while somebody
  is at work: two are a failure and a delay, a failure and its failed retry, or two delays,
  so that a check looks later than the dispatcher, deletes later than it looked, or is
  overtaken by the next one.  Two workers are what an overlap needs.
- Commit: one name with up to two rows has the row that is patched and the duplicate
  that is deleted; two goroutines give two synchronisations in a row with requests of
  the first still queued, or one beside a commit.
- Command lines: three operators between words need four tokens, since a semicolon may be
  attached to its word; a lone semicolon adds one.  Transfers meet in pairs on a path.
- Ftp: the umask is one that turns every mode into `"old"`, so that a copy of a directory whose mode
  was changed differs from it.  `a` and `ab` have the common prefix that `HasPrefix` is about; depth
  four holds a directory in a directory in a directory with a file, which a copy upwards can meet,
  and a copy below its own source.
- Agent: three messages are a restart request that is being served, one that waits in
  the channel and one that is skipped, or two of them and a quit.

`CHECK_DEADLOCK` is off everywhere: bounded runs end, and so do sessions.

*Fairness.*  Only what the scheduler, timeouts and tickers guarantee: a goroutine that
can go on does (weak fairness of each reporter, each worker, each goroutine of a
session, each synchronisation under way, the FTP worker); a request is answered or times
out, so `Query` and `Fetch` are fair, but the server need not execute anything;
a call that has put its entry goes on to signal (one condition for all calls, each signals once);
`recovery` ends within its minute; time passes.  Nobody is made to post, to type, to give a
command, to lose a connection, to let the shell exit or to call `Stop`.  In `Agent`, `select` picks at
random among the channels that are ready; weak fairness of the main loop is enough because
the messages are bounded.

*What the violated runs show.*

- `pty_hang`: after a recovery the main loop sends a token to the reader *and* the writer, also
  to one that was not waiting.  The token stays.  The next recovery blocks in the same
  send, or its owner takes it early and goes on with the connection that is still broken.
- `collector_hang`: with the server down and `FailureQueue` full, the failure worker
  leaves on cancellation and a success worker stays in its send; `wg.Wait` never returns.
- `collector_panic`: `Stop` closes `taskQueue` under a dispatcher in the middle of a tick,
  and `SuccessQueue` under a check that has looked at its context before.
- `agent_panic`: a second quit closes `ShutDownChan` again.  With more messages or a failed
  fetch of the configuration the same property fails for `RestartChan` and for a
  collector restart with no collector (`root.go` 124 and 126).

*What else the models contain*, without a run of its own: a main loop of a session that is blocked
in `pty.go` 140 or 141 sees neither the cancelled context nor the next request; `close` returns at
`pty.go` 280, before `conn.Close`, when the close message cannot be written; an answer 404 to a
single row panics at `commit.go` 190 (`FetchPanics`); `CopyFile` empties a file that is copied onto
itself, and a copy to a place above its source (`a/a` to the home directory) may meet its source and
write into it or over it, because `CopyDir` refuses only a destination below (`CopyUpwards`,
`CopyOntoItself`); `unzip` hides the result of a transfer behind that of `rm` (`FailureReported`
leaves it out), and a `zip` that fails leaves its archive (`NoResidue`); the umask makes the copy of
a directory stricter than the directory (`Made`).  The properties name these cases and except them.

## What is proved

**The queue.**  `RequestQueueProofs` proves, for any finite set of requests, any set of at least two
reporters, any capacity, retry limit and priorities, that `Spec` implies always `TypeOK`, `Custody`,
`GetFindsEntry`, `NoStrandedEntry`, `RetryBudget`, `BackoffSchedule` and `CountersAgree` (the
counters account for every settled request), and that it implies `DeliverySpec`.

Assumed of the constants: the requests are finite (only their cardinalities need it);
the capacity is positive; there are two different reporters.  The code starts
`HTTPThreads` of them, which `config.go` 93 sets to 4.  Two are needed indeed:
a signal consumes the only sleeper, and that the notify list is empty says somebody is
up only if somebody else is not on his way to it.

The inductive invariant `IInv` is the conjunction of those invariants, without the
counters, and `Bookkeeping`: who holds `cond.L`, that only parked goroutines are on the
notify list, that a hand is full exactly while its entry is handled, that a first try
is due at once, and how executions relate to tries.  The parts need each other.
`NoStrandedEntry` needs the lock: when a signal finds nobody on the list, a reporter
may be on its way to it, but then it holds `cond.L` and the other one is up.
`RetryBudget` needs `Custody`: a second copy of an entry would spend the budget twice.
That an entry put back was tried before (for `Delivery`'s `GiveUp`) needs the fact that an
untried one is never in the future.  There is one lemma for each action with one step
for each conjunct, a lemma for the stuttering step, and `NextInv` puts them together.
`CountersStep` adds the counters by the cardinality of a set that grows by one
(`VerdictCounts`).  `BackoffSchedule` needs that `2 ^ (n + 1)` is twice `2 ^ n`, for which the prover has
no law: it is the number of subsets of a set of `n`, and a set that grows by one element has
twice as many.  The refinement needs `BacklogInv`: the queue and a hand together hold
that many pending requests, so a full queue means a backlog that `Delivery` can see.

**The Websh session.**  `PtySessionProofs` proves `TypeOK` and `OneRecovery` for any buffers,
connections and losses.  The invariant adds `BeforeStart`: until the main loop has set the session
up, no other goroutine is there, so that it finds `isRecovering` clear.

**The collector.**  `CollectorProofs` proves `TypeOK`, `Conservation` and that the queues outlive
the senders, for any finite sets of workers and senders and any capacities.  Conservation is a
balance: what the checks made is what was sent and given up, what is in the queues, and the number
of goroutines with a metric in their hands, and each step moves one of these to another (by the
cardinality of a set that gains or loses one goroutine).  `Budgets` keeps the batch of a tick and
the retries from going below zero.

**The checks.**  `ChecksProofs` proves `TypeOK` with its bound on retries, `RetryStatusTruthful`,
`NoneLost` and `NoneTwice`, for any finite set of workers, any hour shorter than the day, any
positive number of retries, and any readings of the clock, delays and failures.  The bound and the
status hold of tasks that no two workers ever executed at once; two that fail with one task may both
see a retry left. The invariant has three arguments beside the types. `Status`: while a task's
executions do not overlap, its worker alone writes the status, so only between its steps (`Behind`)
is the status behind the outcome, and what it read of the attempts is still so when it counts them.
`Kept` and `Seen`: a row that is gone was older than the window when it went, hence every check that
looked before found it, and one inserted since is none that it should have found; this gives more
than `NoneLost`, the sum of that very check has the row.  `Spaced`: the dispatcher sets the next run
an interval after its tick and sends only after it (`TurnOf`), so two planned executions of a check
have ticks more than an interval apart, be they still at work (`RunsOf`) or summed up (`SumsOf`).  A
check looks no earlier than the tick that sent it, and no further back than a window, which is the
interval: the later of two finds nothing from before the tick of the earlier.  More cannot be had: a
check looks at a clock of its own, so a row of the time between its tick and its look may be the
next one's too.

**Commit and sync.**  `CommitSyncProofs` proves `TypeOK`, `Serialised`, `Converges` and the
refinement `MirrorSpec`, for any names, values, goroutines, edits and faults.  The argument: every
request in the queue is justified (`Justified`) by what some reading said and what some fetch
showed.  The value it carries was read; a row it deletes is one whose key some reading lacked, or
one with an earlier row of the same key, and rows only grow and only fade (`Covered` is stable). So
a request may be executed at any later time, twice or never, and `MirrorSpec` still holds.  `InHand`
carries the same through the holder of the mutex, and needs `Serialised`: another goroutine would
change `table` under it. `Converges` needs to know what the requests on their way come to in every
order.  Of each key of a fresh table they are a `Plan`: all rows go; or one row stays, every other
is deleted, and what patches it says what the host has; or there is no row and one is created.  To
execute one of them leaves a plan, in any order; a plan without requests is agreement.  To execute
one and keep it for a retry, or to lose one, takes the table out of `fresh`: `Converges` promises
nothing after it, because a creation that is executed twice makes two rows. `Orderly` says why no
other request is on its way, and what a comparison in hand is made of.

**The command runner.**  `CommandRunnerProofs` proves `TypeOK`, `LikeAShell`, `PanicExplained`,
`FailureReported`, `NoResidue` and `UserFilesKept`, for any commands, sessions and files, and for
lines of any length.  It assumes that the console asks what the code can decode, and gives each
session an ID of its own (`WorkloadsAssumption`), and that the names of files and commands differ
(`NamesAssumption`).  `ArgsKnown` says after which tokens the argument list is empty, which is all
the loop of `handleShellCmd` keeps, so that a panic at an empty one can be traced to the line.
`Follows` says that between two words the code has run what the shell has at that point, and that
the shell runs the next command as well, because the code has not returned at the operator before
it; a command's end may be seen one word later than the shell sees it, hence `cursor.i - 1`.  The
shell's side is a recursive function (`StatusAfter`): that it satisfies its equation, that what has
run only grows (`StatusBegins`), and that a shell skips the rest of a line with one operator where
the code returns (`RestSkipped`), are inductions along the line by the least number at which they
would fail (`FromThenOn`), because the library's induction theorem cannot be used.  `Registry` ties
`terminals` to the state of the sessions, so that a session that was found and is gone is one that
has ended.  `Permitted` carries what `isFileExist` has seen to the write after it: no command makes
a file the user's in between (other programs of the host might; they are not in the model).
`RemovesArchives` says which uploads remove a file, and `NoResidue` what may stay: only what a `zip`
that failed has left.  `Reports` has a report for each file before the one in hand, and says what
the next will be; `Answered` ties the posted answer to the exit code, so that `FailureReported`
speaks of what the console gets.

**The FTP worker.**  `FtpProofs` proves `TypeOK`, `FailureIsContained`, `SourceKept`,
`SuccessIsComplete` and `ListingIsExact`, for any finite set of names, any depth, any trees in which
what exists is in directories all the way up (`TreesAssumption`), and any commands of the protocol
(`RequestsAssumption`).  Walks over a tree need no induction: the agenda has what is left of one,
and the invariant says of every path that is not below an entry of the agenda that the walk has been
there.  `Agenda` keeps the entries of an agenda below the operand of the command; `ChmodSoFar`,
`CopySoFar` and `ListSoFar` say what the tree, or the listing, is where the agenda is not.  With an
empty agenda they are the meaning of the command.  A copy carries each entry of its agenda along
with its source (`Along`), so that what it writes is never what it has yet to read, unless it goes
upwards.  `TypeOK` types every variable, the agenda by the command it belongs to.

**The agent.**  `AgentProofs` proves, for any number of messages, lost connections and restarts,
that `Spec` implies always `TypeOK` and `NoRestartLost`.  The invariant adds `PendingBound`, each
waiting command came with a message of its own; without it the type of `pending` is not inductive.
`NoRestartLost` needs no more: only `ConfigureCollector` forgets a request, and the channel is
emptied before it, never after.  A main loop that waits for a `Collector.Stop` that never returns is
excepted.

**With TLC only:** everything about liveness (`AllSettle`, `RecoveryAnswered`, `SendersComeBack`,
`StopReturns`, `RestartServed`, `QuitObeyed`, `Restarted`, `Reconnected`, `SyncEnds`,
`EveryCommandAnswered`), which is out of the prover's reach. Every safety property and action
property of a passing run is a theorem.

## Abstractions

Time is in whole seconds in `RequestQueue` and in units of any length in `Checks`.  Messages,
metrics and requests have no contents but in `CommitSync`, where a row has a value.

- Queue: `expiry` is never set by a caller, so the branch on it is left out; so are the
  delay and latency averages, which nothing reads.  `Get`'s error branch is left out
  because `GetFindsEntry` shows it dead.
- Session: `pc.conn` is replaced without synchronisation in the code; a stale read of
  it is the same as an earlier read and needs no step of its own.  The shell's user and
  environment are left out.
- Collector: `errorChan` is left out, nothing is sent on it.  A check that is due is
  dispatched at any tick; when it is due is in `Checks`.
- Checks: one metric of five, whose hourly, daily and clean-up code is the same.  The send
  checks' window is left out, and so are the constant alert and status checks.  A row that a sum
  had whose own commit failed, and which is sent all the same, counts as summed up (`NoneLost`).
- Commit: one table of each kind, the single row and the list.  The "server" row is patched
  without a comparison and left out.  What the console does with a request is not in the
  repository: rows are created, changed and deleted as asked.  `Converges` does not speak of a
  synchronisation whose own requests are lost or repeated, or that meets others in the queue.
- Commands: the programs that are started end with 0 or 1.  Sessions have IDs of their
  own, as the console gives them.
- Ftp: symbolic links, hidden files and owners are left out, and `chown` goes as `chmod`.
  `EveryCommandAnswered` takes a longest path (`MaxDepth`), as a host has one.
- Agent: two agents that start at the same moment, both before either has written its
  pid, are not modelled.  A signal that arrives while `Exec` replaces the process is lost with it.

## Not modelled

- **Log server:** accepts records and posts each from a goroutine of its own.  To the
  queue it is one more caller, which `RequestQueue` has.
- **Configuration, logging, database schema, set-up, helpers:** sequential input and output,
  most of it at start-up, with no state that other parts change.  That each may end the
  process is `StartFails` in `Agent`.
- **HTTP session:** has no state but its credentials; its calls appear in other modules as an
  answer, an error or a timeout, and `CheckSession` is a step of `Agent`.

## What is left

1. **`CommitSync` over `RequestQueue`**: the fates of a request as an instance of `Delivery` in
place of the three actions that stand for them. 2. **The send checks' window**, whose length is
multiplied by a second twice and overflows 64 bits (`net_send.go` 65). 3. **Two agents on one pid
file.**
