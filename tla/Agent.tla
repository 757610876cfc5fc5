-------------------------------- MODULE Agent --------------------------------
(***************************************************************************)
(* cmd/alpamon/command/root.go and pkg/runner/client.go, with the pid file *)
(* of pkg/pidfile and the check of the session of pkg/scheduler: the life  *)
(* of the agent, through the restarts in which the process executes itself *)
(* anew.  The main loop waits for a signal, for one of the two channels    *)
(* that are closed to end it, and for requests to restart the collector;   *)
(* the backhaul client reads messages and reconnects; commands run in      *)
(* goroutines and reach the main loop through the channels, those that end *)
(* the agent a second later.                                               *)
(*                                                                         *)
(* The collector is taken as a whole: its Stop returns, or it does not     *)
(* (Collector has how), and then the main loop goes no further.            *)
(***************************************************************************)
EXTENDS Integers

CONSTANTS MaxMessages,  \* bound: how many messages the console sends
          MaxLosses     \* bound: how often the connection is lost

ASSUME BoundsAssumption == MaxMessages \in Nat /\ MaxLosses \in Nat

VARIABLES
  process,      \* "running", or how it has ended
  restarts,     \* history: how often it has executed itself anew
  pidFile,      \* whose pid it has: "other" lives, "dead" does not
  kept,         \* history: whether the pid file could not be removed
  main,         \* where runAgent is
  cancelled,    \* whether ctx is cancelled
  closed,       \* those of ShutDownChan and RestartChan that are closed
  collectorRestartChan,  \* its length (capacity 1)
  collector,    \* metricCollector
  wanted,       \* a restart was asked for and no collector configured since
  client,       \* where RunForever is
  conn,         \* wc.Conn
  pending,      \* commands that have been started and have not acted yet
  messages, losses

mainVars == <<main, restarts, pidFile, kept, cancelled, collectorRestartChan, collector,
              wanted>>
clientVars == <<client, conn, messages, losses>>
vars == <<process, mainVars, clientVars, closed, pending>>

Commands == {"quit", "restart", "restartcoll"}

\* What a new process has of its own.
NoCommands == [c \in Commands |-> 0]

Init ==
  /\ process = "running" /\ main = "start" /\ restarts = 0
  /\ pidFile \in {"none", "dead", "other"} /\ kept = FALSE
  /\ cancelled = FALSE /\ closed = {}
  /\ collectorRestartChan = 0 /\ collector = "nil" /\ wanted = FALSE
  /\ client = "off" /\ conn = "nil"
  /\ pending = NoCommands
  /\ messages = 0 /\ losses = 0

Running == process = "running"

\* os.Exit, a panic in any goroutine, or the return of runAgent.
End(how) == Running /\ process' = how

Main(from, to) == /\ Running /\ UNCHANGED process
                  /\ main = from /\ main' = to

Client(from, to) == /\ Running /\ UNCHANGED process
                    /\ client = from /\ client' = to

-----------------------------------------------------------------------------
(* runAgent *)

\* os.Exit(1), with no clean-up: the log file, the platform, the pid file, the
\* configuration or the database.
StartFails ==
  /\ main \in {"start", "session", "services"} /\ End("failed")
  /\ UNCHANGED <<mainVars, clientVars, closed, pending>>

\* WritePID refuses if the file has the pid of a process that lives, which its own
\* does.
WritePid ==
  /\ main = "start"
  /\ \/ /\ pidFile \in {"none", "dead"} /\ Main("start", "session")
        /\ pidFile' = "own"
     \/ /\ pidFile \in {"own", "other"} /\ End("refused")
        /\ UNCHANGED <<main, pidFile>>
  /\ UNCHANGED <<restarts, kept, cancelled, closed, collectorRestartChan, collector>>
  /\ UNCHANGED <<wanted, clientVars, pending>>

\* CheckSession tries until the server answers; after three days, or when ctx is
\* cancelled, os.Exit(1).  In the middle of a request it does not look at ctx.
CheckSession ==
  /\ main = "session"
  /\ Main("session", "services") \/ (End("gaveUp") /\ UNCHANGED main)
  /\ UNCHANGED <<restarts, pidFile, kept, cancelled, closed, collectorRestartChan>>
  /\ UNCHANGED <<collector, wanted, clientVars, pending>>

\* InitCollector: no collector if the configuration cannot be fetched.
Configured == {"nil", "new"}

Start ==
  /\ Main("services", "select")
  /\ \E c \in Configured : collector' = IF c = "nil" THEN "nil" ELSE "running"
  /\ client' = "connect"
  /\ UNCHANGED <<restarts, pidFile, kept, cancelled, closed, collectorRestartChan>>
  /\ UNCHANGED <<wanted, pending, conn, messages, losses>>

\* The goroutine that waits on sigChan, from the start.
Terminate ==
  /\ Running /\ ~cancelled
  /\ cancelled' = TRUE
  /\ UNCHANGED <<process, main, restarts, pidFile, kept, closed, collectorRestartChan>>
  /\ UNCHANGED <<collector, wanted, clientVars, pending>>

\* ctx.Done, or the console's quit.
SelectShutDown ==
  /\ Main("select", "shutDown")
  /\ cancelled \/ "ShutDownChan" \in closed
  /\ cancelled' = TRUE
  /\ UNCHANGED <<restarts, pidFile, kept, closed, collectorRestartChan, collector>>
  /\ UNCHANGED <<wanted, clientVars, pending>>

SelectRestart ==
  /\ Main("select", "shutDownToRestart")
  /\ "RestartChan" \in closed
  /\ cancelled' = TRUE
  /\ UNCHANGED <<restarts, pidFile, kept, closed, collectorRestartChan, collector>>
  /\ UNCHANGED <<wanted, clientVars, pending>>

SelectCollector ==
  /\ Main("select", "stopCollector")
  /\ collectorRestartChan = 1 /\ collectorRestartChan' = 0
  /\ UNCHANGED <<restarts, pidFile, kept, cancelled, closed, collector, wanted>>
  /\ UNCHANGED <<clientVars, pending>>

\* Collector.Stop waits for its workers, perhaps for ever.
Stop(from, to) == Main(from, to) \/ Main(from, "hung")

\* Neither call checks for a collector that is nil.
StopCollector ==
  /\ main = "stopCollector"
  /\ IF collector = "nil"
       THEN End("panicked") /\ UNCHANGED <<main, collector>>
       ELSE Stop("stopCollector", "initCollector") /\ collector' = "stopped"
  /\ UNCHANGED <<restarts, pidFile, kept, cancelled, closed, collectorRestartChan>>
  /\ UNCHANGED <<wanted, clientVars, pending>>

ConfigureCollector ==
  /\ Main("initCollector", "startCollector")
  /\ collector' \in Configured
  /\ wanted' = FALSE
  /\ UNCHANGED <<restarts, pidFile, kept, cancelled, closed, collectorRestartChan>>
  /\ UNCHANGED <<clientVars, pending>>

StartCollector ==
  /\ main = "startCollector"
  /\ IF collector = "nil"
       THEN End("panicked") /\ UNCHANGED <<main, collector>>
       ELSE Main("startCollector", "select") /\ collector' = "running"
  /\ UNCHANGED <<restarts, pidFile, kept, cancelled, closed, collectorRestartChan>>
  /\ UNCHANGED <<wanted, clientVars, pending>>

\* wc.Close, by whoever calls it: the connection is closed if the close message
\* can be written.
CloseConn == conn' \in IF conn = "nil" THEN {conn} ELSE {conn, "closed"}

\* Faulty variant of Removed: the pid file stays.
LeftBehind == "own"

Removed == "none"

\* gracefulShutdown stops the collector, if there is one, closes the client and
\* removes the pid file; that the host refuses the removal is not looked at.
ShutDown(from, to) ==
  /\ Main(from, to)
  /\ collector' = IF collector = "running" THEN "stopped" ELSE collector
  /\ CloseConn
  /\ \/ pidFile' = Removed /\ UNCHANGED kept
     \/ UNCHANGED pidFile /\ kept' = TRUE
  /\ UNCHANGED <<restarts, cancelled, closed, collectorRestartChan, wanted>>
  /\ UNCHANGED <<client, messages, losses, pending>>

ShutDownHangs(from) ==
  /\ collector = "running" /\ Main(from, "hung") /\ collector' = "stopped"
  /\ UNCHANGED <<restarts, pidFile, kept, cancelled, closed, collectorRestartChan>>
  /\ UNCHANGED <<wanted, clientVars, pending>>

\* Faulty variant of Return: the loop goes on.
GoOnSelecting == process' = process /\ main' = "select"

\* runAgent returns.
Return == process' = "exited" /\ UNCHANGED main

Finish ==
  /\ Running /\ main \in {"exit", "exec"}
  /\ Return
  /\ UNCHANGED <<restarts, pidFile, kept, cancelled, closed, collectorRestartChan>>
  /\ UNCHANGED <<collector, wanted, clientVars, pending>>

\* restartAgent, when syscall.Exec does not fail: the same process starts anew,
\* and what its goroutines and channels had is gone.
Exec ==
  /\ Main("exec", "start")
  /\ restarts' = restarts + 1
  /\ cancelled' = FALSE /\ closed' = {}
  /\ collectorRestartChan' = 0 /\ collector' = "nil" /\ wanted' = FALSE
  /\ client' = "off" /\ conn' = "nil"
  /\ pending' = NoCommands
  /\ UNCHANGED <<pidFile, kept, messages, losses>>

RunAgent == \/ StartFails \/ WritePid \/ CheckSession \/ Start
            \/ SelectShutDown \/ SelectRestart \/ SelectCollector
            \/ StopCollector \/ ConfigureCollector \/ StartCollector
            \/ ShutDown("shutDown", "exit") \/ ShutDown("shutDownToRestart", "exec")
            \/ ShutDownHangs("shutDown") \/ ShutDownHangs("shutDownToRestart")
            \/ Finish \/ Exec

-----------------------------------------------------------------------------
(* RunForever *)

Connect ==
  /\ Client("connect", "top")
  /\ conn' = "up"
  /\ UNCHANGED <<mainVars, closed, pending, messages, losses>>

\* After three days without a connection: os.Exit(1), with no clean-up.
GiveUp ==
  /\ client = "connect" /\ End("gaveUp")
  /\ UNCHANGED <<mainVars, clientVars, closed, pending>>

\* Setting the deadline of a connection that was closed here fails.
Loop ==
  /\ Client("top", IF cancelled THEN "returned"
                   ELSE IF conn = "closed" THEN "reconnect" ELSE "read")
  /\ UNCHANGED <<mainVars, closed, pending, conn, messages, losses>>

\* Faulty variant of OnError: a lost connection ends the client.
ReturnOnError == "returned"

OnError == "reconnect"

\* The read fails, at the latest when its deadline is over, which comes for a
\* connection that is up too if the console is silent.
ReadFails ==
  /\ Client("read", OnError)
  /\ UNCHANGED <<mainVars, closed, pending, conn, messages, losses>>

CloseAndReconnect ==
  /\ Client("reconnect", IF cancelled THEN "top" ELSE "connect")
  /\ IF cancelled THEN UNCHANGED conn ELSE CloseConn
  /\ UNCHANGED <<mainVars, closed, pending, messages, losses>>

\* CommandRequestHandler: a message the client answers by starting a goroutine,
\* by closing ShutDownChan or by closing the connection.
Receive ==
  /\ client = "read" /\ conn = "up" /\ messages < MaxMessages
  /\ messages' = messages + 1

ReceiveCommand ==
  /\ Receive /\ Client("read", "top")
  /\ \E c \in Commands : pending' = [pending EXCEPT ![c] = @ + 1]
  /\ UNCHANGED <<mainVars, closed, conn, losses>>

\* close of a closed channel panics.
CloseChan(chan) ==
  IF chan \in closed THEN End("panicked") /\ UNCHANGED closed
  ELSE Running /\ closed' = closed \union {chan} /\ UNCHANGED process

ReceiveQuit ==
  /\ Receive /\ CloseChan("ShutDownChan")
  /\ client' = "top"
  /\ UNCHANGED <<mainVars, pending, conn, losses>>

ReceiveReconnect ==
  /\ Receive /\ Client("read", "top")
  /\ CloseConn
  /\ UNCHANGED <<mainVars, closed, pending, losses>>

LoseConnection ==
  /\ Running /\ conn = "up" /\ losses < MaxLosses
  /\ conn' = "broken" /\ losses' = losses + 1
  /\ UNCHANGED <<process, mainVars, closed, pending, client, messages>>

RunForever == Connect \/ GiveUp \/ Loop \/ ReadFails \/ CloseAndReconnect

-----------------------------------------------------------------------------
(* The commands, in goroutines and timers of their own. *)

Runs(c) == pending[c] > 0 /\ pending' = [pending EXCEPT ![c] = @ - 1]

RunQuit ==
  /\ Runs("quit") /\ CloseChan("ShutDownChan")
  /\ UNCHANGED <<mainVars, clientVars>>

RunRestart ==
  /\ Runs("restart") /\ CloseChan("RestartChan")
  /\ UNCHANGED <<mainVars, clientVars>>

\* Faulty variant of Requested: without its buffer the channel takes a request
\* only while the main loop waits for one.
RequestedUnbuffered == IF main = "select" THEN 1 ELSE collectorRestartChan

\* Faulty variant of Requested: duplicates are not skipped.
RequestedTwice == collectorRestartChan + 1

\* RestartCollector sends if the channel is empty, and skips it otherwise.
Requested == 1

RunRestartCollector ==
  /\ Running /\ Runs("restartcoll")
  /\ collectorRestartChan' = Requested
  /\ wanted' = TRUE
  /\ UNCHANGED <<process, main, restarts, pidFile, kept, cancelled, collector>>
  /\ UNCHANGED <<clientVars, closed>>

RunCommand == RunQuit \/ RunRestart \/ RunRestartCollector

Next == \/ RunAgent \/ RunForever \/ RunCommand
        \/ ReceiveCommand \/ ReceiveQuit \/ ReceiveReconnect
        \/ Terminate \/ LoseConnection

Spec == Init /\ [][Next]_vars

\* The main loop, the client and the commands go on if they can: select takes a
\* channel that is ready, a dial succeeds in the end or is given up, and a read
\* of a connection that is gone fails.  Nobody has to send a message.
LiveSpec == Spec /\ WF_vars(RunAgent) /\ WF_vars(RunForever) /\ WF_vars(RunCommand)

-----------------------------------------------------------------------------
(* Properties. *)

\* Every variable has its type.
TypeOK ==
  /\ process \in {"running", "exited", "refused", "failed", "gaveUp", "panicked"}
  /\ restarts \in Nat
  /\ pidFile \in {"none", "dead", "other", "own"}
  /\ main \in {"start", "session", "services", "select", "stopCollector", "initCollector",
               "startCollector", "shutDown", "shutDownToRestart", "exit", "exec", "hung"}
  /\ cancelled \in BOOLEAN /\ wanted \in BOOLEAN /\ kept \in BOOLEAN
  /\ closed \subseteq {"ShutDownChan", "RestartChan"}
  /\ collectorRestartChan \in 0 .. 1
  /\ collector \in {"nil", "new", "running", "stopped"}
  /\ client \in {"off", "connect", "top", "read", "reconnect", "returned"}
  /\ conn \in {"nil", "up", "broken", "closed"}
  /\ pending \in [Commands -> 0 .. MaxMessages]
  /\ messages \in 0 .. MaxMessages /\ losses \in 0 .. MaxLosses

\* No request to restart the collector is lost by being skipped as a duplicate:
\* if one came after the present collector was configured, another restart is
\* noted in the channel or has yet to read the configuration, also when the
\* request came in the middle of a restart: or Collector.Stop never returned.
NoRestartLost ==
  wanted => \/ collectorRestartChan = 1
            \/ main \in {"stopCollector", "initCollector", "hung"}

\* Such a request is served in the end, by a collector configured after it,
\* unless the process ends first or Collector.Stop does not return.
RestartServed == wanted ~> ~wanted \/ ~Running \/ main = "hung"

\* A process that is told to end, by a signal or from the console, ends or starts
\* anew, even if it is starting, has lost the connection or is told twice: the
\* one thing that can hold it up for ever is a Collector.Stop that does not
\* return, be it that of the shutdown or of a restart of the collector.
QuitObeyed ==
  \A n \in 0 .. MaxMessages :
    restarts = n /\ (cancelled \/ closed # {}) ~>
      ~Running \/ restarts > n \/ main = "hung"

\* An agent that is told to restart serves again, unless something it starts with
\* fails: it is not refused because of the pid it had itself, if the host let it
\* remove the file.
Restarted ==
  \A n \in 1 .. MaxMessages :
    restarts = n /\ main = "start" ~>
      main = "select" \/ process \in {"failed", "gaveUp"} \/ kept

\* A connection that is lost, or closed at the console's request, is replaced
\* unless the agent ends.
Reconnected ==
  conn \in {"broken", "closed"} ~> conn = "up" \/ cancelled \/ ~Running

\* No sequence of commands makes the agent panic: it ends by gracefulShutdown or
\* goes on.
NoPanic == process # "panicked"
=============================================================================
