----------------------------- MODULE AgentProofs -----------------------------
(***************************************************************************)
(* That a request to restart the collector is never swallowed, and the     *)
(* types, for any number of messages and lost connections.                 *)
(***************************************************************************)
EXTENDS Agent, TLAPS

\* Each command that waits to act came with a message of its own, so their number
\* is bounded, which the types alone would not keep.
PendingBound == \A c \in Commands : pending[c] <= messages

IInv == TypeOK /\ PendingBound /\ NoRestartLost

LEMMA InitInv == Init => IInv
<1> SUFFICES ASSUME Init PROVE IInv
  OBVIOUS
<1> USE DEF Init
<1>1. messages \in 0 .. MaxMessages /\ losses \in 0 .. MaxLosses
  BY BoundsAssumption
<1>2. pending \in [Commands -> 0 .. MaxMessages] /\ PendingBound
  BY BoundsAssumption DEF PendingBound, NoCommands
<1>3. TypeOK
  <2>1. closed \subseteq {"ShutDownChan", "RestartChan"} OBVIOUS
  <2>2. cancelled \in BOOLEAN /\ wanted \in BOOLEAN /\ kept \in BOOLEAN OBVIOUS
  <2>3. QED BY <1>1, <1>2, <2>1, <2>2 DEF TypeOK
<1>4. NoRestartLost BY DEF NoRestartLost
<1>5. QED BY <1>2, <1>3, <1>4 DEF IInv

\* gracefulShutdown, whether or not the pid file can be removed.
LEMMA ShutDownStep ==
  ASSUME IInv, NEW from \in {"shutDown", "shutDownToRestart"}, NEW to \in {"exit", "exec"},
         ShutDown(from, to)
  PROVE  IInv'
<1>1. /\ main = from /\ main' = to /\ process = "running" /\ process' = process
      /\ UNCHANGED <<restarts, cancelled, closed, collectorRestartChan, wanted>>
      /\ UNCHANGED <<client, messages, losses, pending>>
  BY DEF ShutDown, Main, Running
<1>2. pidFile' \in {"none", "dead", "other", "own"} /\ kept' \in BOOLEAN
  BY DEF ShutDown, Removed, IInv, TypeOK
<1>3. /\ collector' \in {"nil", "new", "running", "stopped"}
      /\ conn' \in {"nil", "up", "broken", "closed"}
  BY DEF ShutDown, CloseConn, IInv, TypeOK
<1>4. PendingBound' BY <1>1 DEF IInv, PendingBound
<1>5. NoRestartLost' BY <1>1 DEF IInv, NoRestartLost
<1>6. TypeOK' BY <1>1, <1>2, <1>3 DEF IInv, TypeOK
<1>7. QED BY <1>4, <1>5, <1>6 DEF IInv

\* A configuration that is read forgets the requests before it.
LEMMA ConfigureStep == ASSUME IInv, ConfigureCollector PROVE IInv'
<1>1. /\ main' = "startCollector" /\ process' = process
      /\ UNCHANGED <<restarts, pidFile, kept, cancelled, closed, collectorRestartChan>>
      /\ UNCHANGED <<client, conn, messages, losses, pending>>
  BY DEF ConfigureCollector, Main, clientVars
<1>2. wanted' = FALSE BY DEF ConfigureCollector
<1>3. collector' \in {"nil", "new", "running", "stopped"} /\ wanted' \in BOOLEAN
  BY <1>2 DEF ConfigureCollector, Configured
<1>4. PendingBound' BY <1>1 DEF IInv, PendingBound
<1>5. NoRestartLost' BY <1>2 DEF NoRestartLost
<1>6. TypeOK' BY <1>1, <1>3 DEF IInv, TypeOK
<1>7. QED BY <1>4, <1>5, <1>6 DEF IInv

\* The steps of the main loop keep the invariant: it empties the channel on its
\* way to a configuration that is read later, and forgets the request only there.
LEMMA MainStep == IInv /\ (RunAgent \/ Terminate) => IInv'
<1> SUFFICES ASSUME IInv, RunAgent \/ Terminate PROVE IInv'
  OBVIOUS
<1> USE BoundsAssumption
    DEF IInv, TypeOK, PendingBound, NoRestartLost, Running, End, Main,
        mainVars, clientVars, Configured, Return, Stop
<1>0. CASE StartFails BY <1>0 DEF StartFails
<1>1. CASE WritePid BY <1>1 DEF WritePid
<1>2. CASE CheckSession BY <1>2 DEF CheckSession
<1>3. CASE Start BY <1>3 DEF Start
<1>4. CASE SelectShutDown BY <1>4 DEF SelectShutDown
<1>5. CASE SelectRestart BY <1>5 DEF SelectRestart
<1>6. CASE SelectCollector BY <1>6 DEF SelectCollector
<1>7. CASE StopCollector BY <1>7 DEF StopCollector
<1>8. CASE ConfigureCollector BY <1>8, ConfigureStep
<1>9. CASE StartCollector BY <1>9 DEF StartCollector
<1>10. CASE ShutDown("shutDown", "exit") BY <1>10, ShutDownStep
<1>11. CASE ShutDown("shutDownToRestart", "exec") BY <1>11, ShutDownStep
<1>12. CASE Finish BY <1>12 DEF Finish
<1>13. CASE Exec
  <2>1. pending' \in [Commands -> 0 .. MaxMessages] /\ PendingBound'
    BY <1>13 DEF Exec, NoCommands
  <2>2. process' \in {"running", "exited", "refused", "failed", "gaveUp", "panicked"}
    BY <1>13 DEF Exec
  <2>3. restarts' \in Nat BY <1>13 DEF Exec
  <2>4. UNCHANGED <<pidFile, kept, messages, losses>> BY <1>13 DEF Exec
  <2>5. /\ main' = "start" /\ cancelled' = FALSE /\ wanted' = FALSE
        /\ closed' = {} /\ collectorRestartChan' = 0 /\ collector' = "nil"
        /\ client' = "off" /\ conn' = "nil"
    BY <1>13 DEF Exec
  <2>6. TypeOK'
    <3>1. /\ pidFile' \in {"none", "dead", "other", "own"} /\ kept' \in BOOLEAN
          /\ messages' \in 0 .. MaxMessages /\ losses' \in 0 .. MaxLosses
      BY <2>4
    <3>2. closed' \subseteq {"ShutDownChan", "RestartChan"} BY <2>5
    <3>3. collectorRestartChan' \in 0 .. 1 BY <2>5
    <3>4. /\ main' \in {"start", "session", "services", "select", "stopCollector",
                        "initCollector", "startCollector", "shutDown",
                        "shutDownToRestart", "exit", "exec", "hung"}
          /\ cancelled' \in BOOLEAN /\ wanted' \in BOOLEAN
          /\ collector' \in {"nil", "new", "running", "stopped"}
          /\ client' \in {"off", "connect", "top", "read", "reconnect", "returned"}
          /\ conn' \in {"nil", "up", "broken", "closed"}
      BY <2>5
    <3>5. QED BY <2>1, <2>2, <2>3, <3>1, <3>2, <3>3, <3>4
  <2>7. NoRestartLost' BY <2>5
  <2>8. QED BY <2>1, <2>6, <2>7
<1>14. CASE Terminate BY <1>14 DEF Terminate
<1>15. CASE ShutDownHangs("shutDown") BY <1>15 DEF ShutDownHangs
<1>16. CASE ShutDownHangs("shutDownToRestart") BY <1>16 DEF ShutDownHangs
<1>17. QED
  BY <1>0, <1>1, <1>2, <1>3, <1>4, <1>5, <1>6, <1>7,
     <1>8, <1>9, <1>10, <1>11, <1>12, <1>13, <1>14, <1>15, <1>16
  DEF RunAgent

\* The client touches neither the channel nor the main loop.
LEMMA ClientStep ==
  IInv /\ (RunForever \/ ReceiveCommand \/ ReceiveQuit \/ ReceiveReconnect
             \/ LoseConnection) => IInv'
<1> SUFFICES ASSUME IInv,
                    RunForever \/ ReceiveCommand \/ ReceiveQuit
                      \/ ReceiveReconnect \/ LoseConnection
             PROVE  IInv'
  OBVIOUS
<1> USE BoundsAssumption
    DEF IInv, TypeOK, PendingBound, NoRestartLost, Running, End, Client,
        mainVars, clientVars, CloseConn, CloseChan
<1>1. CASE Connect           BY <1>1 DEF Connect
<1>2. CASE GiveUp            BY <1>2 DEF GiveUp
<1>3. CASE Loop              BY <1>3 DEF Loop
<1>4. CASE ReadFails         BY <1>4 DEF ReadFails, OnError
<1>5. CASE CloseAndReconnect BY <1>5 DEF CloseAndReconnect
<1>6. CASE ReceiveCommand
  <2>1. PICK c \in Commands : pending' = [pending EXCEPT ![c] = @ + 1]
    BY <1>6 DEF ReceiveCommand
  <2>2. messages' = messages + 1 /\ messages' \in 0 .. MaxMessages
    BY <1>6 DEF ReceiveCommand, Receive
  <2>3. /\ pending' \in [Commands -> 0 .. MaxMessages]
        /\ \A d \in Commands : pending'[d] <= messages'
    BY <2>1, <2>2
  <2>4. QED BY <1>6, <2>2, <2>3 DEF ReceiveCommand
<1>7. CASE ReceiveQuit
  <2>1. messages' = messages + 1 /\ messages' \in 0 .. MaxMessages
    BY <1>7 DEF ReceiveQuit, Receive
  <2>2. PendingBound' BY <1>7, <2>1 DEF ReceiveQuit
  <2>3. closed' \subseteq {"ShutDownChan", "RestartChan"}
    BY <1>7 DEF ReceiveQuit
  <2>4. TypeOK' BY <1>7, <2>1, <2>3 DEF ReceiveQuit
  <2>5. QED BY <1>7, <2>2, <2>4 DEF ReceiveQuit
<1>8. CASE ReceiveReconnect  BY <1>8 DEF ReceiveReconnect, Receive
<1>9. CASE LoseConnection    BY <1>9 DEF LoseConnection
<1>10. QED
  BY <1>1, <1>2, <1>3, <1>4, <1>5, <1>6, <1>7, <1>8, <1>9 DEF RunForever

\* A command uses up its place in pending.
LEMMA RunsLess ==
  ASSUME IInv, NEW c \in Commands, Runs(c)
  PROVE  /\ pending' \in [Commands -> 0 .. MaxMessages]
         /\ \A d \in Commands : pending'[d] <= messages
  BY BoundsAssumption DEF IInv, TypeOK, PendingBound, Runs

\* A request fills the channel, whatever was in it.
LEMMA CommandStep == IInv /\ RunCommand => IInv'
<1> SUFFICES ASSUME IInv, RunCommand PROVE IInv'
  OBVIOUS
<1>1. CASE RunQuit
  <2>1. Runs("quit") BY <1>1 DEF RunQuit
  <2>2. /\ pending' \in [Commands -> 0 .. MaxMessages]
        /\ \A d \in Commands : pending'[d] <= messages
    BY <2>1, RunsLess DEF Commands
  <2>3. /\ closed' \subseteq {"ShutDownChan", "RestartChan"}
        /\ process' \in {"running", "panicked"}
    BY <1>1 DEF RunQuit, CloseChan, End, Running, IInv, TypeOK
  <2>4. UNCHANGED <<mainVars, clientVars>> BY <1>1 DEF RunQuit
  <2>5. QED
    BY <2>2, <2>3, <2>4
    DEF IInv, TypeOK, PendingBound, NoRestartLost, mainVars, clientVars
<1>2. CASE RunRestart
  <2>1. Runs("restart") BY <1>2 DEF RunRestart
  <2>2. /\ pending' \in [Commands -> 0 .. MaxMessages]
        /\ \A d \in Commands : pending'[d] <= messages
    BY <2>1, RunsLess DEF Commands
  <2>3. /\ closed' \subseteq {"ShutDownChan", "RestartChan"}
        /\ process' \in {"running", "panicked"}
    BY <1>2 DEF RunRestart, CloseChan, End, Running, IInv, TypeOK
  <2>4. UNCHANGED <<mainVars, clientVars>> BY <1>2 DEF RunRestart
  <2>5. QED
    BY <2>2, <2>3, <2>4
    DEF IInv, TypeOK, PendingBound, NoRestartLost, mainVars, clientVars
<1>3. CASE RunRestartCollector
  <2>1. Runs("restartcoll") BY <1>3 DEF RunRestartCollector
  <2>2. QED
    BY <1>3, <2>1, RunsLess DEF RunRestartCollector, Requested, Commands, IInv,
       TypeOK, PendingBound, NoRestartLost, clientVars
<1>4. QED BY <1>1, <1>2, <1>3 DEF RunCommand

LEMMA NextInv == IInv /\ [Next]_vars => IInv'
<1>1. CASE Next BY <1>1, MainStep, ClientStep, CommandStep DEF Next
<1>2. ASSUME IInv, UNCHANGED vars PROVE IInv'
  BY <1>2 DEF vars, mainVars, clientVars, IInv, TypeOK, PendingBound, NoRestartLost
<1>3. QED BY <1>1, <1>2

LEMMA Invariance == Spec => []IInv
  BY InitInv, NextInv, PTL DEF Spec

\* Every variable has its type, whatever the console sends.
THEOREM AgentTypes == Spec => []TypeOK
<1>1. IInv => TypeOK BY DEF IInv
<1>2. QED BY <1>1, Invariance, PTL

\* RestartCollector may skip a request as a duplicate only if a configuration
\* that is read later serves it, wherever the main loop is.
THEOREM NoRestartLostTheorem == Spec => []NoRestartLost
<1>1. IInv => NoRestartLost BY DEF IInv
<1>2. QED BY <1>1, Invariance, PTL
=============================================================================
