----------------------------- MODULE PtySession -----------------------------
(***************************************************************************)
(* pkg/runner/pty.go: one Websh session.  RunPtyBackground starts a shell  *)
(* on a pty and four goroutines that copy between the pty and a websocket, *)
(* and reconnects the websocket when the reader or the writer of it fails. *)
(*                                                                         *)
(* Connections are numbered in the order they are made, conn is pc.conn.   *)
(* Messages are not told apart: the two data channels are their lengths.   *)
(***************************************************************************)
EXTENDS Integers

CONSTANTS Buffer,     \* bufferSize of the channels wsToPty and ptyToWs
          MaxConns,   \* bound: how many connections the server accepts
          MaxLosses   \* bound: how many connections are broken or closed

ASSUME BoundsAssumption == /\ Buffer \in Nat \ {0}
                           /\ MaxConns \in Nat \ {0}
                           /\ MaxLosses \in Nat

VARIABLES
  at,               \* where each goroutine is
  cancelled,        \* whether ctx is cancelled
  isRecovering,
  recoveryChan,     \* length of the channel (capacity 1)
  recovered,        \* lengths of recoveredWsChan and recoveredPtyChan (1 too)
  conn,             \* pc.conn, 0 for nil
  link,             \* the state of each connection
  losses,           \* how many connections have been lost
  readConn,         \* the connection the reader reads from
  wsToPty, ptyToWs, \* lengths of the data channels
  shell             \* the bash process

recoveryVars == <<isRecovering, recoveryChan, recovered>>
connVars == <<conn, link, losses, readConn>>
dataVars == <<wsToPty, ptyToWs, shell>>
vars == <<at, cancelled, recoveryVars, connVars, dataVars>>

Conns == 1 .. MaxConns

\* The two goroutines that use the websocket (readFromWebsocket and
\* writeToWebsocket), and all of them.
Wsers == {"reader", "writer"}
Goroutines == Wsers \union {"main", "toPty", "fromPty"}

Init ==
  /\ at = [g \in Goroutines |-> IF g = "main" THEN "start" ELSE "off"]
  /\ cancelled = FALSE /\ isRecovering = FALSE
  /\ recoveryChan = 0 /\ recovered = [g \in Wsers |-> 0]
  /\ conn = 0 /\ link = [c \in Conns |-> "none"] /\ losses = 0 /\ readConn = 0
  /\ wsToPty = 0 /\ ptyToWs = 0 /\ shell = "none"

Go(g, from, to) == at[g] = from /\ at' = [at EXCEPT ![g] = to]

\* Faulty variant of Room: one message too many.
RoomOffByOne(n) == n <= Buffer

\* A send on a data channel of that length does not block.
Room(n) == n < Buffer

\* pc.conn becomes a new connection.
Dial == /\ conn < MaxConns
        /\ conn' = conn + 1
        /\ link' = [link EXCEPT ![conn + 1] = "up"]
        /\ UNCHANGED <<losses, readConn>>

-----------------------------------------------------------------------------
(* RunPtyBackground. *)

Start ==
  /\ at["main"] = "start"
  /\ Dial
  /\ shell' = "running"
  /\ at' = [g \in Goroutines |-> IF g = "main" THEN "select" ELSE "top"]
  /\ UNCHANGED <<cancelled, recoveryVars, wsToPty, ptyToWs>>

\* initializePtySession fails: it cannot dial, or it has dialled and finds no
\* such user or cannot start the shell.
StartFails ==
  /\ Go("main", "start", "close")
  /\ Dial \/ UNCHANGED connVars
  /\ UNCHANGED <<cancelled, recoveryVars, dataVars>>

SelectDone ==
  /\ Go("main", "select", "close")
  /\ cancelled
  /\ UNCHANGED <<cancelled, recoveryVars, connVars, dataVars>>

SelectRecovery ==
  /\ Go("main", "select", "recover")
  /\ recoveryChan = 1 /\ recoveryChan' = 0
  /\ UNCHANGED <<cancelled, isRecovering, recovered, connVars, dataVars>>

\* recovery() gets a new URL and dials it; the old connection is not closed.
Reconnect ==
  /\ Go("main", "recover", "recovered")
  /\ Dial
  /\ UNCHANGED <<cancelled, recoveryVars, dataVars>>

\* recovery() gives up after a minute.
ReconnectFails ==
  /\ Go("main", "recover", "gaveUp")
  /\ UNCHANGED <<cancelled, recoveryVars, connVars, dataVars>>

ClearFlag ==
  /\ Go("main", "recovered", "tellReader") \/ Go("main", "gaveUp", "cancel")
  /\ isRecovering' = FALSE
  /\ UNCHANGED <<cancelled, recoveryChan, recovered, connVars, dataVars>>

CancelSession ==
  /\ Go("main", "cancel", "close")
  /\ cancelled' = TRUE
  /\ UNCHANGED <<recoveryVars, connVars, dataVars>>

\* Faulty variant of Token: only the reader is told.
TokenForReader(g) == IF g = "reader" THEN 1 ELSE 0

Token(g) == 1

\* The two sends block while the token of an earlier recovery is still there.
Tell(g, from, to) ==
  /\ Go("main", from, to)
  /\ recovered[g] = 0
  /\ recovered' = [recovered EXCEPT ![g] = Token(g)]
  /\ UNCHANGED <<cancelled, isRecovering, recoveryChan, connVars, dataVars>>

TellBoth == \/ Tell("reader", "tellReader", "tellWriter")
            \/ Tell("writer", "tellWriter", "select")

\* The deferred cancel and close(): the pty is closed and the shell killed, and
\* the connection is closed if a close message can be written to it, which may
\* or may not be so when it is already gone.
Close ==
  /\ Go("main", "close", "done")
  /\ cancelled' = TRUE
  /\ shell' = IF shell = "none" THEN "none" ELSE "exited"
  /\ \E written \in BOOLEAN :
       link' = [c \in Conns |-> IF c = conn /\ (link[c] = "up" \/ written)
                                 THEN "closed" ELSE link[c]]
  /\ UNCHANGED <<recoveryVars, conn, losses, readConn, wsToPty, ptyToWs>>

Main == \/ Start \/ StartFails \/ SelectDone \/ SelectRecovery \/ Reconnect
        \/ ReconnectFails \/ ClearFlag \/ CancelSession \/ TellBoth \/ Close

-----------------------------------------------------------------------------
(* readFromWebsocket *)

ReaderTop ==
  /\ Go("reader", "top", IF cancelled THEN "stopped" ELSE "use")
  /\ readConn' = conn
  /\ UNCHANGED <<cancelled, recoveryVars, conn, link, losses, dataVars>>

\* The user has typed something.
ReadInput ==
  /\ Go("reader", "use", "pass")
  /\ link[readConn] = "up"
  /\ UNCHANGED <<cancelled, recoveryVars, connVars, dataVars>>

\* This send looks at no context.
PassInput ==
  /\ Go("reader", "pass", "top")
  /\ Room(wsToPty) /\ wsToPty' = wsToPty + 1
  /\ UNCHANGED <<cancelled, recoveryVars, connVars, ptyToWs, shell>>

\* The peer's close code ends the session, any other error asks for recovery.
ReadFails ==
  /\ at["reader"] = "use" /\ link[readConn] # "up"
  /\ IF cancelled \/ link[readConn] = "peerClosed"
       THEN Go("reader", "use", "stopped") /\ cancelled' = TRUE
       ELSE Go("reader", "use", "claim") /\ UNCHANGED cancelled
  /\ UNCHANGED <<recoveryVars, connVars, dataVars>>

-----------------------------------------------------------------------------
(* writeToWebsocket *)

WriterStops ==
  /\ Go("writer", "top", "stopped")
  /\ cancelled
  /\ UNCHANGED <<cancelled, recoveryVars, connVars, dataVars>>

WriterTakes ==
  /\ Go("writer", "top", "use")
  /\ ptyToWs > 0 /\ ptyToWs' = ptyToWs - 1
  /\ UNCHANGED <<cancelled, recoveryVars, connVars, wsToPty, shell>>

\* A write to a connection that is gone may still be taken by the kernel.
WriteWorks ==
  /\ Go("writer", "use", "top")
  /\ link[conn] # "closed"
  /\ UNCHANGED <<cancelled, recoveryVars, connVars, dataVars>>

\* The message is lost.  What a write returns is never a close error (after the
\* peer's close message it is ErrCloseSent), so it goes on to recover.
WriteFails ==
  /\ Go("writer", "use", IF cancelled THEN "stopped" ELSE "claim")
  /\ link[conn] # "up"
  /\ UNCHANGED <<cancelled, recoveryVars, connVars, dataVars>>

-----------------------------------------------------------------------------
(* How both of them ask for a recovery and wait for it. *)

\* Faulty variant of Claimed: the flag is not looked at.
ClaimedAnyway == "notify"

Claimed == IF isRecovering THEN "await" ELSE "notify"

\* isRecovering.CompareAndSwap(false, true): who wins notifies the main loop.
Claim(g) ==
  /\ Go(g, "claim", Claimed)
  /\ isRecovering' = TRUE
  /\ UNCHANGED <<cancelled, recoveryChan, recovered, connVars, dataVars>>

Notify(g) ==
  /\ Go(g, "notify", "await")
  /\ recoveryChan = 0 /\ recoveryChan' = 1
  /\ UNCHANGED <<cancelled, isRecovering, recovered, connVars, dataVars>>

Resume(g) ==
  /\ \/ /\ Go(g, "await", "top")
        /\ recovered[g] = 1 /\ recovered' = [recovered EXCEPT ![g] = 0]
     \/ Go(g, "await", "stopped") /\ cancelled /\ UNCHANGED recovered
  /\ UNCHANGED <<cancelled, isRecovering, recoveryChan, connVars, dataVars>>

Recovers(g) == Claim(g) \/ Notify(g) \/ Resume(g)
Reader == ReaderTop \/ PassInput \/ ReadFails \/ Recovers("reader")
Writer == \/ WriterStops \/ WriterTakes \/ WriteWorks \/ WriteFails
          \/ Recovers("writer")

-----------------------------------------------------------------------------
(* writeToPty and readFromPty *)

ToPtyStops ==
  /\ Go("toPty", "top", "stopped")
  /\ cancelled
  /\ UNCHANGED <<cancelled, recoveryVars, connVars, dataVars>>

\* The pty takes what was typed, or fails once the shell is gone.
WriteToPty ==
  /\ wsToPty > 0 /\ wsToPty' = wsToPty - 1
  /\ IF shell = "running"
       THEN Go("toPty", "top", "top") /\ UNCHANGED cancelled
       ELSE Go("toPty", "top", "stopped") /\ cancelled' = TRUE
  /\ UNCHANGED <<recoveryVars, connVars, ptyToWs, shell>>

FromPtyTop ==
  /\ Go("fromPty", "top", IF cancelled THEN "stopped" ELSE "use")
  /\ UNCHANGED <<cancelled, recoveryVars, connVars, dataVars>>

\* The shell has printed something.
ReadOutput ==
  /\ Go("fromPty", "use", "pass")
  /\ shell = "running"
  /\ UNCHANGED <<cancelled, recoveryVars, connVars, dataVars>>

PassOutput ==
  /\ Go("fromPty", "pass", "top")
  /\ Room(ptyToWs) /\ ptyToWs' = ptyToWs + 1
  /\ UNCHANGED <<cancelled, recoveryVars, connVars, wsToPty, shell>>

ReadFromPtyFails ==
  /\ Go("fromPty", "use", "stopped")
  /\ shell = "exited"
  /\ cancelled' = TRUE
  /\ UNCHANGED <<recoveryVars, connVars, dataVars>>

ToPty == ToPtyStops \/ WriteToPty
FromPty == FromPtyTop \/ PassOutput \/ ReadFromPtyFails

-----------------------------------------------------------------------------
(* The network, the peer and the shell. *)

\* The network breaks a connection, or the peer closes it with a normal code.
Lose(c) ==
  /\ link[c] = "up" /\ losses < MaxLosses
  /\ \E s \in {"broken", "peerClosed"} : link' = [link EXCEPT ![c] = s]
  /\ losses' = losses + 1
  /\ UNCHANGED <<at, cancelled, recoveryVars, conn, readConn, dataVars>>

ShellExits ==
  /\ shell = "running" /\ shell' = "exited"
  /\ UNCHANGED <<at, cancelled, recoveryVars, connVars, wsToPty, ptyToWs>>

Environment == ReadInput \/ ReadOutput \/ ShellExits \/ \E c \in Conns : Lose(c)

Next == Main \/ Reader \/ Writer \/ ToPty \/ FromPty \/ Environment

Spec == Init /\ [][Next]_vars

\* Every goroutine that can go on does; a connection that is gone makes a pending
\* read fail (TCP keepalive), and recovery ends within its minute.
LiveSpec == Spec /\ WF_vars(Main) /\ WF_vars(Reader) /\ WF_vars(Writer)
                 /\ WF_vars(ToPty) /\ WF_vars(FromPty)

-----------------------------------------------------------------------------
(* Properties. *)

\* Every variable has its type; the channels hold at most what they can.
TypeOK ==
  /\ at \in [Goroutines ->
       {"start", "select", "recover", "recovered", "gaveUp", "cancel",
        "tellReader", "tellWriter", "close", "done", "off", "top", "use", "pass",
        "claim", "notify", "await", "stopped"}]
  /\ cancelled \in BOOLEAN /\ isRecovering \in BOOLEAN
  /\ recoveryChan \in 0 .. 1 /\ recovered \in [Wsers -> 0 .. 1]
  /\ conn \in 0 .. MaxConns /\ readConn \in 0 .. MaxConns
  /\ link \in [Conns -> {"none", "up", "broken", "peerClosed", "closed"}]
  /\ losses \in 0 .. MaxLosses
  /\ wsToPty \in 0 .. Buffer /\ ptyToWs \in 0 .. Buffer
  /\ shell \in {"none", "running", "exited"}

\* While the flag is set exactly one recovery is under way: claimed by the reader
\* or the writer, announced to the main loop, or being carried out; otherwise
\* none is.  So two failures noticed together start one recovery, and the send
\* on recoveryChan, which looks at no context, never blocks.
OneRecovery ==
  LET carriedOut == at["main"] \in {"recover", "recovered", "gaveUp"}
  IN  /\ isRecovering <=> \/ \E g \in Wsers : at[g] = "notify"
                          \/ recoveryChan = 1
                          \/ carriedOut
      /\ recoveryChan = 1 => ~carriedOut
      /\ \A g \in Wsers : at[g] = "notify" =>
           /\ recoveryChan = 0 /\ ~carriedOut
           /\ \A h \in Wsers : at[h] = "notify" => h = g

\* A reader or writer that waits for a new connection gets one, or stops with
\* the session ("recovery reconnects the WebSocket while keeping the PTY session
\* alive").
RecoveryAnswered == \A g \in Wsers : at[g] = "await" ~> at[g] # "await"
=============================================================================
