-------------------------- MODULE PtySessionProofs --------------------------
(***************************************************************************)
(* Proofs about PtySession, for any buffers and any number of connections  *)
(* and losses: the types, and that reader and writer never have more than  *)
(* one recovery under way between them.                                    *)
(***************************************************************************)
EXTENDS PtySession, TLAPS

\* Nobody is there before RunPtyBackground has set the session up.
BeforeStart ==
  at["main"] = "start" =>
    ~isRecovering /\ \A g \in Goroutines \ {"main"} : at[g] = "off"

IInv == TypeOK /\ OneRecovery /\ BeforeStart

LEMMA InitInv == Init => IInv
<1> SUFFICES ASSUME Init PROVE IInv
  OBVIOUS
<1>1. \A g \in Goroutines : at[g] = IF g = "main" THEN "start" ELSE "off"
  BY DEF Init
<1>2. OneRecovery /\ BeforeStart
  BY <1>1 DEF Init, OneRecovery, BeforeStart, Goroutines, Wsers
<1>3. TypeOK
  <2>1. at \in [Goroutines -> {"start", "off"}]
    BY DEF Init
  <2>2. link \in [Conns -> {"none"}] /\ recovered \in [Wsers -> {0}]
    BY DEF Init
  <2>3. /\ conn \in 0 .. MaxConns /\ readConn \in 0 .. MaxConns
        /\ losses \in 0 .. MaxLosses /\ recoveryChan \in 0 .. 1
        /\ wsToPty \in 0 .. Buffer /\ ptyToWs \in 0 .. Buffer
    BY BoundsAssumption DEF Init
  <2>4. cancelled \in BOOLEAN /\ isRecovering \in BOOLEAN /\ shell = "none"
    BY DEF Init
  <2>5. QED BY <2>1, <2>2, <2>3, <2>4 DEF TypeOK
<1>4. QED BY <1>2, <1>3 DEF IInv

\* Reconnecting keeps the types of the connections.
LEMMA DialTypes ==
  ASSUME TypeOK, Dial
  PROVE  /\ conn' \in 0 .. MaxConns
         /\ link' \in [Conns -> {"none", "up", "broken", "peerClosed", "closed"}]
         /\ losses' \in 0 .. MaxLosses /\ readConn' \in 0 .. MaxConns
  BY BoundsAssumption DEF TypeOK, Dial, Conns

\* The main loop takes up the one recovery that was announced and clears the
\* flag when it has carried it out.
LEMMA MainStep == IInv /\ Main => IInv'
<1> SUFFICES ASSUME IInv, Main PROVE IInv'
  OBVIOUS
<1> USE BoundsAssumption
    DEF IInv, TypeOK, OneRecovery, BeforeStart, Goroutines, Wsers, Go,
        recoveryVars, connVars, dataVars
<1>1. CASE Start
  <2>1. /\ \A g \in Wsers : at'[g] = "top"
        /\ at'["main"] = "select"
        /\ ~isRecovering /\ recoveryChan = 0
    BY <1>1 DEF Start
  <2>2. OneRecovery' /\ BeforeStart' BY <1>1, <2>1 DEF Start
  <2>3. TypeOK' BY <1>1, DialTypes DEF Start
  <2>4. QED BY <2>2, <2>3
<1>2. CASE StartFails
  <2>1. OneRecovery' /\ BeforeStart' BY <1>2 DEF StartFails
  <2>2. TypeOK' BY <1>2, DialTypes DEF StartFails
  <2>3. QED BY <2>1, <2>2
<1>3. CASE SelectDone     BY <1>3 DEF SelectDone
<1>4. CASE SelectRecovery BY <1>4 DEF SelectRecovery
<1>5. CASE Reconnect
  <2>1. OneRecovery' /\ BeforeStart' BY <1>5 DEF Reconnect
  <2>2. TypeOK' BY <1>5, DialTypes DEF Reconnect
  <2>3. QED BY <2>1, <2>2
<1>6. CASE ReconnectFails BY <1>6 DEF ReconnectFails
<1>7. CASE ClearFlag      BY <1>7, ZenonT(30) DEF ClearFlag
<1>8. CASE CancelSession  BY <1>8 DEF CancelSession
<1>9. CASE TellBoth       BY <1>9 DEF TellBoth, Tell, Token
<1>10. CASE Close
  <2>1. OneRecovery' /\ BeforeStart' BY <1>10 DEF Close
  <2>2. link' \in [Conns -> {"none", "up", "broken", "peerClosed", "closed"}]
    BY <1>10 DEF Close
  <2>3. TypeOK' BY <1>10, <2>2 DEF Close
  <2>4. QED BY <2>1, <2>3
<1>11. QED
  BY <1>1, <1>2, <1>3, <1>4, <1>5, <1>6, <1>7, <1>8, <1>9, <1>10 DEF Main

\* Of the two only the one that sets the flag notifies the main loop.
LEMMA RecoversStep ==
  ASSUME IInv, NEW g \in Wsers, Recovers(g) PROVE IInv'
<1> USE DEF IInv, TypeOK, OneRecovery, BeforeStart, Goroutines, Wsers, Go,
            recoveryVars, connVars, dataVars
<1>1. CASE Claim(g)  BY <1>1 DEF Claim, Claimed
<1>2. CASE Notify(g) BY <1>2 DEF Notify
<1>3. CASE Resume(g) BY <1>3 DEF Resume
<1>4. QED BY <1>1, <1>2, <1>3 DEF Recovers

LEMMA ReaderStep == IInv /\ (Reader \/ ReadInput) => IInv'
<1> SUFFICES ASSUME IInv, Reader \/ ReadInput PROVE IInv'
  OBVIOUS
<1> USE DEF IInv, TypeOK, OneRecovery, BeforeStart, Goroutines, Wsers, Go,
            recoveryVars, connVars, dataVars
<1>1. CASE ReaderTop BY <1>1 DEF ReaderTop
<1>2. CASE PassInput BY <1>2, BoundsAssumption DEF PassInput, Room
<1>3. CASE ReadFails BY <1>3, ZenonT(30) DEF ReadFails
<1>4. CASE Recovers("reader") BY <1>4, RecoversStep
<1>5. CASE ReadInput BY <1>5 DEF ReadInput
<1>6. QED BY <1>1, <1>2, <1>3, <1>4, <1>5 DEF Reader

LEMMA WriterStep == IInv /\ Writer => IInv'
<1> SUFFICES ASSUME IInv, Writer PROVE IInv'
  OBVIOUS
<1> USE DEF IInv, TypeOK, OneRecovery, BeforeStart, Goroutines, Wsers, Go,
            recoveryVars, connVars, dataVars
<1>1. CASE WriterStops BY <1>1 DEF WriterStops
<1>2. CASE WriterTakes BY <1>2, BoundsAssumption DEF WriterTakes
<1>3. CASE WriteWorks BY <1>3 DEF WriteWorks
<1>4. CASE WriteFails BY <1>4 DEF WriteFails
<1>5. CASE Recovers("writer") BY <1>5, RecoversStep
<1>6. QED BY <1>1, <1>2, <1>3, <1>4, <1>5 DEF Writer

\* The pty side, the network and the shell have no part in recoveries.
LEMMA OtherStep ==
  IInv /\ (ToPty \/ FromPty \/ ReadOutput \/ ShellExits
             \/ \E c \in Conns : Lose(c)) => IInv'
<1> SUFFICES ASSUME IInv, ToPty \/ FromPty \/ ReadOutput \/ ShellExits
                            \/ \E c \in Conns : Lose(c)
             PROVE  IInv'
  OBVIOUS
<1> USE DEF IInv, TypeOK, OneRecovery, BeforeStart, Goroutines, Wsers, Go,
            recoveryVars, connVars, dataVars
<1>1. CASE ToPtyStops BY <1>1 DEF ToPtyStops
<1>2. CASE WriteToPty
  <2>1. wsToPty' \in 0 .. Buffer BY <1>2, BoundsAssumption DEF WriteToPty
  <2>2. PICK to \in {"top", "stopped"} : at' = [at EXCEPT !["toPty"] = to]
    BY <1>2 DEF WriteToPty
  <2>3. cancelled' \in BOOLEAN /\ UNCHANGED <<recoveryVars, connVars, ptyToWs, shell>>
    BY <1>2 DEF WriteToPty
  <2>4. TypeOK' BY <2>1, <2>2, <2>3
  <2>5. OneRecovery' BY <2>2, <2>3
  <2>6. BeforeStart' BY <1>2, <2>2, <2>3 DEF WriteToPty
  <2>7. QED BY <2>4, <2>5, <2>6
<1>3. CASE FromPtyTop BY <1>3 DEF FromPtyTop
<1>4. CASE ReadOutput BY <1>4 DEF ReadOutput
<1>5. CASE PassOutput BY <1>5, BoundsAssumption DEF PassOutput, Room
<1>6. CASE ReadFromPtyFails BY <1>6 DEF ReadFromPtyFails
<1>7. CASE ShellExits BY <1>7 DEF ShellExits
<1>8. ASSUME NEW c \in Conns, Lose(c) PROVE IInv'
  BY <1>8, BoundsAssumption DEF Lose
<1>9. QED
  BY <1>1, <1>2, <1>3, <1>4, <1>5, <1>6, <1>7, <1>8 DEF ToPty, FromPty

LEMMA NextInv == IInv /\ [Next]_vars => IInv'
<1>1. CASE Next
  BY <1>1, MainStep, ReaderStep, WriterStep, OtherStep DEF Next, Environment
<1>2. ASSUME IInv, UNCHANGED vars PROVE IInv'
  BY <1>2 DEF vars, recoveryVars, connVars, dataVars, IInv, TypeOK, OneRecovery,
     BeforeStart
<1>3. QED BY <1>1, <1>2

LEMMA Invariance == Spec => []IInv
  BY InitInv, NextInv, PTL DEF Spec

\* Every variable has its type: no send finds more in a channel than it can
\* hold.
THEOREM PtyTypes == Spec => []TypeOK
<1>1. IInv => TypeOK BY DEF IInv
<1>2. QED BY <1>1, Invariance, PTL

\* However often connections are lost, two failures noticed together start one
\* recovery, and the notification of it never blocks.
THEOREM OneRecoveryTheorem == Spec => []OneRecovery
<1>1. IInv => OneRecovery BY DEF IInv
<1>2. QED BY <1>1, Invariance, PTL
=============================================================================
