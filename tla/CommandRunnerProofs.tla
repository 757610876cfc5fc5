------------------------- MODULE CommandRunnerProofs -------------------------
(***************************************************************************)
(* For any commands, sessions and files: the types, what can end the agent, *)
(* that transfers leave nothing behind, touch no file they may not and      *)
(* report what failed, and that a command line means what it does to a      *)
(* shell.  Each part has an invariant of its own, which needs the types but *)
(* not the other parts.                                                     *)
(***************************************************************************)
EXTENDS CommandRunner, WellFoundedInduction, FiniteSetTheorems, TLAPS

\* args is empty exactly after an operator, a word that ends in ";", or nothing.
ArgsKnownOf(c) ==
  req[c].op = "shell" =>
    /\ pc[c] \in {"new", "start"} => cursor[c] = [i |-> 0, args |-> FALSE]
    /\ pc[c] = "shell" =>
         /\ cursor[c].i <= Len(Line(c))
         /\ cursor[c].args <=> cursor[c].i > 0 /\ Line(c)[cursor[c].i] = "w"

ArgsKnown == \A c \in Commands : ArgsKnownOf(c)

\* The registry has sessions that are open or on their way out; one that was
\* found in it is there or over; one that is to be opened is not yet there.
Registry ==
  /\ writing = {s \in Sessions : session[s] \in {"registering", "deleting"}}
  /\ \A s \in terminals : session[s] \in {"open", "closing", "deleting"}
  /\ \A c \in Commands :
       /\ req[c].op = "openpty" /\ pc[c] \in {"new", "start"} =>
            session[req[c].session] = "none"
       /\ req[c].op = "resizepty" /\ pc[c] = "use" =>
            req[c].session \in terminals \/ session[req[c].session] = "over"

\* A path that is about to be written was free or may be overwritten; nobody has
\* made it a file of the user since.
Permitted ==
  \A c \in Commands :
    req[c].op = "download" /\ pc[c] = "tee" =>
      File(c).overwrite \/ files[File(c).path] # "user"

\* Only archives are removed.
RemovesArchives ==
  \A c \in Commands : req[c].op = "upload" /\ pc[c] = "remove" => Archives(c)

\* The report of file n, once it is made, says whether it arrived.
Truthful(c, n) == ~req[c].files[n].unzip => stats[c][n] = IF n \in done[c] THEN 0 ELSE 1

Refusal(c) == stats[c] = <<>> /\ done[c] = {} /\ code[c] = 1

\* There is a report of each file before the one in hand.
ReportsOf(c) ==
  req[c].op = "download" =>
    /\ pc[c] \in {"new", "start"} => stats[c] = <<>> /\ done[c] = {} /\ k[c] = 1
    /\ pc[c] \in {"get", "tee", "stat"} =>
         /\ Len(stats[c]) = k[c] - 1 /\ done[c] \subseteq 1 .. k[c]
         /\ \A n \in 1 .. k[c] - 1 : Truthful(c, n)
         /\ pc[c] # "stat" => k[c] \notin done[c]
         /\ pc[c] = "stat" /\ ~File(c).unzip => code[c] = IF k[c] \in done[c] THEN 0 ELSE 1
    /\ pc[c] \in {"fin", "done"} =>
         \/ Refusal(c)
         \/ /\ Len(stats[c]) = Len(req[c].files)
            /\ \A n \in DOMAIN req[c].files : Truthful(c, n)

Reports == \A c \in Commands : ReportsOf(c)

\* There is one answer, when the command is over, and it has the command's code.
AnsweredOf(c) == fin[c] = IF pc[c] = "done" THEN Answer(c) ELSE <<>>

Answered == \A c \in Commands : AnsweredOf(c)

IInv == TypeOK /\ req \in Workloads

-----------------------------------------------------------------------------
\* What the console asks stays what it asked; the assumption on it, applied.
LEMMA Asked ==
  ASSUME req \in Workloads, NEW c \in Commands
  PROVE  /\ req[c].op = "shell" => Len(req[c].line) \in Nat
         /\ req[c].op = "download" =>
              /\ req[c].files \in Seq(Targets) /\ Len(req[c].files) \in Nat \ {0}
              /\ DOMAIN req[c].files = 1 .. Len(req[c].files)
              /\ \A n \in 1 .. Len(req[c].files) :
                   req[c].files[n].path \in Paths /\ req[c].files[n].member \in Paths
         /\ req[c].op = "upload" => req[c].path \in Paths
         /\ req[c].op \in {"openpty", "resizepty"} => req[c].session \in Sessions
         /\ req[c].op \in {"shell", "download", "upload", "openpty", "resizepty",
                           "other"}
<1> USE DEF IsRequest
<1>1. CASE req[c].op = "download"
  <2>1. req[c].files \in Seq(Targets) /\ req[c].files # <<>>
    BY <1>1, WorkloadsAssumption
  <2>2. Len(req[c].files) \in Nat \ {0} /\ DOMAIN req[c].files = 1 .. Len(req[c].files)
    BY <2>1
  <2>3. \A n \in 1 .. Len(req[c].files) : req[c].files[n] \in Targets
    BY <2>1, <2>2
  <2>4. QED BY <1>1, <2>1, <2>2, <2>3 DEF Targets
<1>2. CASE req[c].op # "download"
  <2>1. req[c].op = "shell" => req[c].line \in Seq(Tokens)
    BY WorkloadsAssumption
  <2>2. req[c].op = "shell" => Len(req[c].line) \in Nat BY <2>1
  <2>3. QED BY <1>2, <2>2, WorkloadsAssumption
<1>3. QED BY <1>1, <1>2

LEMMA InitTypes == Init => IInv
<1> SUFFICES ASSUME Init PROVE IInv
  OBVIOUS
<1> USE DEF Init
<1>1. \A c \in Commands : k[c] \in 1 .. IF req[c].op = "download" THEN Len(req[c].files)
                                       ELSE 1
  <2> TAKE c \in Commands
  <2>1. req[c].op = "download" => Len(req[c].files) \in Nat \ {0}
    BY Asked
  <2>2. k[c] = 1 OBVIOUS
  <2>3. QED BY <2>1, <2>2
<1>2. \A c \in Commands : IsRequest(req[c]) BY WorkloadsAssumption
<1>3. QED BY <1>1, <1>2 DEF IInv, TypeOK

\* The variables of the other parts keep their types when they do not change.
LEMMA CommonTypes ==
  ASSUME IInv, NEW c \in Commands,
         Receive(c) \/ Start(c) \/ StartPanics(c) \/ StartFails(c) \/ Fin(c)
  PROVE  IInv'
<1> USE DEF IInv, TypeOK, runVars, postVars, fileVars, ptyVars, Go, Finish, Panic
<1>1. CASE Receive(c) BY <1>1 DEF Receive
<1>2. CASE Start(c) BY <1>2, Asked DEF Start, Enters
<1>3. CASE StartPanics(c) BY <1>3 DEF StartPanics
<1>4. CASE StartFails(c) BY <1>4 DEF StartFails
<1>5. CASE Fin(c)
  <2>1. fin[c] \in Seq({0, 1}) /\ Answer(c) \in Seq({0, 1})
    <3>1. code[c] \in {0, 1} /\ fin[c] \in Seq({0, 1}) OBVIOUS
    <3>2. <<code[c]>> \in Seq({0, 1}) /\ <<>> \in Seq({0, 1}) BY <3>1
    <3>3. QED BY <3>1, <3>2 DEF Answer
  <2>2. fin[c] \o Answer(c) \in Seq({0, 1}) BY <2>1
  <2>3. fin' \in [Commands -> Seq({0, 1})] BY <1>5, <2>2 DEF Fin
  <2>4. QED BY <1>5, <2>3 DEF Fin
<1>6. QED BY <1>1, <1>2, <1>3, <1>4, <1>5

LEMMA RanGrows ==
  ASSUME ran \in [Commands -> Seq(Nat)], NEW c \in Commands, NEW n \in Nat
  PROVE  [ran EXCEPT ![c] = Append(@, n)] \in [Commands -> Seq(Nat)]
<1>1. Append(ran[c], n) \in Seq(Nat) OBVIOUS
<1>2. QED BY <1>1

LEMMA ShellTypes == ASSUME IInv, NEW c \in Commands, Shell(c) PROVE IInv'
<1> USE DEF IInv, TypeOK, runVars, postVars, fileVars, ptyVars, Go, Finish, Panic, Read
<1>1. CASE Word(c) BY <1>1, SMTT(30) DEF Word
<1>2. CASE RunSimple(c)
  <2>1. PICK n \in Nat : ran' = [ran EXCEPT ![c] = Append(@, n)]
    <3> DEFINE n == IF Token(c) = "w;" THEN cursor[c].i + 1 ELSE cursor[c].i
    <3>1. n \in Nat
      <4>1. cursor[c].i \in Nat OBVIOUS
      <4>2. cursor[c].i + 1 \in Nat BY <4>1
      <4>3. QED BY <4>1, <4>2
    <3>2. ran' = [ran EXCEPT ![c] = Append(@, n)] BY <1>2 DEF RunSimple
    <3>3. QED BY <3>1, <3>2
  <2>2. ran' \in [Commands -> Seq(Nat)] BY <2>1, RanGrows
  <2>3. code' \in [Commands -> {0, 1}] BY <1>2 DEF RunSimple, Fate
  <2>4. cursor' \in [Commands -> [i : Nat, args : BOOLEAN]]
    <3>1. cursor[c].i + 1 \in Nat OBVIOUS
    <3>2. cursor' = [cursor EXCEPT ![c] = [i |-> cursor[c].i + 1, args |-> FALSE]]
      BY <1>2 DEF RunSimple
    <3>3. QED BY <3>1, <3>2
  <2>5. QED BY <1>2, <2>2, <2>3, <2>4 DEF RunSimple
<1>3. CASE RunNothing(c) BY <1>3 DEF RunNothing
<1>4. CASE RunLast(c)
  <2>1. cursor[c].i \in Nat OBVIOUS
  <2>2. ran' \in [Commands -> Seq(Nat)]
    <3>1. [ran EXCEPT ![c] = Append(@, cursor[c].i)] \in [Commands -> Seq(Nat)]
      BY <2>1, RanGrows
    <3>2. QED BY <1>4, <3>1 DEF RunLast
  <2>3. code' \in [Commands -> {0, 1}] BY <1>4 DEF RunLast, Fate
  <2>4. QED BY <1>4, <2>2, <2>3 DEF RunLast
<1>5. QED BY <1>1, <1>2, <1>3, <1>4 DEF Shell

\* What a transfer changes has its type.
LEMMA OneMore ==
  ASSUME done \in [Commands -> SUBSET Nat], NEW c \in Commands, k[c] \in Nat,
         Transferred(c)
  PROVE  done' \in [Commands -> SUBSET Nat]
BY DEF Transferred

LEMMA StatTypes ==
  ASSUME IInv, NEW c \in Commands, Stat(c), req[c].op \in {"download", "upload"}
  PROVE  IInv'
<1> USE DEF IInv, TypeOK, runVars, ptyVars, Go
<1>1. stats[c] \o Report(c) \in Seq({0, 1})
  <2>1. stats[c] \in Seq({0, 1}) /\ Report(c) \in Seq({0, 1}) BY DEF Report
  <2>2. QED BY <2>1
<1>2. stats' \in [Commands -> Seq({0, 1})] BY <1>1 DEF Stat
<1>3. IsLast(c) \/ (req[c].op = "download" /\ k[c] + 1 \in 1 .. Len(req[c].files))
  <2>1. req[c].op = "download" => Len(req[c].files) \in Nat BY Asked
  <2>2. req[c].op = "download" => k[c] \in 1 .. Len(req[c].files) OBVIOUS
  <2>3. QED BY <2>1, <2>2 DEF IsLast
<1>4. /\ k' \in [Commands -> Nat]
      /\ \A d \in Commands : k'[d] \in 1 .. IF req[d].op = "download"
                                              THEN Len(req[d].files) ELSE 1
  BY <1>3, SMTT(30) DEF Stat
<1>5. QED BY <1>2, <1>4 DEF Stat

LEMMA DownloadTypes == ASSUME IInv, NEW c \in Commands, Download(c) PROVE IInv'
<1> USE DEF IInv, TypeOK, runVars, postVars, fileVars, ptyVars, Go, Outcome
<1>1. CASE GetData(c) BY <1>1 DEF GetData
<1>2. CASE GetDataFails(c) BY <1>2 DEF GetDataFails
<1>3. CASE Tee(c) BY <1>3, OneMore DEF Tee
<1>4. CASE TeeFails(c)
  <2>1. files' \in [Paths \union Commands -> {None, "user", "archive", "partial"} \union Commands]
    <3>1. [files EXCEPT ![File(c).path] = c] \in
            [Paths \union Commands -> {None, "user", "archive", "partial"} \union Commands]
      OBVIOUS
    <3>2. QED BY <1>4, <3>1 DEF TeeFails
  <2>2. QED BY <1>4, <2>1 DEF TeeFails
<1>5. CASE TeeUnzip(c)
  <2>1. done' \in [Commands -> SUBSET Nat] BY <1>5, OneMore DEF TeeUnzip
  <2>2. files' \in [Paths \union Commands -> {None, "user", "archive", "partial"} \union Commands]
    <3>1. PICK written, unpacked \in BOOLEAN, removed \in {0, 1} :
            files' = [files EXCEPT
                        ![File(c).member] = IF unpacked /\ @ = None THEN c ELSE @,
                        ![File(c).path] = IF removed = 0 THEN None
                                          ELSE IF written THEN c ELSE @]
      BY <1>5 DEF TeeUnzip
    <3>2. QED BY <3>1
  <2>3. code' \in [Commands -> {0, 1}] BY <1>5 DEF TeeUnzip
  <2>4. pc' \in [Commands -> {"new", "start", "shell", "get", "tee", "stat", "zip", "cat",
                             "send", "remove", "check", "use", "fin", "done"}]
    BY <1>5 DEF TeeUnzip
  <2>5. UNCHANGED <<req, alive, cursor, ran, k, postVars, ptyVars>> BY <1>5 DEF TeeUnzip
  <2>6. QED BY <2>1, <2>2, <2>3, <2>4, <2>5
<1>6. CASE Stat(c) BY <1>6, StatTypes DEF Download
<1>7. QED BY <1>1, <1>2, <1>3, <1>4, <1>5, <1>6 DEF Download

LEMMA UploadTypes == ASSUME IInv, NEW c \in Commands, UploadStep(c) PROVE IInv'
<1> USE DEF IInv, TypeOK, runVars, postVars, fileVars, ptyVars, Go, Outcome
<1>1. CASE MakeArchive(c) BY <1>1 DEF MakeArchive
<1>2. CASE MakeArchiveFails(c) BY <1>2 DEF MakeArchiveFails, Archives
<1>3. CASE Cat(c) BY <1>3 DEF Cat
<1>4. CASE UploadFails(c) BY <1>4 DEF UploadFails, AfterFailure
<1>5. CASE Upload(c) BY <1>5, OneMore DEF Upload
<1>6. CASE RemoveArchive(c) BY <1>6 DEF RemoveArchive
<1>7. CASE Stat(c) BY <1>7, StatTypes DEF UploadStep
<1>8. QED BY <1>1, <1>2, <1>3, <1>4, <1>5, <1>6, <1>7 DEF UploadStep

LEMMA TerminalTypes ==
  ASSUME IInv
  PROVE  /\ \A c \in Commands : ResizePty(c) => IInv'
         /\ \A s \in Sessions : Pty(s) => IInv'
<1> USE DEF IInv, TypeOK, runVars, postVars, fileVars, ptyVars, Go, Finish, Panic, Session
<1>1. ASSUME NEW c \in Commands, ResizePty(c) PROVE IInv'
  BY <1>1 DEF ResizePty, Check, Resize, ResizeNil, ReadCollides
<1>2. ASSUME NEW s \in Sessions, Pty(s) PROVE IInv'
  BY <1>2 DEF Pty, Change, Register, Unregister, Collide
<1>3. QED BY <1>1, <1>2

LEMMA NextTypes == IInv /\ [Next]_vars => IInv'
<1> SUFFICES ASSUME IInv, [Next]_vars PROVE IInv'
  OBVIOUS
<1>1. ASSUME NEW c \in Commands, Step(c) PROVE IInv'
  BY <1>1, CommonTypes, ShellTypes, DownloadTypes, UploadTypes, TerminalTypes DEF Step
<1>2. CASE UNCHANGED vars
  BY <1>2 DEF vars, runVars, postVars, fileVars, ptyVars, IInv, TypeOK
<1>3. QED BY <1>1, <1>2, TerminalTypes DEF Next

-----------------------------------------------------------------------------
(* A command leaves the others alone, and sessions leave commands alone.    *)

Mine(c) == <<pc[c], code[c], cursor[c], k[c], fin[c], stats[c], done[c]>>

LEMMA Frame ==
  ASSUME IInv, NEW c \in Commands, Step(c), NEW d \in Commands, c # d
  PROVE  Mine(d)' = Mine(d)
<1> USE DEF IInv, TypeOK, Mine, runVars, postVars, fileVars, Go, Finish, Panic, Outcome,
            Read, Transferred
<1>1. CASE Receive(c) \/ Start(c) \/ StartPanics(c) \/ StartFails(c) \/ Fin(c)
  BY <1>1 DEF Receive, Start, StartPanics, StartFails, Fin
<1>2. CASE Shell(c)
  BY <1>2 DEF Shell, Word, RunSimple, RunNothing, RunLast
<1>3. CASE Stat(c) BY <1>3 DEF Stat
<1>4. CASE GetData(c) \/ GetDataFails(c) \/ Tee(c) \/ TeeFails(c)
  BY <1>4 DEF GetData, GetDataFails, Tee, TeeFails
<1>5. CASE TeeUnzip(c)
  <2>1. Outcome(c, "tee", code'[c]) /\ (Transferred(c) \/ UNCHANGED done)
        /\ UNCHANGED <<cursor, k, fin, stats>>
    BY <1>5 DEF TeeUnzip
  <2>2. QED BY <2>1
<1>6. CASE MakeArchive(c) \/ MakeArchiveFails(c) \/ Cat(c) \/ UploadFails(c) \/ Upload(c)
             \/ RemoveArchive(c)
  BY <1>6 DEF MakeArchive, MakeArchiveFails, Cat, UploadFails, Upload, RemoveArchive
<1>7. CASE ResizePty(c)
  BY <1>7 DEF ResizePty, Check, Resize, ResizeNil, ReadCollides
<1>8. QED BY <1>1, <1>2, <1>3, <1>4, <1>5, <1>6, <1>7 DEF Step, Download, UploadStep

LEMMA OthersFrame ==
  ASSUME [Next]_vars, ~ \E c \in Commands : Step(c)
  PROVE  /\ UNCHANGED <<pc, code, cursor, k, fin, stats, done, files>>
         /\ \A c \in Commands : Mine(c)' = Mine(c)
BY DEF Next, Pty, Change, Register, Unregister, Collide, Mine, vars, runVars,
       postVars, fileVars

LEMMA ReqFrame == IInv /\ [Next]_vars => req' = req
BY ZenonT(30) DEF IInv, Next, Step, Receive, Start, StartPanics, StartFails, Fin, Panic, Shell, Word,
       RunSimple, RunNothing, RunLast, Download, GetData, GetDataFails, Tee, TeeFails,
       TeeUnzip, Stat, UploadStep, MakeArchive, MakeArchiveFails, Cat, UploadFails, Upload,
       RemoveArchive, ResizePty, Check, Resize, ResizeNil, ReadCollides, Pty, Change,
       Register, Unregister, Collide, vars

-----------------------------------------------------------------------------
(* What can end the agent. *)

LEMMA ArgsStep == IInv /\ ArgsKnown /\ [Next]_vars => ArgsKnown'
<1> SUFFICES ASSUME IInv, ArgsKnown, [Next]_vars, NEW d \in Commands
             PROVE  ArgsKnownOf(d)'
  BY DEF ArgsKnown
<1>1. ArgsKnownOf(d) BY DEF ArgsKnown
<1>2. CASE Mine(d)' = Mine(d)
  BY <1>1, <1>2, ReqFrame DEF ArgsKnownOf, Mine, Line
<1>3. CASE req[d].op = "shell" /\ Step(d)
  <2> USE ReqFrame DEF IInv, TypeOK, Go, Finish, Panic, runVars, ArgsKnownOf, Line, Read
  <2>1. Len(req[d].line) \in Nat BY <1>3, Asked
  <2>2. CASE Receive(d) BY <1>1, <2>2 DEF Receive
  <2>3. CASE Start(d) BY <1>1, <1>3, <2>1, <2>3 DEF Start, Enters
  <2>4. CASE StartPanics(d) \/ StartFails(d) \/ Fin(d)
    BY <1>1, <1>3, <2>4 DEF StartPanics, StartFails, Fin
  <2>5. CASE Word(d) BY <1>1, <1>3, <2>1, <2>5 DEF Word, AtEnd, Token
  <2>6. CASE RunSimple(d)
    <3>1. cursor[d].i \in Nat OBVIOUS
    <3>2. /\ cursor'[d] = [i |-> cursor[d].i + 1, args |-> FALSE]
          /\ pc'[d] \in {"shell", "fin"} /\ pc[d] = "shell"
          /\ cursor[d].i # Len(req[d].line) /\ req[d].line[cursor[d].i + 1] # "w"
      BY <2>6 DEF RunSimple, AtEnd, Token
    <3>3. QED BY <1>1, <1>3, <2>1, <3>1, <3>2
  <2>7. CASE RunNothing(d) BY <1>1, <2>7 DEF RunNothing
  <2>8. CASE RunLast(d) BY <1>1, <2>8 DEF RunLast
  <2>9. QED
    BY <1>3, <2>2, <2>3, <2>4, <2>5, <2>6, <2>7, <2>8
       DEF Step, Shell, Download, UploadStep, ResizePty
<1>4. QED BY <1>2, <1>3, Frame, OthersFrame, ReqFrame DEF ArgsKnownOf

\* An operator that finds no arguments is one that a shell does not accept there.
LEMMA NothingRejected ==
  ASSUME IInv, ArgsKnown, NEW c \in Commands, req[c].op = "shell", RunNothing(c)
  PROVE  pc[c] = "shell" /\ ~Accepts(Line(c))
<1>1. Len(Line(c)) \in Nat BY Asked DEF IInv, Line
<1>2. pc[c] = "shell" BY DEF RunNothing, Panic
<1>3. cursor[c].i \in Nat BY DEF IInv, TypeOK
<1>4. cursor[c].i + 1 \in 1 .. Len(Line(c)) /\ Line(c)[cursor[c].i + 1] \in Operators
  BY <1>1, <1>2, <1>3 DEF RunNothing, AtEnd, Token, ArgsKnown, ArgsKnownOf
<1>5. ~(cursor[c].i > 0 /\ Line(c)[cursor[c].i] = "w")
  BY <1>2 DEF RunNothing, ArgsKnown, ArgsKnownOf
<1>6. QED BY <1>2, <1>3, <1>4, <1>5 DEF Accepts

LEMMA RegistryStep == IInv /\ Registry /\ [Next]_vars => Registry'
<1> SUFFICES ASSUME IInv, Registry, [Next]_vars PROVE Registry'
  OBVIOUS
<1>1. req' = req BY ReqFrame
<1>2. \A c \in Commands : req[c].op \in {"openpty", "resizepty"} => req[c].session \in Sessions
  BY Asked DEF IInv
<1> USE DEF IInv, TypeOK, Registry
<1>3. CASE UNCHANGED vars BY <1>3 DEF vars, ptyVars
<1>4. ASSUME NEW s \in Sessions, Pty(s) PROVE Registry'
  <2>1. pc' = pc BY <1>4 DEF Pty, Change, Register, Unregister, Collide
  <2> USE <1>1, <1>2, <2>1 DEF Session, ptyVars
  <2>2. ASSUME Session(s, "opening", "registering"), writing' = writing \union {s},
               UNCHANGED terminals
        PROVE  Registry'
    BY <2>2
  <2>7. ASSUME Session(s, "opening", "closing") \/ Session(s, "open", "closing"),
               UNCHANGED <<terminals, writing>>
        PROVE  Registry'
    BY <2>7, ZenonT(30)
  <2>9. ASSUME s \notin terminals, Session(s, "closing", "over"),
               UNCHANGED <<terminals, writing>>
        PROVE  Registry'
    BY <2>9
  <2>8. ASSUME Session(s, "closing", "deleting"), writing' = writing \union {s},
               UNCHANGED terminals
        PROVE  Registry'
    BY <2>8
  <2>3. CASE Register(s) BY <2>3 DEF Register
  <2>4. CASE Unregister(s) BY <2>4 DEF Unregister
  <2>5. CASE Collide(s) BY <2>5 DEF Collide
  <2>6. QED BY <1>4, <2>2, <2>3, <2>4, <2>5, <2>7, <2>8, <2>9 DEF Pty, Change
<1>5. ASSUME NEW c \in Commands, Start(c) PROVE Registry'
  <2>1. UNCHANGED <<terminals, writing>> BY <1>5 DEF Start
  <2>2. \A d \in Commands :
          \/ d # c /\ pc'[d] = pc[d]
          \/ d = c /\ pc[d] = "start" /\ pc'[d] \notin {"new", "start", "use"}
    BY <1>5, Asked DEF Start, Go, Enters
  <2>3. CASE req[c].op # "openpty"
    BY <1>1, <1>5, <2>1, <2>2, <2>3 DEF Start
  <2>4. CASE req[c].op = "openpty"
    <3>1. session[req[c].session] = "none" /\ req[c].session \in Sessions
      BY <1>2, <1>5, <2>4 DEF Start, Go
    <3>2. session' = [session EXCEPT ![req[c].session] = "opening"]
      BY <1>5, <2>4 DEF Start
    <3>3. \A d \in Commands : req[d].op = "openpty" /\ req[d].session = req[c].session => d = c
      BY <2>4, WorkloadsAssumption
    <3>4. writing' = {s \in Sessions : session'[s] \in {"registering", "deleting"}}
      BY <2>1, <3>1, <3>2
    <3>5. \A s \in terminals' : session'[s] \in {"open", "closing", "deleting"}
      BY <2>1, <3>1, <3>2
    <3>6. ASSUME NEW d \in Commands, req[d].op = "openpty", pc'[d] \in {"new", "start"}
          PROVE  session'[req[d].session] = "none"
      <4>1. pc'[d] = pc[d] /\ d # c BY <2>2, <3>6, <1>5 DEF Start, Go
      <4>2. session[req[d].session] = "none" /\ req[d].session # req[c].session
        BY <3>3, <3>6, <4>1
      <4>3. QED BY <1>2, <3>2, <3>6, <4>2
    <3>7. ASSUME NEW d \in Commands, req[d].op = "resizepty", pc'[d] = "use"
          PROVE  req[d].session \in terminals \/ session'[req[d].session] = "over"
      <4>1. pc[d] = "use" BY <2>2, <3>7
      <4>2. req[d].session \in terminals \/ session[req[d].session] = "over"
        BY <3>7, <4>1
      <4>3. QED BY <1>2, <3>1, <3>2, <3>7, <4>2
    <3>8. QED BY <1>1, <2>1, <3>4, <3>5, <3>6, <3>7
  <2>5. QED BY <2>3, <2>4
<1>6. ASSUME NEW c \in Commands, Step(c), ~Start(c) PROVE Registry'
  <2>1. UNCHANGED ptyVars
    BY <1>6 DEF Step, Receive, StartPanics, StartFails, Fin, Panic, Shell, Word,
       RunSimple, RunNothing, RunLast, Download, GetData, GetDataFails, Tee, TeeFails,
       TeeUnzip, Stat, UploadStep, MakeArchive, MakeArchiveFails, Cat, UploadFails,
       Upload, RemoveArchive, ResizePty, Check, Resize, ResizeNil, ReadCollides
  <2>2. \A d \in Commands : d # c => pc'[d] = pc[d] BY <1>6, Frame, SMTT(30) DEF Mine
  <2>3. \/ pc'[c] = pc[c] \/ pc'[c] \notin {"new", "start", "use"}
        \/ pc[c] = "new" /\ pc'[c] = "start"
        \/ pc'[c] = "use" /\ req[c].session \in terminals
    BY <1>6, ZenonT(30) DEF Step, Receive, StartPanics, StartFails, Fin, Panic, Shell, Word, Go,
       Finish, Outcome, AfterFailure, Registered,
       RunSimple, RunNothing, RunLast, Download, GetData, GetDataFails, Tee, TeeFails,
       TeeUnzip, Stat, UploadStep, MakeArchive, MakeArchiveFails, Cat, UploadFails,
       Upload, RemoveArchive, ResizePty, Check, Resize, ResizeNil, ReadCollides
  <2>4. QED BY <1>1, <2>1, <2>2, <2>3 DEF ptyVars
<1>7. QED BY <1>3, <1>4, <1>5, <1>6 DEF Next

\* Each step that panics has its explanation in the state it is taken in.
LEMMA PanicStep ==
  IInv /\ ArgsKnown /\ Registry /\ PanicExplained /\ [Next]_vars => PanicExplained'
<1> SUFFICES ASSUME IInv, ArgsKnown, Registry, PanicExplained, [Next]_vars, ~alive'
             PROVE  PanicExplained'
  BY DEF PanicExplained
<1>1. CASE UNCHANGED vars
  BY <1>1 DEF vars, ptyVars, PanicExplained, NeedsOperand, Line
<1> USE DEF runVars, postVars, fileVars, ptyVars, Panic, PanicExplained, NeedsOperand, Line
<1>2. ASSUME NEW c \in Commands, StartPanics(c) PROVE PanicExplained'
  BY <1>2 DEF StartPanics
<1>3. ASSUME NEW c \in Commands, req[c].op = "shell", RunNothing(c) PROVE PanicExplained'
  BY <1>3, NothingRejected DEF RunNothing
<1>4. ASSUME NEW c \in Commands, req[c].op = "resizepty", ResizeNil(c) PROVE PanicExplained'
  <2>1. session[req[c].session] = "over" /\ req[c].session \in Sessions
    BY <1>4, Asked DEF ResizeNil, Registry, IInv
  <2>2. QED BY <1>4, <2>1 DEF ResizeNil
<1>5. ASSUME NEW c \in Commands, ReadCollides(c) PROVE PanicExplained'
  <2>1. PICK s \in Sessions : session[s] \in {"registering", "deleting"}
    BY <1>5 DEF ReadCollides, Registry
  <2>2. QED BY <1>5, <2>1 DEF ReadCollides
<1>6. ASSUME NEW s \in Sessions, Collide(s) PROVE PanicExplained'
  <2>1. PICK r \in Sessions : /\ r # s /\ session[r] \in {"registering", "deleting"}
                              /\ session[s] \in {"registering", "deleting", "closing"}
    BY <1>6 DEF Collide, OthersWrite, Registry
  <2>2. QED BY <1>6, <2>1 DEF Collide
<1>7. ASSUME NEW c \in Commands, Step(c), alive
      PROVE  \/ StartPanics(c) \/ (req[c].op = "shell" /\ RunNothing(c))
             \/ (req[c].op = "resizepty" /\ ResizeNil(c)) \/ ReadCollides(c)
  BY <1>7 DEF Step, Receive, Start, StartFails, Fin, Shell, Word,
       RunSimple, RunLast, Download, GetData, GetDataFails, Tee, TeeFails,
       TeeUnzip, Stat, UploadStep, MakeArchive, MakeArchiveFails, Cat, UploadFails,
       Upload, RemoveArchive, ResizePty, Check, Resize
<1>8. ASSUME NEW s \in Sessions, Pty(s), alive PROVE Collide(s)
  BY <1>8 DEF Pty, Change, Register, Unregister
<1>9. QED BY <1>1, <1>2, <1>3, <1>4, <1>5, <1>6, <1>7, <1>8 DEF Next

-----------------------------------------------------------------------------
(* What happens to files. *)

LEMMA FilesChange ==
  ASSUME IInv, NEW c \in Commands, Step(c), NEW p \in Paths \union Commands,
         files'[p] # files[p]
  PROVE  \/ /\ req[c].op = "download" /\ pc[c] = "tee"
            /\ p = File(c).path \/ files[p] = None
            /\ files'[p] \in {None, c}
         \/ /\ Makes(c, p) /\ pc[c] = "zip"
            /\ \/ pc'[c] = "cat" /\ files'[p] = "archive"
               \/ pc'[c] = "stat" /\ code'[c] = 1 /\ files'[p] = "partial"
         \/ /\ req[c].op = "upload" /\ pc[c] = "remove"
            /\ p = Sent(c) /\ files'[p] = None
<1> USE DEF IInv, TypeOK, Go, Outcome, fileVars
<1>1. CASE req[c].op = "download" /\ (Tee(c) \/ TeeFails(c))
  BY <1>1 DEF Tee, TeeFails
<1>2. CASE req[c].op = "download" /\ TeeUnzip(c)
  <2>1. pc[c] = "tee" BY <1>2 DEF TeeUnzip
  <2>2. PICK written, unpacked \in BOOLEAN, removed \in {0, 1} :
          files' = [files EXCEPT
                      ![File(c).member] = IF unpacked /\ @ = None THEN c ELSE @,
                      ![File(c).path] = IF removed = 0 THEN None
                                        ELSE IF written THEN c ELSE @]
    BY <1>2 DEF TeeUnzip
  <2>3. QED BY <1>2, <2>1, <2>2
<1>3. CASE req[c].op = "upload" /\ MakeArchive(c) BY <1>3 DEF MakeArchive, Makes
<1>7. CASE req[c].op = "upload" /\ MakeArchiveFails(c)
  BY <1>7 DEF MakeArchiveFails, Makes
<1>4. CASE req[c].op = "upload" /\ RemoveArchive(c) BY <1>4 DEF RemoveArchive
<1>5. ASSUME Step(c), ~(req[c].op = "download" /\ (Tee(c) \/ TeeFails(c) \/ TeeUnzip(c))),
             ~(req[c].op = "upload" /\ (MakeArchive(c) \/ MakeArchiveFails(c) \/ RemoveArchive(c)))
      PROVE  files' = files
  BY <1>5 DEF Step, Receive, Start, StartPanics, StartFails, Fin, Panic, Shell, Word,
       RunSimple, RunNothing, RunLast, Download, GetData, GetDataFails, Stat, UploadStep,
       Cat, UploadFails, Upload, ResizePty, Check, Resize, ResizeNil, ReadCollides
<1>6. QED BY <1>1, <1>2, <1>3, <1>4, <1>5, <1>7

\* No step makes a file one of the user.
LEMMA NeverUser ==
  ASSUME IInv, [Next]_vars, NEW p \in Paths \union Commands, files'[p] = "user"
  PROVE  files[p] = "user"
<1>1. ASSUME NEW c \in Commands, Step(c) PROVE files[p] = "user"
  BY <1>1, FilesChange, NamesAssumption
<1>2. QED BY <1>1, OthersFrame

FilesInv == Permitted /\ RemovesArchives /\ NoResidue

LEMMA PermittedStep == IInv /\ Permitted /\ [Next]_vars => Permitted'
<1> SUFFICES ASSUME IInv, Permitted, [Next]_vars, NEW d \in Commands,
                    req[d].op = "download", pc'[d] = "tee"
             PROVE  File(d)'.overwrite \/ files'[File(d)'.path] # "user"
  BY ReqFrame DEF Permitted
<1>1. File(d).path \in Paths
  <2>1. k[d] \in 1 .. Len(req[d].files) BY DEF IInv, TypeOK
  <2>2. QED BY <2>1, Asked DEF IInv, File
<1>2. CASE Mine(d)' = Mine(d)
  <2>1. File(d)' = File(d) /\ pc[d] = "tee" BY <1>2, ReqFrame DEF Mine, File
  <2>2. File(d).overwrite \/ files[File(d).path] # "user" BY <2>1 DEF Permitted
  <2>3. QED BY <1>1, <2>1, <2>2, NeverUser
<1>3. CASE Step(d)
  <2>1. GetData(d) \/ (pc'[d] = pc[d] /\ UNCHANGED <<k, files>>)
    BY <1>3 DEF Step, Receive, Start, StartPanics, StartFails, Fin, Panic, Shell, Word, Go,
       Finish, Outcome, RunSimple, RunNothing, RunLast, Download, GetDataFails, Tee,
       TeeFails, TeeUnzip, Stat, UploadStep, ResizePty, Enters, IInv, TypeOK, runVars,
       fileVars
  <2>2. CASE GetData(d)
    <3>1. File(d)' = File(d) /\ files' = files
      BY <2>2, ReqFrame DEF GetData, File, fileVars
    <3>2. files[File(d).path] = None \/ File(d).overwrite BY <2>2 DEF GetData, Refused
    <3>3. QED BY <3>1, <3>2, NamesAssumption
  <2>3. CASE pc'[d] = pc[d] /\ UNCHANGED <<k, files>>
    <3>1. File(d)' = File(d) BY <2>3, ReqFrame DEF File
    <3>2. QED BY <2>3, <3>1 DEF Permitted
  <2>4. QED BY <2>1, <2>2, <2>3
<1>4. QED BY <1>2, <1>3, Frame, OthersFrame

\* An archive is the work of an upload that has still to remove it.
LEMMA NoResidueStep ==
  IInv /\ RemovesArchives /\ NoResidue /\ [Next]_vars => RemovesArchives' /\ NoResidue'
<1> SUFFICES ASSUME IInv, RemovesArchives, NoResidue, [Next]_vars
             PROVE  RemovesArchives' /\ NoResidue'
  OBVIOUS
<1>1. req' = req /\ \A c \in Commands, p \in Paths \union Commands :
                      Archives(c)' = Archives(c) /\ Makes(c, p)' = Makes(c, p)
  BY ReqFrame DEF Archives, Sent, Makes
<1>2. ASSUME NEW c \in Commands, req[c].op = "upload", Step(c)
      PROVE  /\ pc'[c] = "remove" => Archives(c)
             /\ Archives(c) /\ pc[c] \in {"cat", "send", "remove"} =>
                  \/ pc'[c] \in {"cat", "send", "remove"}
                  \/ pc[c] = "remove" /\ files' = [files EXCEPT ![Sent(c)] = None]
  BY <1>2 DEF Step, Receive, Start, StartPanics, StartFails, Fin, Panic, Shell, Go,
       Finish, Outcome, Download, UploadStep, MakeArchive, MakeArchiveFails, Cat,
       UploadFails, Upload, RemoveArchive, AfterFailure, Stat, ResizePty, Enters, IInv,
       TypeOK, RemovesArchives
<1>3. RemovesArchives'
  BY <1>1, <1>2, Frame, OthersFrame DEF RemovesArchives, Mine
<1>4. DOMAIN files = Paths \union Commands /\ DOMAIN files' = Paths \union Commands
  BY NextTypes DEF IInv, TypeOK
<1>5. ASSUME NEW p \in Paths \union Commands, files'[p] = "archive"
      PROVE  \E c \in Commands : Makes(c, p) /\ pc'[c] \in {"cat", "send", "remove"}
  <2>1. CASE files[p] = "archive"
    <3>1. PICK c \in Commands : Makes(c, p) /\ pc[c] \in {"cat", "send", "remove"}
      BY <1>4, <2>1 DEF NoResidue
    <3>2. CASE Step(c)
      BY <1>2, <1>4, <1>5, <3>1, <3>2, NamesAssumption DEF Makes
    <3>3. CASE ~Step(c)
      <4>1. pc'[c] = pc[c] BY <3>3, Frame, OthersFrame DEF Mine
      <4>2. QED BY <3>1, <4>1
    <3>4. QED BY <3>2, <3>3
  <2>2. CASE files[p] # "archive"
    <3>1. PICK c \in Commands : Step(c)
      BY <1>5, <2>2, OthersFrame
    <3>2. QED BY <1>5, <2>2, <3>1, FilesChange, NamesAssumption
  <2>3. QED BY <2>1, <2>2
<1>7. ASSUME NEW p \in Paths \union Commands, files'[p] = "partial"
      PROVE  \E c \in Commands :
               Makes(c, p) /\ pc'[c] \in {"stat", "fin", "done"} /\ code'[c] = 1
  <2>1. CASE files[p] = "partial"
    <3>1. PICK c \in Commands :
            Makes(c, p) /\ pc[c] \in {"stat", "fin", "done"} /\ code[c] = 1
      BY <1>4, <2>1 DEF NoResidue
    <3>2. CASE Step(c)
      <4>1. pc'[c] \in {"stat", "fin", "done"} /\ code'[c] = code[c]
        BY <3>1, <3>2 DEF Makes, Step, Receive, Start, StartPanics, StartFails, Fin, Panic,
           Shell, Go, Finish, Outcome, Download, UploadStep, MakeArchive, MakeArchiveFails,
           Cat, UploadFails, Upload, RemoveArchive, Stat, IsLast, ResizePty, IInv, TypeOK,
           runVars
      <4>2. QED BY <3>1, <4>1
    <3>3. CASE ~Step(c)
      <4>1. pc'[c] = pc[c] /\ code'[c] = code[c] BY <3>3, Frame, OthersFrame DEF Mine
      <4>2. QED BY <3>1, <4>1
    <3>4. QED BY <3>2, <3>3
  <2>2. CASE files[p] # "partial"
    <3>1. PICK c \in Commands : Step(c)
      BY <1>7, <2>2, OthersFrame
    <3>2. QED BY <1>7, <2>2, <3>1, FilesChange, NamesAssumption
  <2>3. QED BY <2>1, <2>2
<1>6. QED BY <1>1, <1>3, <1>4, <1>5, <1>7 DEF NoResidue

LEMMA KeptStep ==
  IInv /\ Permitted /\ RemovesArchives /\ [Next]_vars =>
    \A p \in Paths : files[p] = "user" /\ files'[p] # "user" =>
      \E c \in Commands :
        \/ /\ req[c].op = "download" /\ pc[c] = "tee"
           /\ File(c).overwrite /\ p = File(c).path
        \/ Makes(c, p)
<1> SUFFICES ASSUME IInv, Permitted, RemovesArchives, [Next]_vars, NEW p \in Paths,
                    files[p] = "user", files'[p] # "user"
             PROVE  \E c \in Commands :
                      \/ /\ req[c].op = "download" /\ pc[c] = "tee"
                         /\ File(c).overwrite /\ p = File(c).path
                      \/ Makes(c, p)
  OBVIOUS
<1>1. PICK c \in Commands : Step(c) BY OthersFrame
<1>2. QED BY <1>1, FilesChange, NamesAssumption DEF Permitted, RemovesArchives, Makes

-----------------------------------------------------------------------------
(* The reports of a transfer. *)

LEMMA OneMoreReport ==
  ASSUME NEW s \in Seq({0, 1}), NEW n \in {0, 1}, NEW m \in Nat, Len(s) = m - 1
  PROVE  /\ Len(s \o <<n>>) = m /\ (s \o <<n>>)[m] = n
         /\ \A i \in 1 .. m - 1 : (s \o <<n>>)[i] = s[i]
OBVIOUS

LEMMA ReportsStep == IInv /\ Reports /\ [Next]_vars => Reports'
<1> SUFFICES ASSUME IInv, Reports, [Next]_vars, NEW d \in Commands
             PROVE  ReportsOf(d)'
  BY DEF Reports
<1>1. ReportsOf(d) BY DEF Reports
<1>2. req' = req BY ReqFrame
<1>3. CASE Mine(d)' = Mine(d)
  BY <1>1, <1>2, <1>3 DEF ReportsOf, Truthful, Refusal, Mine, File
<1>4. CASE Step(d) /\ req[d].op = "download"
  <2>1. /\ Len(req[d].files) \in Nat \ {0} /\ DOMAIN req[d].files = 1 .. Len(req[d].files)
        /\ k[d] \in 1 .. Len(req[d].files)
    BY <1>4, Asked DEF IInv, TypeOK
  <2>2. stats[d] \in Seq({0, 1}) BY DEF IInv, TypeOK
  <2> USE <1>1, <1>2, <1>4, <2>1, <2>2 DEF ReportsOf, Go, Outcome, Finish, runVars, postVars,
          fileVars
  <2> HIDE DEF Truthful, Refusal, File
  <2>3. ASSUME UNCHANGED <<k, stats, done>>
        PROVE  /\ \A n \in Nat : Truthful(d, n)' = Truthful(d, n)
               /\ code'[d] = 1 => (Refusal(d)' <=> stats[d] = <<>> /\ done[d] = {})
               /\ File(d)' = File(d)
    BY <2>3 DEF Truthful, Refusal, File
  <2>4. CASE Receive(d) BY <2>3, <2>4 DEF Receive, IInv, TypeOK
  <2>5. CASE Start(d) BY <2>3, <2>5 DEF Start, Enters, IInv, TypeOK
  <2>6. CASE StartPanics(d)
    <3>1. Mine(d)' = Mine(d) BY <2>6 DEF StartPanics, Panic, Mine
    <3>2. QED BY <1>3, <3>1
  <2>7. CASE StartFails(d) BY <2>3, <2>7 DEF StartFails, IInv, TypeOK
  <2>8. CASE Fin(d)
    <3>1. Refusal(d)' <=> Refusal(d) BY <2>8 DEF Fin, Refusal
    <3>2. pc[d] = "fin" /\ pc'[d] = "done" /\ UNCHANGED <<k, stats, done>>
      BY <2>8 DEF Fin, IInv, TypeOK
    <3>3. QED BY <2>3, <3>1, <3>2
  <2>9. CASE GetData(d) BY <2>3, <2>9 DEF GetData, IInv, TypeOK
  <2>10. CASE GetDataFails(d) BY <2>3, <2>10 DEF GetDataFails, IInv, TypeOK
  <2>11. CASE TeeFails(d) BY <2>3, <2>11 DEF TeeFails, IInv, TypeOK
  <2>12. ASSUME pc[d] = "tee", pc'[d] = "stat", UNCHANGED <<k, stats>>,
                done'[d] \in {done[d], done[d] \union {k[d]}},
                ~File(d).unzip => done'[d] # done[d] /\ code'[d] = 0
         PROVE  ReportsOf(d)'
    <3>1. \A n \in 1 .. k[d] - 1 : Truthful(d, n)' = Truthful(d, n)
      BY <2>12 DEF Truthful
    <3>2. File(d)' = File(d) BY <2>12 DEF File
    <3>3. QED BY <2>12, <3>1, <3>2
  <2>13. CASE Tee(d)
    BY <2>12, <2>13 DEF Tee, Transferred, IInv, TypeOK
  <2>14. CASE TeeUnzip(d)
    BY <2>12, <2>14 DEF TeeUnzip, Transferred, IInv, TypeOK
  <2>15. CASE Stat(d)
    <3>1. /\ pc[d] = "stat" /\ stats'[d] = stats[d] \o <<code[d]>> /\ done'[d] = done[d]
          /\ IsLast(d) => pc'[d] = "fin" /\ k'[d] = k[d]
          /\ ~IsLast(d) => pc'[d] = "get" /\ k'[d] = k[d] + 1
      BY <2>15 DEF Stat, Report, IInv, TypeOK
    <3>2. /\ Len(stats'[d]) = k[d]
          /\ \A n \in 1 .. k[d] - 1 : stats'[d][n] = stats[d][n]
          /\ stats'[d][k[d]] = code[d]
      <4>1. stats[d] \in Seq({0, 1}) /\ code[d] \in {0, 1} BY DEF IInv, TypeOK
      <4>2. Len(stats[d]) = k[d] - 1 /\ k[d] \in Nat BY <2>1, <3>1
      <4>3. QED BY <3>1, <4>1, <4>2, OneMoreReport
    <3>3. \A n \in 1 .. k[d] : Truthful(d, n)'
      <4>1. ASSUME NEW n \in 1 .. k[d] - 1 PROVE Truthful(d, n)'
        BY <3>1, <3>2, <4>1 DEF Truthful
      <4>2. ASSUME NEW n \in Nat, n = k[d] PROVE Truthful(d, n)'
        BY <3>1, <3>2, <4>2 DEF Truthful, File
      <4>3. QED BY <4>1, <4>2
    <3>4. CASE IsLast(d) BY <3>1, <3>2, <3>3, <3>4 DEF IsLast
    <3>5. CASE ~IsLast(d)
      <4>1. k'[d] = k[d] + 1 /\ pc'[d] = "get" BY <3>1, <3>5
      <4>2. Len(stats'[d]) = k'[d] - 1 /\ 1 .. k'[d] - 1 = 1 .. k[d]
        BY <3>2, <4>1
      <4>3. done'[d] \subseteq 1 .. k'[d] /\ k'[d] \notin done'[d]
        BY <3>1, <4>1, SMTT(30)
      <4>4. QED BY <3>3, <4>1, <4>2, <4>3
    <3>6. QED BY <3>4, <3>5
  <2>16. QED
    BY <2>4, <2>5, <2>6, <2>7, <2>8, <2>9, <2>10, <2>11, <2>13, <2>14, <2>15
       DEF Step, Shell, Download, UploadStep, ResizePty
<1>5. QED BY <1>2, <1>3, <1>4, Frame, OthersFrame DEF ReportsOf

-----------------------------------------------------------------------------
LEMMA AnsweredStep == IInv /\ Answered /\ [Next]_vars => Answered'
<1> SUFFICES ASSUME IInv, Answered, [Next]_vars, NEW d \in Commands
             PROVE  AnsweredOf(d)'
  BY DEF Answered
<1>1. AnsweredOf(d) /\ req' = req BY ReqFrame DEF Answered
<1>2. CASE Mine(d)' = Mine(d) BY <1>1, <1>2 DEF AnsweredOf, Answer, Mine
<1>3. CASE Fin(d)
  <2>1. pc[d] = "fin" /\ pc'[d] = "done" /\ code' = code /\ fin'[d] = fin[d] \o Answer(d)
    BY <1>3 DEF Fin, Go, runVars, IInv, TypeOK
  <2>2. Answer(d)' = Answer(d) BY <1>1, <2>1 DEF Answer
  <2>3. fin[d] = <<>> /\ <<>> \o Answer(d) = Answer(d)
    BY <1>1, <2>1 DEF AnsweredOf, Answer
  <2>4. QED BY <2>1, <2>2, <2>3 DEF AnsweredOf
<1>4. CASE Step(d) /\ ~Fin(d)
  <2>1. fin' = fin
    BY <1>4 DEF Step, Receive, Start, StartPanics, StartFails, Panic, Shell, Word, RunSimple,
       RunNothing, RunLast, Download, GetData, GetDataFails, Tee, TeeFails, TeeUnzip, Stat,
       UploadStep, MakeArchive, MakeArchiveFails, Cat, UploadFails, Upload, RemoveArchive,
       ResizePty, Check, Resize, ResizeNil, ReadCollides, postVars
  <2>2. pc[d] # "done" /\ pc'[d] # "done"
    BY <1>4 DEF Step, Receive, Start, StartPanics, StartFails, Panic, Shell, Word, RunSimple,
       RunNothing, RunLast, Download, GetData, GetDataFails, Tee, TeeFails, TeeUnzip, Stat,
       UploadStep, MakeArchive, MakeArchiveFails, Cat, UploadFails, Upload, RemoveArchive,
       ResizePty, Check, Resize, ResizeNil, ReadCollides, Go, Finish, Outcome, Enters,
       AfterFailure, IInv, TypeOK, IsRequest
  <2>3. QED BY <1>1, <2>1, <2>2 DEF AnsweredOf
<1>5. QED BY <1>2, <1>3, <1>4, Frame, OthersFrame

-----------------------------------------------------------------------------
(* A command line.  StatusAfter is a recursive function: that it satisfies  *)
(* its equation is shown by extending the one for a shorter domain, and     *)
(* what it satisfies, from each word of the line to the next.               *)

LEMMA LeastExists ==
  ASSUME NEW S \in SUBSET Nat, S # {}
  PROVE  \E m \in S : \A n \in S : m <= n
<1> DEFINE R == {ss \in Nat \X Nat : ss[1] < ss[2]}
<1>1. IsWellFoundedOn(R, Nat)
  <2>1. OpToRel(<, Nat) = R BY DEF OpToRel
  <2>2. QED BY <2>1, NatLessThanWellFounded, Zenon
<1> HIDE DEF R
<1>2. PICK m \in S : \A n \in S : <<n, m>> \notin R
  BY <1>1, WFMin
<1>3. ASSUME NEW n \in S PROVE m <= n
  <2>1. n < m => <<n, m>> \in R BY DEF R
  <2>2. QED BY <1>2, <2>1
<1>4. QED BY <1>3

\* What holds at n, and at each number after one at which it holds, holds from n on.
LEMMA FromThenOn ==
  ASSUME NEW n \in Nat, NEW m \in Nat, NEW S, n \in S,
         \A i \in n .. m - 1 : i \in S => i + 1 \in S
  PROVE  \A i \in n .. m : i \in S
<1> SUFFICES ASSUME NEW j \in n .. m, j \notin S PROVE FALSE
  OBVIOUS
<1> DEFINE Missing == {i \in Nat : i \in n .. m /\ i \notin S}
<1>1. j \in Missing OBVIOUS
<1>2. PICK i \in Missing : \A h \in Missing : i <= h
  BY <1>1, LeastExists
<1>3. i # n /\ i \in Nat /\ i \in n .. m /\ i \notin S BY <1>2
<1>4. i - 1 \in n .. m - 1 /\ i - 1 \in Nat /\ i - 1 \in n .. m /\ (i - 1) + 1 = i
  BY <1>3
<1>5. i - 1 \notin Missing BY <1>2, <1>3, <1>4
<1>6. i - 1 \in S BY <1>4, <1>5
<1>7. QED BY <1>3, <1>4, <1>6

Nothing == [ran |-> <<>>, code |-> 0]

\* at is the function that line and fails define, as far as n.
IsStatus(at, n, line, fails) ==
  at = [i \in 0 .. n |-> IF i = 0 THEN Nothing
                         ELSE Continued(line, fails, i, at[i - 1])]

LEMMA StatusExtends ==
  ASSUME NEW n \in Nat, NEW line, NEW fails, NEW at, IsStatus(at, n, line, fails)
  PROVE  \E more : IsStatus(more, n + 1, line, fails)
<1> DEFINE next == Continued(line, fails, n + 1, at[n])
           more == [i \in 0 .. n + 1 |-> IF i = n + 1 THEN next ELSE at[i]]
<1>1. n \in 0 .. n + 1 /\ n # n + 1 /\ n + 1 # 0 /\ n + 1 \in 0 .. n + 1
      /\ (n + 1) - 1 = n
  OBVIOUS
<1> HIDE DEF next
<1>2. more[n] = at[n] /\ more[n + 1] = next BY <1>1
<1>3. ASSUME NEW i \in 0 .. n + 1
      PROVE  more[i] = IF i = 0 THEN Nothing ELSE Continued(line, fails, i, more[i - 1])
  <2>1. CASE i = n + 1 BY <1>1, <1>2, <2>1 DEF next
  <2>2. CASE i # n + 1
    <3>1. i \in 0 .. n /\ more[i] = at[i] BY <2>2
    <3>2. at[i] = IF i = 0 THEN Nothing ELSE Continued(line, fails, i, at[i - 1])
      BY <3>1 DEF IsStatus
    <3>3. i # 0 => more[i - 1] = at[i - 1] BY <3>1
    <3>4. QED BY <3>1, <3>2, <3>3
  <2>3. QED BY <2>1, <2>2
<1>4. more = [i \in 0 .. n + 1 |-> more[i]] OBVIOUS
<1> HIDE DEF more
<1>5. more = [i \in 0 .. n + 1 |-> IF i = 0 THEN Nothing
                                   ELSE Continued(line, fails, i, more[i - 1])]
  BY <1>3, <1>4
<1>6. QED BY <1>5 DEF IsStatus

LEMMA StatusExists ==
  ASSUME NEW n \in Nat, NEW line, NEW fails
  PROVE  \E at : IsStatus(at, n, line, fails)
<1> DEFINE S == {m \in Nat : \E at : IsStatus(at, m, line, fails)}
<1>1. 0 \in S
  <2> DEFINE at == [i \in 0 .. 0 |-> Nothing]
  <2>1. \A i \in 0 .. 0 : i = 0 OBVIOUS
  <2>2. IsStatus(at, 0, line, fails) BY <2>1 DEF IsStatus
  <2>3. QED BY <2>2
<1>2. \A m \in 0 .. n - 1 : m \in S => m + 1 \in S BY StatusExtends
<1> HIDE DEF S
<1>3. \A m \in 0 .. n : m \in S BY <1>1, <1>2, FromThenOn
<1>4. n \in S BY <1>3
<1>5. QED BY <1>4 DEF S

LEMMA StatusIs ==
  ASSUME NEW line, NEW fails, Len(line) \in Nat
  PROVE  LET at == StatusAfter(line, fails)
         IN /\ at[0] = Nothing
            /\ \A i \in 1 .. Len(line) : at[i] = Continued(line, fails, i, at[i - 1])
<1> DEFINE at == StatusAfter(line, fails)
<1>1. at = CHOOSE f : IsStatus(f, Len(line), line, fails)
  BY DEF StatusAfter, IsStatus, Nothing
<1>2. IsStatus(at, Len(line), line, fails) BY <1>1, StatusExists
<1> HIDE DEF at
<1>3. 0 \in 0 .. Len(line) OBVIOUS
<1>4. at[0] = Nothing BY <1>2, <1>3 DEF IsStatus
<1>5. ASSUME NEW i \in 1 .. Len(line) PROVE at[i] = Continued(line, fails, i, at[i - 1])
  <2>1. i \in 0 .. Len(line) /\ i # 0 OBVIOUS
  <2>2. QED BY <1>2, <2>1 DEF IsStatus
<1>6. QED BY <1>4, <1>5 DEF at

\* What has run, and a code.
IsStatusOf(s) == s.ran \in Seq(Nat) /\ s.code \in {0, 1}

LEMMA ContinuedIs ==
  ASSUME NEW line, NEW fails, NEW i \in Nat, NEW s, IsStatusOf(s)
  PROVE  LET t == Continued(line, fails, i, s)
         IN IsStatusOf(t) /\ (t.ran = s.ran \/ t.ran = Append(s.ran, i))
<1>1. CASE EndsCommand(line, i) /\ LetsRun(JoinedBy(line, i), s.code)
  <2> DEFINE t == [ran |-> Append(s.ran, i), code |-> IF i \in fails THEN 1 ELSE 0]
  <2>1. Continued(line, fails, i, s) = t BY <1>1 DEF Continued
  <2>2. Append(s.ran, i) \in Seq(Nat) BY DEF IsStatusOf
  <2>3. IsStatusOf(t) /\ t.ran = Append(s.ran, i) BY <2>2 DEF IsStatusOf
  <2> HIDE DEF t
  <2>4. QED BY <2>1, <2>3
<1>2. CASE ~(EndsCommand(line, i) /\ LetsRun(JoinedBy(line, i), s.code))
  BY <1>2 DEF Continued
<1>3. QED BY <1>1, <1>2

LEMMA StatusTypes ==
  ASSUME NEW line, NEW fails, Len(line) \in Nat
  PROVE  \A i \in 0 .. Len(line) : IsStatusOf(StatusAfter(line, fails)[i])
<1> DEFINE at == StatusAfter(line, fails)
           S == {i \in Nat : IsStatusOf(at[i])}
<1>1. at[0] = Nothing /\ \A i \in 1 .. Len(line) : at[i] = Continued(line, fails, i, at[i - 1])
  BY StatusIs
<1> HIDE DEF at
<1>2. 0 \in S
  <2>1. IsStatusOf(Nothing) BY DEF Nothing, IsStatusOf
  <2>2. QED BY <1>1, <2>1
<1>3. ASSUME NEW i \in 0 .. Len(line) - 1, i \in S PROVE i + 1 \in S
  <2>1. i + 1 \in 1 .. Len(line) /\ (i + 1) - 1 = i /\ i + 1 \in Nat OBVIOUS
  <2>2. at[i + 1] = Continued(line, fails, i + 1, at[i]) BY <1>1, <2>1
  <2> DEFINE s == at[i]
  <2>3. IsStatusOf(s) BY <1>3
  <2> HIDE DEF s
  <2>4. IsStatusOf(Continued(line, fails, i + 1, s)) BY <2>1, <2>3, ContinuedIs
  <2>5. QED BY <2>1, <2>2, <2>4 DEF s
<1> HIDE DEF S
<1>4. \A i \in 0 .. Len(line) : i \in S BY <1>2, <1>3, FromThenOn
<1>5. QED BY <1>4 DEF S, at

\* s begins with r.
Begins(r, s) == Len(r) <= Len(s) /\ r = SubSeq(s, 1, Len(r))

LEMMA BeginsItself == ASSUME NEW r \in Seq(Nat) PROVE Begins(r, r)
<1>1. Len(r) \in Nat OBVIOUS
<1>2. SubSeq(r, 1, Len(r)) = r OBVIOUS
<1>3. QED BY <1>1, <1>2 DEF Begins

LEMMA BeginsLonger ==
  ASSUME NEW r \in Seq(Nat), NEW s \in Seq(Nat), NEW n \in Nat, Begins(r, s)
  PROVE  Begins(r, Append(s, n))
<1>1. Len(r) \in Nat /\ Len(s) \in Nat OBVIOUS
<1> DEFINE t == Append(s, n)
<1>2. t \in Seq(Nat) /\ Len(t) = Len(s) + 1 /\ \A i \in 1 .. Len(s) : t[i] = s[i]
  OBVIOUS
<1> HIDE DEF t
<1>3. SubSeq(t, 1, Len(r)) = SubSeq(s, 1, Len(r)) BY <1>1, <1>2 DEF Begins
<1>4. QED BY <1>1, <1>2, <1>3 DEF Begins, t

\* What has run after a word begins what has run after the line.
LEMMA StatusBegins ==
  ASSUME NEW line, NEW fails, Len(line) \in Nat, NEW n \in 0 .. Len(line)
  PROVE  Begins(StatusAfter(line, fails)[n].ran, ShellRuns(line, fails).ran)
<1> DEFINE at == StatusAfter(line, fails)
           S == {i \in Nat : Begins(at[n].ran, at[i].ran)}
<1>1. \A i \in 1 .. Len(line) : at[i] = Continued(line, fails, i, at[i - 1])
  BY StatusIs
<1>2. \A i \in 0 .. Len(line) : IsStatusOf(at[i]) BY StatusTypes
<1> HIDE DEF at
<1>3. n \in S
  <2>1. at[n].ran \in Seq(Nat) BY <1>2 DEF IsStatusOf
  <2>2. QED BY <2>1, BeginsItself
<1>4. ASSUME NEW i \in n .. Len(line) - 1, i \in S PROVE i + 1 \in S
  <2>1. i + 1 \in 1 .. Len(line) /\ (i + 1) - 1 = i /\ i + 1 \in Nat /\ i \in 0 .. Len(line)
    OBVIOUS
  <2>2. at[i + 1] = Continued(line, fails, i + 1, at[i]) BY <1>1, <2>1
  <2>3. IsStatusOf(at[i]) BY <1>2, <2>1
  <2>4. at[i + 1].ran = at[i].ran \/ at[i + 1].ran = Append(at[i].ran, i + 1)
    BY <2>1, <2>2, <2>3, ContinuedIs
  <2> DEFINE r == at[n].ran
             s == at[i].ran
  <2>5. r \in Seq(Nat) /\ s \in Seq(Nat) /\ Begins(r, s)
    BY <1>2, <1>4, <2>3 DEF IsStatusOf
  <2> HIDE DEF r, s
  <2>6. Begins(r, Append(s, i + 1)) BY <2>1, <2>5, BeginsLonger
  <2>7. Begins(r, at[i + 1].ran) BY <2>4, <2>5, <2>6 DEF s
  <2>8. QED BY <2>1, <2>7 DEF r
<1> HIDE DEF S
<1>5. n \in Nat OBVIOUS
<1>6. \A i \in n .. Len(line) : i \in S BY <1>3, <1>4, <1>5, FromThenOn
<1>7. Len(line) \in S BY <1>6
<1>8. QED BY <1>7 DEF S, at, ShellRuns

\* The operator in front of the next word.
KindOf(word) == IF word = "w;" THEN ";" ELSE word

LEMMA JoinedFirst == ASSUME NEW line PROVE JoinedBy(line, 1) = ";"
<1>1. {j \in 1 .. 1 - 1 : line[j] # "w"} = {} OBVIOUS
<1>2. QED BY <1>1 DEF JoinedBy

LastOf(line, ends) ==
  IF ends = {} THEN ";" ELSE KindOf(line[CHOOSE j \in ends : \A h \in ends : h <= j])

LEMMA JoinedNext ==
  ASSUME NEW line, NEW i \in Nat \ {0}
  PROVE  JoinedBy(line, i + 1) = IF line[i] = "w" THEN JoinedBy(line, i) ELSE KindOf(line[i])
<1> DEFINE ends == {j \in 1 .. (i + 1) - 1 : line[j] # "w"}
<1>1. (i + 1) - 1 = i /\ i \in 1 .. i OBVIOUS
<1>2. JoinedBy(line, i + 1) = LastOf(line, ends) BY DEF JoinedBy, LastOf, KindOf
<1> HIDE DEF ends
<1>3. CASE line[i] = "w"
  <2>1. ends = {j \in 1 .. i - 1 : line[j] # "w"} BY <1>1, <1>3 DEF ends
  <2>2. JoinedBy(line, i) = LastOf(line, ends) BY <2>1 DEF JoinedBy, LastOf, KindOf
  <2>3. QED BY <1>3, <1>2, <2>2
<1>4. CASE line[i] # "w"
  <2>1. i \in ends /\ \A h \in ends : h <= i BY <1>1, <1>4 DEF ends
  <2> DEFINE last == CHOOSE j \in ends : \A h \in ends : h <= j
  <2>2. last \in ends /\ \A h \in ends : h <= last BY <2>1
  <2>3. ends \subseteq Nat BY <1>1 DEF ends
  <2> HIDE DEF last
  <2>4. last = i BY <2>1, <2>2, <2>3
  <2>5. ends # {} BY <2>1
  <2>6. JoinedBy(line, i + 1) = KindOf(line[last]) BY <1>2, <2>5 DEF LastOf, last
  <2>7. QED BY <1>4, <2>4, <2>6
<1>5. QED BY <1>3, <1>4

\* The words of a line are tokens, and a line of one kind has one operator.
LEMMA LineTokens ==
  ASSUME NEW line \in Seq(Tokens)
  PROVE  Len(line) \in Nat /\ \A i \in 1 .. Len(line) : line[i] \in Tokens
OBVIOUS

LEMMA SameKind ==
  ASSUME NEW line \in Seq(Tokens), OneKind(line),
         NEW i \in 1 .. Len(line), line[i] # "w", NEW j \in 1 .. Len(line), line[j] # "w"
  PROVE  KindOf(line[i]) = KindOf(line[j])
<1> DEFINE x == KindOf(line[i])
           y == KindOf(line[j])
<1>1. x \in Kinds(line) /\ y \in Kinds(line) BY DEF Kinds, KindOf
<1>2. \A h \in 1 .. Len(line) : line[h] \in Tokens BY LineTokens
<1>3. Kinds(line) \subseteq Operators BY <1>2 DEF Kinds, Tokens, Operators
<1> HIDE DEF x, y
<1>4. IsFiniteSet(Operators)
  <2>1. IsFiniteSet({";"} \union {"&&"}) BY FS_Singleton, FS_AddElement
  <2> DEFINE two == {";"} \union {"&&"}
  <2> HIDE DEF two
  <2>2. IsFiniteSet(two \union {"||"}) BY <2>1, FS_AddElement DEF two
  <2>3. two \union {"||"} = Operators BY DEF two, Operators
  <2>4. QED BY <2>2, <2>3
<1>5. IsFiniteSet(Kinds(line)) BY <1>3, <1>4, FS_Subset
<1>6. SUFFICES ASSUME x # y PROVE FALSE BY DEF x, y
<1>7. IsFiniteSet({x}) /\ Cardinality({x}) = 1 BY FS_Singleton
<1>8. Cardinality({x} \union {y}) = 2
  <2>1. y \notin {x} BY <1>6
  <2> DEFINE one == {x}
  <2>2. IsFiniteSet(one) /\ Cardinality(one) = 1 /\ y \notin one BY <1>7, <2>1
  <2> HIDE DEF one
  <2>3. Cardinality(one \union {y}) = Cardinality(one) + 1 BY <2>2, FS_AddElement
  <2>4. Cardinality(one \union {y}) = 2 BY <2>2, <2>3
  <2>5. QED BY <2>4 DEF one
<1> DEFINE both == {x} \union {y}
<1>9. both \in SUBSET Kinds(line) BY <1>1
<1> HIDE DEF both
<1>10. Cardinality(both) <= Cardinality(Kinds(line)) BY <1>5, <1>9, FS_Subset
<1>11. QED
  <2>1. Cardinality(both) = 2 BY <1>8 DEF both
  <2>2. Cardinality(Kinds(line)) <= 1 BY DEF OneKind
  <2>3. Cardinality(Kinds(line)) \in Nat BY <1>5, FS_CardinalityType
  <2>4. QED BY <1>10, <2>1, <2>2, <2>3

\* From one word to the next: nothing ends; or a command ends, and may run.
LEMMA NothingEnds ==
  ASSUME NEW line, NEW fails, Len(line) \in Nat, NEW i \in 1 .. Len(line),
         ~EndsCommand(line, i)
  PROVE  StatusAfter(line, fails)[i] = StatusAfter(line, fails)[i - 1]
BY StatusIs DEF Continued

LEMMA CommandEnds ==
  ASSUME NEW line, NEW fails, Len(line) \in Nat, NEW i \in 1 .. Len(line),
         EndsCommand(line, i), NEW s, StatusAfter(line, fails)[i - 1] = s,
         LetsRun(JoinedBy(line, i), s.code)
  PROVE  StatusAfter(line, fails)[i] =
           [ran |-> Append(s.ran, i), code |-> IF i \in fails THEN 1 ELSE 0]
BY StatusIs DEF Continued

\* When handleShellCmd returns at an operator, of a line that has no other, the
\* shell skips the rest as well.
LEMMA RestSkipped ==
  ASSUME NEW line \in Seq(Tokens), NEW fails, OneKind(line), NEW n \in 1 .. Len(line),
         line[n] # "w", Returns(line[n], StatusAfter(line, fails)[n].code)
  PROVE  StatusAfter(line, fails)[Len(line)] = StatusAfter(line, fails)[n]
<1> DEFINE at == StatusAfter(line, fails)
           S == {i \in Nat : at[i] = at[n] /\ JoinedBy(line, i + 1) = line[n]}
<1>1. Len(line) \in Nat /\ n \in Nat BY LineTokens
<1>2. \A i \in 1 .. Len(line) : at[i] = Continued(line, fails, i, at[i - 1])
  BY <1>1, StatusIs
<1>3. line[n] \in {"&&", "||"} /\ ~LetsRun(line[n], at[n].code) /\ KindOf(line[n]) = line[n]
  BY DEF Returns, LetsRun, KindOf
<1> HIDE DEF at
<1>4. n \in S
  <2>1. n \in Nat \ {0} BY <1>1
  <2>2. JoinedBy(line, n + 1) = IF line[n] = "w" THEN JoinedBy(line, n) ELSE KindOf(line[n])
    BY <2>1, JoinedNext
  <2>3. QED BY <1>1, <1>3, <2>2
<1>5. ASSUME NEW i \in n .. Len(line) - 1, i \in S PROVE i + 1 \in S
  <2>1. i + 1 \in 1 .. Len(line) /\ (i + 1) - 1 = i /\ i + 1 \in Nat \ {0} BY <1>1
  <2>2. at[i + 1] = Continued(line, fails, i + 1, at[i]) BY <1>2, <2>1
  <2>3. at[i] = at[n] /\ JoinedBy(line, i + 1) = line[n] BY <1>5
  <2>4. at[i + 1] = at[n] BY <1>3, <2>2, <2>3 DEF Continued
  <2> DEFINE l == i + 1
  <2>5. l \in 1 .. Len(line) /\ l \in Nat \ {0} /\ JoinedBy(line, l) = line[n] /\ at[l] = at[n]
    BY <2>1, <2>3, <2>4
  <2> HIDE DEF l
  <2>6. JoinedBy(line, l + 1) = line[n]
    <3>1. CASE line[l] = "w" BY <2>5, <3>1, JoinedNext
    <3>2. CASE line[l] # "w"
      <4>1. KindOf(line[l]) = KindOf(line[n]) BY <2>5, <3>2, SameKind
      <4>2. QED BY <1>3, <2>5, <3>2, <4>1, JoinedNext
    <3>3. QED BY <3>1, <3>2
  <2>7. l \in S BY <2>5, <2>6
  <2>8. QED BY <2>7 DEF l
<1> HIDE DEF S
<1>6. \A i \in n .. Len(line) : i \in S BY <1>1, <1>4, <1>5, FromThenOn
<1>7. Len(line) \in S BY <1>1, <1>6
<1>8. QED BY <1>7 DEF S, at

\* Between the words a command line has run what a shell has, and the next command
\* is one that a shell runs.
StatusOf(c, i) == StatusAfter(Line(c), req[c].fails)[i]
RunsLike(c) ==
  LET sh == ShellRuns(Line(c), req[c].fails)
  IN /\ Begins(ran[c], sh.ran)
     /\ OneKind(Line(c)) => ran[c] = sh.ran /\ code[c] = sh.code

FollowsOf(c) ==
  req[c].op = "shell" =>
    /\ pc[c] \in {"new", "start"} => ran[c] = <<>> /\ code[c] = 0
    /\ pc[c] = "shell" =>
         /\ StatusOf(c, IF cursor[c].args THEN cursor[c].i - 1 ELSE cursor[c].i) =
              [ran |-> ran[c], code |-> code[c]]
         /\ LetsRun(JoinedBy(Line(c), cursor[c].i + 1), code[c])
    /\ pc[c] \in {"fin", "done"} => RunsLike(c)

Follows == \A c \in Commands : FollowsOf(c)

LEMMA RanFrame ==
  ASSUME IInv, NEW c \in Commands, Step(c), NEW d \in Commands, c # d
  PROVE  ran'[d] = ran[d]
BY DEF IInv, TypeOK, Step, Receive, Start, StartPanics, StartFails, Fin, Panic, Shell, Word,
       RunSimple, RunNothing, RunLast, Download, GetData, GetDataFails, Tee, TeeFails,
       TeeUnzip, Stat, UploadStep, MakeArchive, MakeArchiveFails, Cat, UploadFails, Upload,
       RemoveArchive, ResizePty, Check, Resize, ResizeNil, ReadCollides, runVars

LEMMA OthersRan ==
  ASSUME [Next]_vars, ~ \E c \in Commands : Step(c)
  PROVE  ran' = ran
BY DEF Next, Pty, Change, Register, Unregister, Collide, vars, runVars

\* What stands before the cursor, and what the shell has made of it.
LEMMA WordFollows ==
  ASSUME IInv, ArgsKnown, NEW c \in Commands, FollowsOf(c), req[c].op = "shell", req' = req,
         Word(c)
  PROVE  FollowsOf(c)'
<1> DEFINE line == Line(c)
           i == cursor[c].i
<1>1. Len(line) \in Nat /\ i \in Nat BY Asked DEF IInv, TypeOK, Line
<1>2. /\ pc[c] = "shell" /\ pc'[c] = "shell" /\ i # Len(line) /\ line[i + 1] = "w"
      /\ cursor'[c] = [i |-> i + 1, args |-> TRUE] /\ UNCHANGED <<code, ran>>
  BY DEF Word, Go, AtEnd, Token, Read, IInv, TypeOK
<1>3. i <= Len(line) /\ (cursor[c].args <=> i > 0 /\ line[i] = "w")
  BY <1>2 DEF ArgsKnown, ArgsKnownOf
<1>4. i + 1 \in 1 .. Len(line) /\ i + 1 \in Nat \ {0} BY <1>1, <1>2, <1>3
<1>5. StatusOf(c, i) = [ran |-> ran[c], code |-> code[c]]
  <2>1. CASE cursor[c].args
    <3>1. i \in 1 .. Len(line) /\ ~EndsCommand(line, i)
      <4>1. i \in 1 .. Len(line) /\ line[i] = "w" BY <1>1, <1>3, <2>1
      <4>2. i # Len(line) /\ line[i + 1] \notin Operators BY <1>2 DEF Operators
      <4> HIDE DEF i, line
      <4>3. ~EndsCommand(line, i) BY <4>1, <4>2 DEF EndsCommand
      <4>4. QED BY <4>1, <4>3
    <3>2. StatusOf(c, i) = StatusOf(c, i - 1) BY <1>1, <3>1, NothingEnds DEF StatusOf
    <3>3. QED BY <1>2, <2>1, <3>2 DEF FollowsOf
  <2>2. CASE ~cursor[c].args BY <1>2, <2>2 DEF FollowsOf
  <2>3. QED BY <2>1, <2>2
<1>6. LetsRun(JoinedBy(line, i + 1), code[c]) BY <1>2 DEF FollowsOf
<1> DEFINE l == i + 1
<1> HIDE DEF line
<1>7. JoinedBy(line, l + 1) = JoinedBy(line, l) BY <1>2, <1>4, JoinedNext
<1>8. Line(c)' = line BY DEF Line, line
<1>9. /\ (cursor'[c].i) - 1 = i /\ cursor'[c].args /\ cursor'[c].i + 1 = l + 1
  BY <1>1, <1>2
<1>10. QED
  <2>1. StatusAfter(Line(c)', req'[c].fails)[i] = [ran |-> ran'[c], code |-> code'[c]]
    BY <1>2, <1>5, <1>8 DEF StatusOf, line
  <2>2. LetsRun(JoinedBy(Line(c)', l + 1), code'[c]) BY <1>2, <1>6, <1>7, <1>8
  <2> HIDE DEF l
  <2>3. QED BY <1>2, <1>9, <2>1, <2>2 DEF FollowsOf, StatusOf

LEMMA SimpleFollows ==
  ASSUME IInv, ArgsKnown, NEW c \in Commands, FollowsOf(c), req[c].op = "shell", req' = req,
         RunSimple(c)
  PROVE  FollowsOf(c)'
<1> DEFINE line == Line(c)
           i == cursor[c].i
           fails == req[c].fails
           n == IF Token(c) = "w;" THEN i + 1 ELSE i
           at == StatusAfter(line, fails)
<1>1. Len(line) \in Nat /\ i \in Nat /\ line \in Seq(Tokens)
  <2>1. Len(line) \in Nat BY Asked DEF IInv, Line
  <2>2. i \in Nat BY DEF IInv, TypeOK
  <2>3. line \in Seq(Tokens) BY DEF IInv, TypeOK, IsRequest, Line
  <2>4. QED BY <2>1, <2>2, <2>3
<1>2. /\ pc[c] = "shell" /\ i # Len(line) /\ line[i + 1] # "w" /\ Token(c) = line[i + 1]
      /\ line[i + 1] \in Operators => cursor[c].args
      /\ pc'[c] = IF Returns(line[i + 1], Fate(c, n)) THEN "fin" ELSE "shell"
      /\ code'[c] = Fate(c, n) /\ ran'[c] = Append(ran[c], n)
      /\ cursor'[c] = [i |-> i + 1, args |-> FALSE]
  BY DEF RunSimple, Go, AtEnd, Token, Read, IInv, TypeOK
<1>3. i <= Len(line) /\ (cursor[c].args <=> i > 0 /\ line[i] = "w")
  BY <1>2 DEF ArgsKnown, ArgsKnownOf
<1> DEFINE l == i + 1
<1>4. l \in 1 .. Len(line) /\ l \in Nat \ {0} /\ l - 1 = i
  <2>1. i # Len(line) BY <1>2
  <2> HIDE DEF i
  <2>2. QED BY <1>1, <1>3, <2>1
<1>5. line[l] \in {"w;"} \union Operators
  <2>1. line[l] \in Tokens BY <1>1, <1>4, LineTokens
  <2>2. QED BY <1>2, <2>1 DEF Tokens
<1> DEFINE s == [ran |-> ran[c], code |-> code[c]]
           t == [ran |-> Append(ran[c], n), code |-> Fate(c, n)]
<1>6. at[IF cursor[c].args THEN i - 1 ELSE i] = s /\ LetsRun(JoinedBy(line, l), code[c])
  BY <1>2 DEF FollowsOf, StatusOf
<1>7. s.ran = ran[c] /\ s.code = code[c] /\ Fate(c, n) = IF n \in fails THEN 1 ELSE 0
  BY DEF Fate
<1> HIDE DEF line, fails
<1>8. at[l] = t
  <2>1. CASE line[l] = "w;"
    <3>1. n = l /\ l - 1 = i
      <4>1. n = IF line[l] = "w;" THEN l ELSE i BY <1>2
      <4>2. QED BY <1>4, <2>1, <4>1
    <3>2. at[i] = s
      <4>1. CASE cursor[c].args
        <5>1. i \in 1 .. Len(line) /\ line[i] = "w" /\ (i + 1) = l BY <1>1, <1>3, <4>1
        <5>2. i # Len(line) /\ line[i + 1] \notin Operators BY <1>2, <2>1 DEF Operators
        <5> HIDE DEF i, s, t, at, l
        <5>3. ~EndsCommand(line, i) BY <5>1, <5>2 DEF EndsCommand
        <5>4. at[i] = at[i - 1] BY <1>1, <5>1, <5>3, NothingEnds DEF at
        <5>5. QED BY <1>6, <4>1, <5>4
      <4>2. CASE ~cursor[c].args BY <1>6, <4>2
      <4>3. QED BY <4>1, <4>2
    <3>3. EndsCommand(line, l) BY <2>1 DEF EndsCommand
    <3> HIDE DEF i, l, s, n, at
    <3>4. LetsRun(JoinedBy(line, l), s.code) /\ at[l - 1] = s BY <1>6, <1>7, <3>1, <3>2
    <3>5. at[l] = [ran |-> Append(s.ran, l), code |-> IF l \in fails THEN 1 ELSE 0]
      <4>1. Len(line) \in Nat /\ l \in 1 .. Len(line) BY <1>1, <1>4
      <4>2. at[l] = Continued(line, fails, l, at[l - 1]) BY <4>1, StatusIs DEF at
      <4>3. QED BY <3>3, <3>4, <4>2 DEF Continued
    <3>6. QED BY <1>7, <3>1, <3>5
  <2>2. CASE line[l] \in Operators
    <3>1. n = i /\ l - 1 = i /\ cursor[c].args /\ i \in 1 .. Len(line) /\ line[i] = "w"
      <4>1. cursor[c].args BY <1>2, <2>2
      <4>2. n = IF line[l] = "w;" THEN l ELSE i BY <1>2
      <4>3. n = i BY <2>2, <4>2 DEF Operators
      <4> HIDE DEF n, i
      <4>4. QED BY <1>1, <1>3, <1>4, <4>1, <4>3
    <3>2. at[i - 1] = s BY <1>6, <3>1
    <3>3. EndsCommand(line, i) BY <2>2, <3>1 DEF EndsCommand
    <3>4. JoinedBy(line, i) = JoinedBy(line, l)
      <4> HIDE DEF i, l, n, s, t, at
      <4>1. i \in Nat \ {0} /\ line[i] = "w" BY <1>1, <3>1
      <4>2. QED BY <4>1, JoinedNext DEF l
    <3>5. ~EndsCommand(line, l) BY <2>2 DEF EndsCommand, Operators
    <3> HIDE DEF i, l, s, n, at
    <3>6. LetsRun(JoinedBy(line, i), s.code) /\ at[i - 1] = s BY <1>6, <1>7, <3>2, <3>4
    <3>7. at[i] = [ran |-> Append(s.ran, i), code |-> IF i \in fails THEN 1 ELSE 0]
      <4>1. at[i] = Continued(line, fails, i, at[i - 1]) BY <1>1, <3>1, StatusIs DEF at
      <4>2. QED BY <3>3, <3>6, <4>1 DEF Continued
    <3>8. at[l] = at[l - 1] BY <1>1, <1>4, <3>5, NothingEnds DEF at
    <3>9. QED BY <1>7, <3>1, <3>7, <3>8
  <2>3. QED BY <1>5, <2>1, <2>2
<1>9. t.ran = ran'[c] /\ t.code = code'[c] /\ t = [ran |-> ran'[c], code |-> code'[c]]
  BY <1>2
<1>10. Line(c)' = line /\ req'[c].fails = fails BY DEF Line, line, fails
<1> HIDE DEF i, n
<1>11. /\ cursor'[c].i = l /\ ~cursor'[c].args /\ line[l] # "w" /\ code'[c] = t.code
       /\ pc'[c] = IF Returns(line[l], t.code) THEN "fin" ELSE "shell"
  BY <1>2 DEF l, t
<1> HIDE DEF l, t, s
<1>12. CASE Returns(line[l], t.code)
  <2>1. Begins(t.ran, ShellRuns(line, fails).ran)
    <3>1. l \in 0 .. Len(line) BY <1>1, <1>4
    <3>2. QED BY <1>1, <1>8, <3>1, StatusBegins
  <2>2. OneKind(line) => ShellRuns(line, fails) = t
    BY <1>1, <1>4, <1>8, <1>11, <1>12, RestSkipped DEF ShellRuns
  <2>3. RunsLike(c)' BY <1>9, <1>10, <2>1, <2>2 DEF RunsLike
  <2>4. QED BY <1>11, <1>12, <2>3 DEF FollowsOf
<1>13. CASE ~Returns(line[l], t.code)
  <2>1. JoinedBy(line, l + 1) = KindOf(line[l]) BY <1>4, <1>11, JoinedNext
  <2>2. LetsRun(KindOf(line[l]), t.code)
    BY <1>5, <1>13 DEF LetsRun, KindOf, Returns, Operators
  <2>3. QED BY <1>8, <1>9, <1>10, <1>11, <1>13, <2>1, <2>2 DEF FollowsOf, StatusOf
<1>14. QED BY <1>12, <1>13

LEMMA LastFollows ==
  ASSUME IInv, ArgsKnown, NEW c \in Commands, FollowsOf(c), req[c].op = "shell", req' = req,
         RunLast(c)
  PROVE  FollowsOf(c)'
<1> DEFINE line == Line(c)
           fails == req[c].fails
           n == Len(line)
           at == StatusAfter(line, fails)
           s == [ran |-> ran[c], code |-> code[c]]
           t == [ran |-> Append(ran[c], n), code |-> IF n \in fails THEN 1 ELSE 0]
<1>1. n \in Nat BY Asked DEF IInv, Line
<1>2. /\ pc[c] = "shell" /\ pc'[c] = "fin" /\ cursor[c].i = n
      /\ cursor[c].args => ran'[c] = t.ran /\ code'[c] = t.code
      /\ ~cursor[c].args => UNCHANGED <<code, ran>>
  BY DEF RunLast, Go, AtEnd, Fate, IInv, TypeOK
<1>3. cursor[c].args <=> n > 0 /\ line[n] = "w"
  BY <1>2 DEF ArgsKnown, ArgsKnownOf
<1>4. at[IF cursor[c].args THEN n - 1 ELSE n] = s /\ LetsRun(JoinedBy(line, n + 1), code[c])
  BY <1>2 DEF FollowsOf, StatusOf
<1>5. Line(c)' = line /\ req'[c].fails = fails BY DEF Line
<1>6. s.ran = ran[c] /\ s.code = code[c] OBVIOUS
<1> HIDE DEF line, fails, s
<1>7. ran'[c] = at[n].ran /\ code'[c] = at[n].code
  <2>1. CASE cursor[c].args
    <3>1. n \in 1 .. Len(line) /\ n \in Nat \ {0} /\ line[n] = "w" BY <1>1, <1>3, <2>1
    <3>2. EndsCommand(line, n) BY <3>1 DEF EndsCommand
    <3>3. JoinedBy(line, n + 1) = JoinedBy(line, n) BY <1>3, <2>1, <3>1, JoinedNext
    <3>4. at[n - 1] = s /\ LetsRun(JoinedBy(line, n), s.code)
      BY <1>4, <1>6, <2>1, <3>3
    <3>5. at[n] = [ran |-> Append(s.ran, n), code |-> IF n \in fails THEN 1 ELSE 0]
      BY <1>1, <3>1, <3>4, <3>2, CommandEnds
    <3>6. QED BY <1>2, <1>6, <2>1, <3>5
  <2>2. CASE ~cursor[c].args BY <1>2, <1>4, <1>6, <2>2
  <2>3. QED BY <2>1, <2>2
<1>8. Begins(at[n].ran, ShellRuns(line, fails).ran)
  <2>1. n \in 0 .. Len(line) BY <1>1
  <2>2. QED BY <1>1, <2>1, StatusBegins
<1>9. RunsLike(c)' BY <1>5, <1>7, <1>8 DEF RunsLike, ShellRuns
<1>10. QED BY <1>2, <1>9 DEF FollowsOf

LEMMA FollowsStep == IInv /\ ArgsKnown /\ Follows /\ [Next]_vars => Follows'
<1> SUFFICES ASSUME IInv, ArgsKnown, Follows, [Next]_vars, NEW d \in Commands
             PROVE  FollowsOf(d)'
  BY DEF Follows
<1>1. FollowsOf(d) /\ req' = req BY ReqFrame DEF Follows
<1>2. CASE Mine(d)' = Mine(d) /\ ran'[d] = ran[d]
  <2>1. pc'[d] = pc[d] /\ code'[d] = code[d] /\ cursor'[d] = cursor[d] BY <1>2 DEF Mine
  <2>2. RunsLike(d)' <=> RunsLike(d) BY <1>1, <1>2, <2>1 DEF RunsLike, Line
  <2>3. QED BY <1>1, <1>2, <2>1, <2>2 DEF FollowsOf, StatusOf, Line
<1>3. CASE req[d].op = "shell" /\ Step(d)
  <2>1. CASE Receive(d)
    BY <1>1, <2>1 DEF Receive, Go, runVars, FollowsOf, IInv, TypeOK
  <2>2. CASE Start(d)
    <3>1. /\ pc[d] = "start" /\ pc'[d] = "shell" /\ UNCHANGED <<code, cursor, ran>>
      BY <1>3, <2>2 DEF Start, Go, Enters, runVars, IInv, TypeOK
    <3>2. ran[d] = <<>> /\ code[d] = 0 BY <1>1, <1>3, <3>1 DEF FollowsOf
    <3>3. cursor[d] = [i |-> 0, args |-> FALSE] BY <1>3, <3>1 DEF ArgsKnown, ArgsKnownOf
    <3>4. Len(Line(d)) \in Nat BY <1>3, Asked DEF IInv, Line
    <3>5. StatusOf(d, 0) = [ran |-> <<>>, code |-> 0] BY <3>4, StatusIs DEF StatusOf, Nothing
    <3>6. LetsRun(JoinedBy(Line(d), 0 + 1), code[d])
      <4>1. 0 + 1 = 1 OBVIOUS
      <4>2. JoinedBy(Line(d), 0 + 1) = ";" BY <4>1, JoinedFirst
      <4>3. QED BY <4>2 DEF LetsRun
    <3>7. Line(d)' = Line(d) /\ StatusOf(d, 0)' = StatusOf(d, 0) BY <1>1 DEF Line, StatusOf
    <3>8. QED BY <3>1, <3>2, <3>3, <3>5, <3>6, <3>7 DEF FollowsOf
  <2>3. CASE StartPanics(d) \/ StartFails(d)
    BY <1>1, <1>3, <2>3 DEF StartPanics, StartFails, NeedsOperand
  <2>4. CASE Fin(d)
    <3>1. pc[d] = "fin" /\ pc'[d] = "done" /\ UNCHANGED <<code, ran>>
      BY <2>4 DEF Fin, Go, runVars, IInv, TypeOK
    <3>2. RunsLike(d)' <=> RunsLike(d) BY <1>1, <3>1 DEF RunsLike, Line
    <3>3. QED BY <1>1, <3>1, <3>2 DEF FollowsOf
  <2>5. CASE Word(d) BY <1>1, <1>3, <2>5, WordFollows
  <2>6. CASE RunSimple(d) BY <1>1, <1>3, <2>6, SimpleFollows
  <2>7. CASE RunLast(d) BY <1>1, <1>3, <2>7, LastFollows
  <2>8. CASE RunNothing(d)
    <3>1. Mine(d)' = Mine(d) /\ ran'[d] = ran[d]
      BY <2>8 DEF RunNothing, Panic, Mine, runVars, postVars, fileVars
    <3>2. QED BY <1>2, <3>1
  <2>9. QED
    BY <1>3, <2>1, <2>2, <2>3, <2>4, <2>5, <2>6, <2>7, <2>8
       DEF Step, Shell, Download, UploadStep, ResizePty
<1>4. CASE req[d].op # "shell" BY <1>1, <1>4 DEF FollowsOf
<1>5. QED BY <1>2, <1>3, <1>4, Frame, RanFrame, OthersFrame, OthersRan

-----------------------------------------------------------------------------
Parts == ArgsKnown /\ Registry /\ PanicExplained /\ Permitted /\ RemovesArchives
           /\ NoResidue /\ Reports /\ Answered /\ Follows

LEMMA InitParts == Init => Parts
<1> SUFFICES ASSUME Init PROVE Parts
  OBVIOUS
<1> USE DEF Init
<1>1. IInv BY InitTypes
<1>2. ArgsKnown BY DEF ArgsKnown, ArgsKnownOf
<1>3. Registry
  <2>1. \A c \in Commands : req[c].op = "openpty" => session[req[c].session] = "none"
    BY <1>1, Asked
  <2>2. QED BY <2>1 DEF Registry
<1>4. PanicExplained BY DEF PanicExplained
<1>5. Permitted /\ RemovesArchives BY DEF Permitted, RemovesArchives
<1>6. NoResidue BY NamesAssumption DEF NoResidue
<1>7. Reports BY DEF Reports, ReportsOf
<1>8. Follows BY DEF Follows, FollowsOf
<1>10. Answered BY DEF Answered, AnsweredOf
<1>9. QED BY <1>2, <1>3, <1>4, <1>5, <1>6, <1>7, <1>8, <1>10 DEF Parts

LEMMA Invariance == Spec => [](IInv /\ Parts)
<1>1. IInv /\ Parts /\ [Next]_vars => (IInv /\ Parts)'
  BY NextTypes, ArgsStep, RegistryStep, PanicStep, PermittedStep, NoResidueStep, ReportsStep,
     AnsweredStep, FollowsStep DEF Parts
<1>2. QED BY <1>1, InitTypes, InitParts, PTL DEF Spec

\* Every variable has its type, whatever the console asks for.
THEOREM CommandTypes == Spec => []TypeOK
<1>1. IInv => TypeOK BY DEF IInv
<1>2. QED BY <1>1, Invariance, PTL

\* Of any command line that the shell accepts, of any length and whatever fails, the
\* code runs what the shell runs, up to a return at "&&" or "||"; with operators of
\* one kind it runs all of it and ends with the same code.
THEOREM ShellTheorem == Spec => []LikeAShell
<1>1. Parts => LikeAShell
  BY DEF Parts, Follows, FollowsOf, RunsLike, Begins, LikeAShell
<1>2. QED BY <1>1, Invariance, PTL

\* A command can end the agent in the ways that PanicExplained lists, and in no
\* other, with any number of commands and sessions.
THEOREM PanicTheorem == Spec => []PanicExplained
<1>1. Parts => PanicExplained BY DEF Parts
<1>2. QED BY <1>1, Invariance, PTL

\* Of a download that is over, of any number of files, each file that is not to be
\* unzipped has been reported as it went: a success if it arrived, and a failure if
\* it did not, unless the download failed before its first file, when its only
\* report is the answer, of failure, if the command has an ID.
THEOREM ReportTheorem == Spec => []FailureReported
<1>1. IInv /\ Parts => FailureReported
  <2> SUFFICES ASSUME IInv, Parts, NEW c \in Commands, req[c].op = "download",
                      pc[c] = "done", NEW n \in DOMAIN req[c].files,
                      ~req[c].files[n].unzip
               PROVE  IF n \in done[c] THEN Reported(c, n, 0)
                      ELSE \/ Reported(c, n, 1)
                           \/ stats[c] = <<>> /\ (req[c].id => fin[c] = <<1>>)
    BY DEF FailureReported
  <2>1. DOMAIN req[c].files = 1 .. Len(req[c].files) /\ stats[c] \in Seq({0, 1})
    BY Asked DEF IInv, TypeOK
  <2>2. ReportsOf(c) BY DEF Parts, Reports
  <2>3. CASE Refusal(c)
    <3>1. fin[c] = Answer(c) BY DEF Parts, Answered, AnsweredOf
    <3>2. QED BY <2>3, <3>1 DEF Refusal, Answer
  <2>4. CASE ~Refusal(c)
    <3>1. Len(stats[c]) = Len(req[c].files) /\ Truthful(c, n) BY <2>2, <2>4 DEF ReportsOf
    <3>2. n \in DOMAIN stats[c] BY <2>1, <3>1
    <3>3. QED BY <3>1, <3>2 DEF Truthful, Reported
  <2>5. QED BY <2>3, <2>4
<1>2. QED BY <1>1, Invariance, PTL

\* No archive that zip has completed outlives its upload, also when several uploads
\* share its name; any other archive that stays is that of an upload whose zip
\* failed, and which has failed itself.
THEOREM ResidueTheorem == Spec => []NoResidue
<1>1. Parts => NoResidue BY DEF Parts
<1>2. QED BY <1>1, Invariance, PTL

\* A file of the user is replaced or removed only where the console allowed it.
THEOREM KeptTheorem == Spec => UserFilesKept
<1>1. IInv /\ Parts /\ [Next]_vars =>
        [\A p \in Paths : files[p] = "user" /\ files'[p] # "user" =>
           \E c \in Commands :
             \/ /\ req[c].op = "download" /\ pc[c] = "tee"
                /\ File(c).overwrite /\ p = File(c).path
             \/ Makes(c, p)]_vars
  BY KeptStep DEF Parts
<1>2. QED BY <1>1, Invariance, PTL DEF Spec, UserFilesKept
=============================================================================
