--------------------------- MODULE CommandRunner ---------------------------
(***************************************************************************)
(* pkg/runner/command.go, shell.go and the registry of terminals of        *)
(* pty.go: what happens to a command of the console from its               *)
(* acknowledgement to its answer.  Each command runs in a goroutine of its *)
(* own and starts programs on the host; nothing orders the goroutines.     *)
(*                                                                         *)
(* Commands that end or restart the agent are in Agent, user and group     *)
(* commands and synchronisations in CommitSync.                            *)
(***************************************************************************)
EXTENDS Integers, FiniteSets, Sequences

CONSTANTS Commands,
          Sessions,   \* Websh sessions
          Workloads,  \* what the console may ask: functions on Commands
          Paths,      \* files of the host, besides archives of several files
          None

ASSUME NamesAssumption ==
  /\ Paths \intersect Commands = {} /\ None \notin Paths \union Commands
  /\ {"user", "archive", "partial"} \intersect (Commands \union {None}) = {}

VARIABLES
  req,        \* what each command asks for
  alive,      \* whether the agent has not panicked
  pc,         \* where each command's goroutine is
  code,       \* its exit code: 0, or 1 for any other
  cursor,     \* a command line: tokens read, and whether args is not empty
  ran,        \* history: the simple commands it has run
  k,          \* a transfer: the file it is at
  acked,      \* the commands whose acknowledgement is posted
  fin,        \* the answers posted, in order
  stats,      \* the file reports posted, in order
  done,       \* history: the files that have been transferred
  files,      \* who wrote each file
  session,    \* where the goroutine of each session is
  terminals,  \* the sessions registered
  writing     \* the sessions that are writing to the map terminals

runVars == <<code, cursor, ran>>
postVars == <<acked, fin, stats>>
fileVars == <<k, done, files>>
ptyVars == <<session, terminals, writing>>
vars == <<req, alive, pc, runVars, postVars, fileVars, ptyVars>>

Go(c, from, to) == pc[c] = from /\ pc' = [pc EXCEPT ![c] = to]

\* The end of Run: exitCode is known, the answer is still to be posted.
Finish(c, from, exitCode) ==
  Go(c, from, "fin") /\ code' = [code EXCEPT ![c] = exitCode]

Panic(c, at) ==
  /\ pc[c] = at /\ alive' = FALSE
  /\ UNCHANGED <<req, pc, runVars, postVars, fileVars, ptyVars>>

-----------------------------------------------------------------------------
(* Acknowledgement and answer. *)

\* CommandRequestHandler posts the acknowledgement before the goroutine starts.
Receive(c) ==
  /\ Go(c, "new", "start")
  /\ acked' = acked \union {c}
  /\ UNCHANGED <<req, alive, runVars, fin, stats, fileVars, ptyVars>>

\* A command without an ID gets no answer.
Answer(c) == IF req[c].id THEN <<code[c]>> ELSE <<>>

Fin(c) ==
  /\ Go(c, "fin", "done")
  /\ fin' = [fin EXCEPT ![c] = @ \o Answer(c)]
  /\ UNCHANGED <<req, alive, runVars, acked, stats, fileVars, ptyVars>>

\* Run and handleInternalCmd branch on the command.
Enters(op) == CASE op = "shell" -> "shell"
                [] op = "download" -> "get"
                [] op = "upload" -> "zip"
                [] op = "openpty" -> "fin"
                [] op = "resizepty" -> "check"
                [] op = "other" -> "fin"

\* args[1] of "download" and "upload" is read without looking whether it is there.
NeedsOperand(c) == req[c].op \in {"download", "upload"} /\ ~req[c].operand

\* The console gives each session an ID of its own.
Start(c) ==
  /\ ~NeedsOperand(c)
  /\ Go(c, "start", Enters(req[c].op))
  /\ session' = IF req[c].op = "openpty"
                  THEN [session EXCEPT ![req[c].session] = "opening"]
                  ELSE session
  /\ UNCHANGED <<req, alive, runVars, postVars, fileVars, terminals, writing>>

StartPanics(c) == NeedsOperand(c) /\ Panic(c, "start")

\* An unknown shell or command, an empty line, missing data, a program or user
\* that is not there.
StartFails(c) ==
  /\ ~NeedsOperand(c)
  /\ IF req[c].op = "upload"
       THEN Go(c, "start", "stat") /\ code' = [code EXCEPT ![c] = 1]
       ELSE Finish(c, "start", 1)
  /\ req[c].op \in {"download", "upload", "openpty", "other"}
  /\ UNCHANGED <<req, alive, cursor, ran, postVars, fileVars, ptyVars>>

-----------------------------------------------------------------------------
(* handleShellCmd.  A line is a sequence of the words the code splits it    *)
(* into: "w" is a word of a command, "w;" one that ends in a semicolon.  A  *)
(* simple command goes by the position of its last word; req.fails has      *)
(* those that fail.                                                         *)

Operators == {";", "&&", "||"}
Line(c) == req[c].line
Token(c) == Line(c)[cursor[c].i + 1]
AtEnd(c) == cursor[c].i = Len(Line(c))
Fate(c, n) == IF n \in req[c].fails THEN 1 ELSE 0

Read(c, args) == cursor' = [cursor EXCEPT ![c] = [i |-> @.i + 1, args |-> args]]

Word(c) ==
  /\ Go(c, "shell", "shell")
  /\ ~AtEnd(c) /\ Token(c) = "w"
  /\ Read(c, TRUE)
  /\ UNCHANGED <<req, alive, code, ran, postVars, fileVars, ptyVars>>

\* Faulty variant of Returns: after a success, "||" goes on like ";".
ReturnsOnFailure(token, exitCode) == token = "&&" /\ exitCode # 0

Returns(token, exitCode) ==
  (token = "&&" /\ exitCode # 0) \/ (token = "||" /\ exitCode = 0)

\* An operator, or a word that ends in ";", runs what stands before it.
RunSimple(c) ==
  LET n == IF Token(c) = "w;" THEN cursor[c].i + 1 ELSE cursor[c].i
      exitCode == Fate(c, n)
  IN /\ ~AtEnd(c) /\ Token(c) # "w"
     /\ Token(c) \in Operators => cursor[c].args
     /\ Go(c, "shell", IF Returns(Token(c), exitCode) THEN "fin" ELSE "shell")
     /\ code' = [code EXCEPT ![c] = exitCode]
     /\ ran' = [ran EXCEPT ![c] = Append(@, n)]
     /\ Read(c, FALSE)
     /\ UNCHANGED <<req, alive, postVars, fileVars, ptyVars>>

\* runCmdWithOutput with no arguments reads args[0].
RunNothing(c) ==
  /\ ~AtEnd(c) /\ Token(c) \in Operators /\ ~cursor[c].args
  /\ Panic(c, "shell")

RunLast(c) ==
  /\ AtEnd(c) /\ Go(c, "shell", "fin")
  /\ IF cursor[c].args
       THEN /\ code' = [code EXCEPT ![c] = Fate(c, cursor[c].i)]
            /\ ran' = [ran EXCEPT ![c] = Append(@, cursor[c].i)]
       ELSE UNCHANGED <<code, ran>>
  /\ UNCHANGED <<req, alive, cursor, postVars, fileVars, ptyVars>>

Shell(c) == req[c].op = "shell" /\
            (Word(c) \/ RunSimple(c) \/ RunNothing(c) \/ RunLast(c))

-----------------------------------------------------------------------------
(* download: files of the console are written to the host, one after the    *)
(* other.                                                                   *)

File(c) == req[c].files[k[c]]
Transferred(c) == done' = [done EXCEPT ![c] = @ \union {k[c]}]

Outcome(c, from, exitCode) ==
  Go(c, from, "stat") /\ code' = [code EXCEPT ![c] = exitCode]

\* Faulty variant of Refused: allow_overwrite is taken to be set.
RefusedNever(c) == FALSE

\* isFileExist
Refused(c) == files[File(c).path] # None /\ ~File(c).overwrite

\* getFileData gives the content, and the path is free or may be overwritten.
GetData(c) ==
  /\ Go(c, "get", "tee")
  /\ ~Refused(c)
  /\ UNCHANGED <<req, alive, runVars, postVars, fileVars, ptyVars>>

\* There is no content (an answer that is not 2xx, bad base64, an unknown type),
\* or the path exists.
GetDataFails(c) ==
  /\ Outcome(c, "get", 1)
  /\ UNCHANGED <<req, alive, cursor, ran, postVars, fileVars, ptyVars>>

\* Without unzip: tee writes the file, or fails before or after it has begun to.
Tee(c) ==
  /\ ~File(c).unzip
  /\ Outcome(c, "tee", 0)
  /\ files' = [files EXCEPT ![File(c).path] = c] /\ Transferred(c)
  /\ UNCHANGED <<req, alive, cursor, ran, k, postVars, ptyVars>>

TeeFails(c) ==
  /\ ~File(c).unzip
  /\ Outcome(c, "tee", 1)
  /\ files' \in {files, [files EXCEPT ![File(c).path] = c]}
  /\ UNCHANGED <<req, alive, cursor, ran, k, done, postVars, ptyVars>>

\* tee p && unzip -n p; rm p: whatever fails, the exit code is that of rm.
TeeUnzip(c) ==
  /\ File(c).unzip
  /\ \E written, unpacked \in BOOLEAN, removed \in {0, 1} :
       LET p == File(c).path
           m == File(c).member
       IN /\ Outcome(c, "tee", removed)
          /\ unpacked => written
          /\ files[p] = None /\ ~written => removed = 1
          /\ files' = [files EXCEPT
                         ![m] = IF unpacked /\ @ = None THEN c ELSE @,
                         ![p] = IF removed = 0 THEN None
                                ELSE IF written THEN c ELSE @]
          /\ IF unpacked THEN Transferred(c) ELSE UNCHANGED done
  /\ UNCHANGED <<req, alive, cursor, ran, k, postVars, ptyVars>>

\* Faulty variant of IsLast: one file too many.
IsLastOffByOne(c) == req[c].op = "upload" \/ k[c] > Len(req[c].files)

IsLast(c) == req[c].op = "upload" \/ k[c] = Len(req[c].files)

\* Faulty variant of Report: a report only at the end.
ReportLast(c) == IF IsLast(c) THEN <<code[c]>> ELSE <<>>

Report(c) == <<code[c]>>

\* statFileTransfer; the code that is left is that of the last file.
Stat(c) ==
  /\ Go(c, "stat", IF IsLast(c) THEN "fin" ELSE "get")
  /\ stats' = [stats EXCEPT ![c] = @ \o Report(c)]
  /\ k' = [k EXCEPT ![c] = IF IsLast(c) THEN @ ELSE @ + 1]
  /\ UNCHANGED <<req, alive, runVars, acked, fin, done, files, ptyVars>>

Download(c) == req[c].op = "download" /\
  (GetData(c) \/ GetDataFails(c) \/ Tee(c) \/ TeeFails(c) \/ TeeUnzip(c) \/ Stat(c))

-----------------------------------------------------------------------------
(* upload: a file of the host, a directory or several files are sent.       *)

\* makeArchive: several files go into an archive with a name of its own, a
\* directory d into d.zip beside it, a file is sent as it is.
Sent(c) == IF req[c].source = "several" THEN c ELSE req[c].path
Archives(c) == req[c].source # "file"

\* zip adds to an archive that is there already.
MakeArchive(c) ==
  /\ Go(c, "zip", "cat")
  /\ files' = IF Archives(c) THEN [files EXCEPT ![Sent(c)] = "archive"] ELSE files
  /\ UNCHANGED <<req, alive, runVars, k, done, postVars, ptyVars>>

\* parsePaths fails, or zip, which may have written an archive all the same, as it
\* does when it cannot read one of the files.  The removal is not deferred yet.
MakeArchiveFails(c) ==
  /\ Outcome(c, "zip", 1)
  /\ \/ UNCHANGED files
     \/ Archives(c) /\ files' = [files EXCEPT ![Sent(c)] = "partial"]
  /\ UNCHANGED <<req, alive, cursor, ran, k, done, postVars, ptyVars>>

Cat(c) ==
  /\ Go(c, "cat", "send")
  /\ files[Sent(c)] # None
  /\ UNCHANGED <<req, alive, runVars, postVars, fileVars, ptyVars>>

\* Faulty variant of AfterFailure: the archive is removed only after a success.
AfterFailureStat(c) == "stat"

\* The deferred removal.
AfterFailure(c) == IF Archives(c) THEN "remove" ELSE "stat"

\* cat fails, or createMultipartBody, or the request, or the status is not 200.
UploadFails(c) ==
  /\ Go(c, "cat", AfterFailure(c)) \/ Go(c, "send", AfterFailure(c))
  /\ code' = [code EXCEPT ![c] = 1]
  /\ UNCHANGED <<req, alive, cursor, ran, postVars, fileVars, ptyVars>>

Upload(c) ==
  /\ Go(c, "send", IF Archives(c) THEN "remove" ELSE "stat")
  /\ code' = [code EXCEPT ![c] = 0] /\ Transferred(c)
  /\ UNCHANGED <<req, alive, cursor, ran, k, files, postVars, ptyVars>>

RemoveArchive(c) ==
  /\ Go(c, "remove", "stat")
  /\ files' = [files EXCEPT ![Sent(c)] = None]
  /\ UNCHANGED <<req, alive, runVars, k, done, postVars, ptyVars>>

UploadStep(c) == req[c].op = "upload" /\
  (MakeArchive(c) \/ MakeArchiveFails(c) \/ Cat(c) \/ UploadFails(c) \/ Upload(c)
     \/ RemoveArchive(c) \/ Stat(c))

-----------------------------------------------------------------------------
(* The registry of terminals, a map without a lock.  Go aborts a process it *)
(* catches reading or writing a map that is being written to.               *)

Session(s, from, to) ==
  session[s] = from /\ session' = [session EXCEPT ![s] = to]

OthersWrite(s) == writing \ {s} # {}

\* initializePtySession and close: the map is written to in the middle.  close
\* reads it first, and does not write if the session is not registered.
Change(s) ==
  /\ \/ Session(s, "opening", "registering") /\ writing' = writing \union {s}
     \/ Session(s, "opening", "closing") /\ UNCHANGED writing  \* no pty
     \/ Session(s, "open", "closing") /\ UNCHANGED writing     \* ptmx is closed
     \/ /\ s \in terminals
        /\ Session(s, "closing", "deleting") /\ writing' = writing \union {s}
     \/ s \notin terminals /\ Session(s, "closing", "over") /\ UNCHANGED writing
  /\ UNCHANGED <<req, alive, pc, runVars, postVars, fileVars, terminals>>

Register(s) ==
  /\ Session(s, "registering", "open")
  /\ terminals' = terminals \union {s} /\ writing' = writing \ {s}
  /\ UNCHANGED <<req, alive, pc, runVars, postVars, fileVars>>

Unregister(s) ==
  /\ Session(s, "deleting", "over")
  /\ terminals' = terminals \ {s} /\ writing' = writing \ {s}
  /\ UNCHANGED <<req, alive, pc, runVars, postVars, fileVars>>

\* Two write, or one writes while close of the other reads.
Collide(s) ==
  /\ s \in writing \/ session[s] = "closing"
  /\ OthersWrite(s)
  /\ alive' = FALSE
  /\ UNCHANGED <<req, pc, runVars, postVars, fileVars, ptyVars>>

Pty(s) == Change(s) \/ Register(s) \/ Unregister(s) \/ Collide(s)

\* Faulty variant of Registered: the session is not looked for.
RegisteredAnyway(s) == TRUE

Registered(s) == s \in terminals

\* resizepty, the first look-up, then the second.
Check(c) ==
  /\ IF Registered(req[c].session)
       THEN Go(c, "check", "use") /\ UNCHANGED code
       ELSE Finish(c, "check", 1)
  /\ UNCHANGED <<req, alive, cursor, ran, postVars, fileVars, ptyVars>>

Resize(c) ==
  /\ req[c].session \in terminals
  /\ Finish(c, "use", IF session[req[c].session] = "open" THEN 0 ELSE 1)
  /\ UNCHANGED <<req, alive, cursor, ran, postVars, fileVars, ptyVars>>

\* resize of a session that has gone since: a nil pointer.
ResizeNil(c) == req[c].session \notin terminals /\ Panic(c, "use")

ReadCollides(c) == writing # {} /\ (Panic(c, "check") \/ Panic(c, "use"))

ResizePty(c) == req[c].op = "resizepty" /\
  (Check(c) \/ Resize(c) \/ ResizeNil(c) \/ ReadCollides(c))

-----------------------------------------------------------------------------
(* What the console asks: it gives each session an ID of its own, and a     *)
(* transfer is of one file or several.                                      *)

Tokens == {"w", "w;"} \union Operators
Targets == [path : Paths, member : Paths, overwrite : BOOLEAN, unzip : BOOLEAN]

IsRequest(r) ==
  /\ r.op \in {"shell", "download", "upload", "openpty", "resizepty", "other"}
  /\ r.op = "shell" => r.line \in Seq(Tokens)
  /\ r.op = "download" => r.files \in Seq(Targets) \ {<<>>}
  /\ r.op = "upload" => r.path \in Paths
  /\ r.op \in {"openpty", "resizepty"} => r.session \in Sessions

ASSUME WorkloadsAssumption ==
  \A w \in Workloads : \A c \in Commands :
    /\ IsRequest(w[c])
    /\ \A d \in Commands :
         w[c].op = "openpty" /\ w[d].op = "openpty" /\ w[c].session = w[d].session
           => c = d

Init ==
  /\ req \in Workloads /\ alive = TRUE
  /\ pc = [c \in Commands |-> "new"] /\ code = [c \in Commands |-> 0]
  /\ cursor = [c \in Commands |-> [i |-> 0, args |-> FALSE]]
  /\ ran = [c \in Commands |-> <<>>]
  /\ k = [c \in Commands |-> 1] /\ done = [c \in Commands |-> {}]
  /\ acked = {}
  /\ fin = [c \in Commands |-> <<>>] /\ stats = [c \in Commands |-> <<>>]
  /\ files \in [Paths \union Commands -> {None, "user"}]
  /\ \A c \in Commands : files[c] = None
  /\ session = [s \in Sessions |-> "none"] /\ terminals = {} /\ writing = {}

Step(c) == \/ Receive(c) \/ Start(c) \/ StartPanics(c) \/ StartFails(c)
           \/ Shell(c) \/ Download(c) \/ UploadStep(c) \/ ResizePty(c) \/ Fin(c)

Next == alive /\ ((\E c \in Commands : Step(c)) \/ (\E s \in Sessions : Pty(s)))

Spec == Init /\ [][Next]_vars

-----------------------------------------------------------------------------
(* Properties. *)

\* Every variable has its type.
TypeOK ==
  /\ \A c \in Commands : IsRequest(req[c])
  /\ alive \in BOOLEAN
  /\ pc \in [Commands -> {"new", "start", "shell", "get", "tee", "stat", "zip",
                          "cat", "send", "remove", "check", "use", "fin", "done"}]
  /\ code \in [Commands -> {0, 1}]
  /\ cursor \in [Commands -> [i : Nat, args : BOOLEAN]]
  /\ ran \in [Commands -> Seq(Nat)]
  /\ k \in [Commands -> Nat]
  /\ \A c \in Commands : k[c] \in 1 .. IF req[c].op = "download" THEN Len(req[c].files)
                                       ELSE 1
  /\ done \in [Commands -> SUBSET Nat]
  /\ acked \subseteq Commands
  /\ fin \in [Commands -> Seq({0, 1})] /\ stats \in [Commands -> Seq({0, 1})]
  /\ files \in [Paths \union Commands -> {None, "user", "archive", "partial"} \union Commands]
  /\ session \in [Sessions -> {"none", "opening", "registering", "open", "closing",
                               "deleting", "over"}]
  /\ terminals \subseteq Sessions /\ writing \subseteq Sessions

(* What a POSIX shell does with the same line: a list of commands, joined   *)
(* to the left, each of which runs or is skipped by the status so far.      *)

Accepts(line) ==
  /\ \A i \in 1 .. Len(line) : line[i] \in Operators => i > 1 /\ line[i - 1] = "w"
  /\ line # <<>> => line[Len(line)] \notin {"&&", "||"}

EndsCommand(line, i) == \/ line[i] = "w;"
                        \/ line[i] = "w" /\ (i = Len(line) \/ line[i + 1] \in Operators)

\* The operator in front of the command that ends at i.
JoinedBy(line, i) ==
  LET ends == {j \in 1 .. i - 1 : line[j] # "w"}
  IN IF ends = {} THEN ";"
     ELSE LET j == CHOOSE j \in ends : \A h \in ends : h <= j
          IN IF line[j] = "w;" THEN ";" ELSE line[j]

\* Whether a command behind operator runs, by the exit code so far.
LetsRun(operator, exitCode) == \/ operator = ";"
                               \/ operator = "&&" /\ exitCode = 0
                               \/ operator = "||" /\ exitCode # 0

\* What the command that ends at i, if one does, makes of the status so far: what
\* has run, and the exit code of the last of it.
Continued(line, fails, i, status) ==
  IF EndsCommand(line, i) /\ LetsRun(JoinedBy(line, i), status.code)
  THEN [ran |-> Append(status.ran, i), code |-> IF i \in fails THEN 1 ELSE 0]
  ELSE status

StatusAfter(line, fails) ==
  LET at[i \in 0 .. Len(line)] ==
        IF i = 0 THEN [ran |-> <<>>, code |-> 0] ELSE Continued(line, fails, i, at[i - 1])
  IN at

ShellRuns(line, fails) == StatusAfter(line, fails)[Len(line)]

Kinds(line) ==
  {IF line[i] = "w;" THEN ";" ELSE line[i] : i \in {j \in 1 .. Len(line) : line[j] # "w"}}
OneKind(line) == Cardinality(Kinds(line)) <= 1

\* handleShellCmd against a shell: of a line that a shell accepts it runs
\* what the shell runs, in that order, perhaps not all of it, because a return
\* at "&&" or "||" skips the whole rest; with one kind of operator it runs
\* all of it, and ends with the same status.
LikeAShell ==
  \A c \in Commands :
    req[c].op = "shell" /\ pc[c] \in {"fin", "done"} /\ Accepts(Line(c)) =>
      LET sh == ShellRuns(Line(c), req[c].fails)
      IN /\ Len(ran[c]) <= Len(sh.ran)
         /\ ran[c] = SubSeq(sh.ran, 1, Len(ran[c]))
         /\ OneKind(Line(c)) => ran[c] = sh.ran /\ code[c] = sh.code

\* A command ends the agent only if a shell rejects its line, if a transfer
\* lacks its operand, or if a resize meets a session that is being opened or
\* closed, or was closed since; two sessions only if one changes the registry when
\* the other changes it or is about to.
PanicExplained ==
  alive
    \/ (\E c \in Commands : req[c].op = "shell" /\ pc[c] = "shell" /\ ~Accepts(Line(c)))
    \/ (\E c \in Commands : pc[c] = "start" /\ NeedsOperand(c))
    \/ (\E c \in Commands, s \in Sessions :
          /\ pc[c] \in {"check", "use"}
          /\ \/ session[s] \in {"registering", "deleting"}
             \/ s = req[c].session /\ session[s] = "over" /\ pc[c] = "use")
    \/ (\E r, s \in Sessions :
          /\ r # s /\ session[r] \in {"registering", "deleting"}
          /\ session[s] \in {"registering", "deleting", "closing"})

\* Command c is an upload that makes p an archive.
Makes(c, p) == req[c].op = "upload" /\ Archives(c) /\ Sent(c) = p

Reported(c, n, exitCode) == n \in DOMAIN stats[c] /\ stats[c][n] = exitCode

\* Of a download that is over, each file that did not arrive has been reported as
\* failed, by a report of its own or, if the download failed before its first file,
\* by the answer, which a command without an ID does not get; and each file that
\* did arrive has been reported as such.  Files to unzip are left out: their
\* success is that of rm.
FailureReported ==
  \A c \in Commands :
    req[c].op = "download" /\ pc[c] = "done" =>
      \A n \in DOMAIN req[c].files :
        ~req[c].files[n].unzip =>
          IF n \in done[c] THEN Reported(c, n, 0)
          ELSE \/ Reported(c, n, 1)
               \/ stats[c] = <<>> /\ (req[c].id => fin[c] = <<1>>)

\* Archives made for an upload are removed, however it ends and whoever else
\* uploads the same directory.  Only what a zip that failed has left stays.
NoResidue ==
  \A p \in DOMAIN files :
    /\ files[p] = "archive" =>
         \E c \in Commands : Makes(c, p) /\ pc[c] \in {"cat", "send", "remove"}
    /\ files[p] = "partial" =>
         \E c \in Commands :
           Makes(c, p) /\ pc[c] \in {"stat", "fin", "done"} /\ code[c] = 1

\* A file of the user is not touched but by a download that may overwrite it
\* and by the upload of the directory that its name, without ".zip", is the
\* name of.
UserFilesKept ==
  [][\A p \in Paths : files[p] = "user" /\ files'[p] # "user" =>
       \E c \in Commands :
         \/ /\ req[c].op = "download" /\ pc[c] = "tee"
            /\ File(c).overwrite /\ p = File(c).path
         \/ Makes(c, p)]_vars
=============================================================================
