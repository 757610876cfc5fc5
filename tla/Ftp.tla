-------------------------------- MODULE Ftp --------------------------------
(***************************************************************************)
(* pkg/runner/ftp.go with utils/fs.go: the worker behind the console's     *)
(* file browser.  It is a process of its own with one goroutine that reads *)
(* a command, carries it out and answers it.  A copy, a recursive removal, *)
(* a recursive change of mode and a listing go through the tree step by    *)
(* step, while other processes of the host change it, and may fail in the  *)
(* middle.                                                                 *)
(*                                                                         *)
(* A path is the sequence of its names from the root.                      *)
(***************************************************************************)
EXTENDS Integers, FiniteSets, Sequences

CONSTANTS Names, Home,
          NamePrefix,   \* pairs <<x, y>> of different names: y begins with x
          MaxDepth,     \* the longest path the host takes
          Umasked,      \* what the umask makes of a mode
          Trees,        \* the trees to begin with
          Requests,     \* the commands of the console
          MaxCommands,  \* bound: commands
          MaxEdits      \* bound: changes by other processes

ASSUME NamesAssumption == IsFiniteSet(Names) /\ NamePrefix \subseteq Names \X Names
ASSUME HomeAssumption == Home \in Seq(Names)
ASSUME BoundsAssumption == {MaxDepth, MaxCommands, MaxEdits} \subseteq Nat

VARIABLES
  tree,     \* what there is at each path
  wd,       \* workingDirectory
  pc,       \* "read", "work", "answer" or "over"
  job,      \* the command being carried out
  agenda,   \* what is left of it, the next one first
  err,      \* how it has failed so far, or "none"
  shown,    \* a listing: the paths in it, and which of them are errors
  before,   \* history: the tree when the command came
  alone,    \* history: whether nobody else has interfered since
  count, edits

workVars == <<job, agenda, err, shown>>
historyVars == <<before, alone>>
vars == <<tree, wd, pc, workVars, historyVars, count, edits>>

Paths == UNION {[1 .. n -> Names] : n \in 0 .. MaxDepth}

\* Nodes: content is the path whose file had it first, or Empty.
None == [is |-> "none"]
Dir(mode) == [is |-> "dir", mode |-> mode]
File(content, mode) == [is |-> "file", content |-> content, mode |-> mode]
Empty == <<>>
Modes == {"old", "new"}
ASSUME UmaskedAssumption == Umasked \in [Modes -> Modes]
Nodes == {None} \union {Dir(m) : m \in Modes}
           \union {File(c, m) : c \in Paths, m \in Modes}

Parent(p) == SubSeq(p, 1, Len(p) - 1)
Base(p) == p[Len(p)]
Under(p, q) == Len(p) <= Len(q) /\ SubSeq(q, 1, Len(p)) = p
\* The path that is to p what r is to q.
Along(r, q, p) == p \o SubSeq(r, Len(q) + 1, Len(r))

\* What there can be on a disk: whatever exists is in directories all the way up.
IsTree(t) ==
  /\ t \in [Paths -> Nodes]
  /\ \A p, q \in Paths : Under(p, q) /\ p # q /\ t[q] # None => t[p].is = "dir"

ASSUME TreesAssumption == \A t \in Trees : IsTree(t)

\* Paths as the console writes them, and its commands.
Written == [abs : BOOLEAN, names : Seq(Names)]

ASSUME RequestsAssumption ==
  Requests \subseteq
    [op : {"mkd", "cwd", "pwd", "dele"}, path : Written]
      \union [op : {"rmd", "chmod"}, path : Written, rec : BOOLEAN]
      \union [op : {"mv", "cp"}, path : Written, dst : Written]
      \union [op : {"list"}, path : Written, depth : Nat]

In(t, p) == IF p \in Paths THEN t[p] ELSE None
At(p) == In(tree, p)
IsDir(p) == At(p).is = "dir"
Exists(p) == At(p).is # "none"
Children(p) == {q \in Paths : q # <<>> /\ Parent(q) = p /\ Exists(q)}

\* The order of os.ReadDir does not matter here.
InOrder(ps) == CHOOSE s \in [1 .. Cardinality(ps) -> ps] :
                 \A i, j \in DOMAIN s : s[i] = s[j] => i = j

\* Whether p can be made: there is a directory for it.
Room(p) == p \in Paths /\ p # <<>> /\ IsDir(Parent(p))

\* strings.HasPrefix(dst, src): an "ab" beside "a" begins with it too.
HasPrefix(dst, src) ==
  \/ src = <<>>
  \/ /\ Len(src) <= Len(dst)
     /\ Parent(src) = SubSeq(dst, 1, Len(src) - 1)
     /\ \/ dst[Len(src)] = Base(src)
        \/ <<Base(src), dst[Len(src)]>> \in NamePrefix

-----------------------------------------------------------------------------
(* Answers.  err is the kind of the error: what its message contains.       *)

\* returnCodes; the rest is 550.
ErrorCode(op, e) ==
  CASE e = "denied" -> 450
    [] e = "too deep" /\ op = "list" -> 452
    [] e = "invalid" /\ op \in {"mkd", "dele", "rmd", "mv", "cp", "chmod"} -> 452
    [] e = "exists" /\ op \in {"mkd", "mv", "cp"} -> 552
    [] e = "not empty" /\ op = "rmd" -> 552
    [] OTHER -> 550

Code == IF err = "none" THEN 250 ELSE ErrorCode(job.op, err)

Finish(e) == pc' = "answer" /\ err' = e /\ agenda' = <<>>

\* A call that fails with e and changes nothing.
Fails(e) == Finish(e) /\ UNCHANGED <<tree, wd, job, shown, historyVars, count, edits>>

\* A call that is the whole command and makes the tree t.
Succeeds(t) ==
  /\ Finish("none") /\ tree' = t
  /\ UNCHANGED <<wd, job, shown, historyVars, count, edits>>

-----------------------------------------------------------------------------
(* The worker's loop. *)

\* parsePath: "~" is the working directory, as "." is.
ParsePath(p) == IF p.abs THEN p.names ELSE wd \o p.names

\* cp copies into its destination, mv renames to it.
JobOf(r) ==
  LET p == ParsePath(r.path)
      Into(d) == IF p = <<>> THEN d ELSE Append(d, Base(p))
  IN CASE r.op = "cp" -> [op |-> "cp", p |-> p, q |-> Into(ParsePath(r.dst))]
       [] r.op = "mv" -> [op |-> "mv", p |-> p, q |-> ParsePath(r.dst)]
       [] r.op = "list" -> [op |-> "list", p |-> p, depth |-> r.depth]
       [] r.op \in {"rmd", "chmod"} -> [op |-> r.op, p |-> p, rec |-> r.rec]
       [] OTHER -> [op |-> r.op, p |-> p]

\* A recursive removal looks first whether there is anything.
First(j) == CASE j.op = "cp" -> <<[src |-> j.p, dst |-> j.q]>>
              [] j.op = "list" -> <<[path |-> j.p, current |-> 0, read |-> FALSE]>>
              [] j.op = "rmd" /\ j.rec -> <<j.p, j.p>>
              [] OTHER -> <<j.p>>

ReadCommand(r) ==
  /\ pc = "read" /\ count < MaxCommands
  /\ job' = JobOf(r) /\ agenda' = First(JobOf(r))
  /\ pc' = "work" /\ err' = "none" /\ shown' = {}
  /\ before' = tree /\ alone' = TRUE /\ count' = count + 1
  /\ UNCHANGED <<tree, wd, edits>>

Answer ==
  /\ pc = "answer" /\ pc' = "read"
  /\ UNCHANGED <<tree, wd, workVars, historyVars, count, edits>>

\* Reading or writing on the websocket fails, or a message is not JSON: close
\* ends the process.
End ==
  /\ pc \in {"read", "answer"} /\ pc' = "over"
  /\ UNCHANGED <<tree, wd, workVars, historyVars, count, edits>>

Doing(op) == pc = "work" /\ job.op = op

\* A system call that the host refuses: permissions.
Denied ==
  /\ pc = "work" /\ job.op # "list" /\ Fails("denied")

-----------------------------------------------------------------------------
(* Commands of one step. *)

Mkd ==
  /\ Doing("mkd")
  /\ IF Exists(job.p) THEN Fails("exists")
     ELSE IF ~Room(job.p) THEN Fails("noent")
     ELSE Succeeds([tree EXCEPT ![job.p] = Dir(Umasked["old"])])

Cwd ==
  /\ Doing("cwd")
  /\ IF ~Exists(job.p) THEN Fails("noent")
     ELSE IF ~IsDir(job.p) THEN Fails("not a directory")
     ELSE /\ Finish("none") /\ wd' = job.p
          /\ UNCHANGED <<tree, job, shown, historyVars, count, edits>>

Pwd == Doing("pwd") /\ Succeeds(tree)

\* os.Remove: dele also removes an empty directory, rmd also a file; the root stays.
Remove ==
  /\ Doing("dele") \/ (Doing("rmd") /\ ~job.rec)
  /\ IF ~Exists(job.p) THEN Fails("noent")
     ELSE IF job.p = <<>> THEN Fails("other")
     ELSE IF Children(job.p) # {} THEN Fails("not empty")
     ELSE Succeeds([tree EXCEPT ![job.p] = None])

\* os.Rename: nothing goes where a directory is, not even that directory.
Mv ==
  /\ Doing("mv")
  /\ LET p == job.p
         q == job.q
         longest == {r \in Paths : Under(p, r) /\ Exists(r)}
     IN IF ~Exists(p) THEN Fails("noent")
        ELSE IF IsDir(q) THEN Fails("exists")
        ELSE IF ~Room(q) THEN Fails("noent")
        ELSE IF p = <<>> THEN Fails("other")
        ELSE IF Under(p, q) /\ p # q THEN Fails("invalid")
        ELSE IF Exists(q) /\ IsDir(p) THEN Fails("not a directory")
        ELSE IF \E r \in longest : Along(r, p, q) \notin Paths THEN Fails("too long")
        ELSE Succeeds([r \in Paths |-> IF Under(q, r) THEN At(Along(r, q, p))
                                       ELSE IF Under(p, r) THEN None ELSE tree[r]])

\* chmod and chown.  A mode or name that is not one fails before.
Chmod ==
  /\ Doing("chmod") /\ ~job.rec
  /\ IF ~Exists(job.p) THEN Fails("noent")
     ELSE Succeeds([tree EXCEPT ![job.p].mode = "new"])

BadMode == Doing("chmod") /\ agenda = First(job) /\ Fails("other")

-----------------------------------------------------------------------------
(* Commands of several steps. *)

\* Faulty variants of Goes: the end is not noticed; the step is done again.
GoesOn(rest) == pc' = "work" /\ agenda' = rest
GoesAgain(rest) == UNCHANGED <<pc, agenda>>

Goes(rest) == pc' = (IF rest = <<>> THEN "answer" ELSE "work") /\ agenda' = rest

\* WalkDir: a directory, then what it has.
ChmodStep ==
  /\ Doing("chmod") /\ job.rec
  /\ LET p == Head(agenda)
     IN IF ~Exists(p) THEN Fails("noent")
        ELSE /\ tree' = [tree EXCEPT ![p].mode = "new"]
             /\ Goes(InOrder(Children(p)) \o Tail(agenda))
             /\ UNCHANGED <<wd, job, err, shown, historyVars, count, edits>>

RmdBegins ==
  /\ Doing("rmd") /\ job.rec /\ agenda = First(job)
  /\ IF ~Exists(job.p) THEN Fails("noent")
     ELSE /\ agenda' = Tail(agenda)
          /\ UNCHANGED <<tree, pc, wd, job, err, shown, historyVars, count, edits>>

\* os.RemoveAll takes what it finds, and is content when there is nothing; of the
\* root it takes all there is below, and then fails.
RmdStep ==
  /\ Doing("rmd") /\ job.rec /\ agenda # First(job)
  /\ IF ~Exists(job.p) THEN Succeeds(tree)
     ELSE \E q \in Paths :
            /\ Under(job.p, q) /\ Exists(q) /\ Children(q) = {}
            /\ IF q = <<>> THEN Fails("other")
               ELSE /\ tree' = [tree EXCEPT ![q] = None]
                    /\ UNCHANGED <<pc, wd, workVars, historyVars, count, edits>>

\* Faulty variant of InsideItself: a copy into the directory goes ahead.
InsideItselfNever(src, dst) == FALSE

InsideItself(src, dst) == HasPrefix(dst, src)

\* MkdirAll(dst) with the mode of src, of which the umask takes its part.
WithDirs(dst, mode) ==
  [r \in Paths |-> IF Under(r, dst) /\ ~Exists(r) THEN Dir(Umasked[mode]) ELSE tree[r]]

\* Faulty variants of Entries: those of the copy; and beside it.
EntriesOfCopy(src, dst) ==
  [i \in DOMAIN InOrder(Children(dst)) |->
     [src |-> Append(src, Base(InOrder(Children(dst))[i])),
      dst |-> InOrder(Children(dst))[i]]]
EntriesBeside(src, dst) ==
  [i \in DOMAIN InOrder(Children(src)) |->
     [src |-> InOrder(Children(src))[i],
      dst |-> Append(Parent(dst), Base(InOrder(Children(src))[i]))]]

Entries(src, dst) ==
  [i \in DOMAIN InOrder(Children(src)) |->
     [src |-> InOrder(Children(src))[i],
      dst |-> Append(dst, Base(InOrder(Children(src))[i]))]]

\* CopyDir up to the loop over its entries, which ReadDir returns after dst was
\* made.
CopyDir(src, dst) ==
  IF InsideItself(src, dst) THEN Fails("inside itself")
  ELSE IF dst \notin Paths THEN Fails("too long")
  ELSE IF \E r \in Paths : Under(r, dst) /\ Exists(r) /\ ~IsDir(r)
    THEN Fails("not a directory")
  ELSE /\ tree' = WithDirs(dst, At(src).mode)
       /\ Goes(Entries(src, dst) \o Tail(agenda))
       /\ UNCHANGED <<wd, job, err, shown, historyVars, count, edits>>

\* os.Create empties dst, also when that is src.  The mode is set, so that the umask
\* takes nothing of it.
CopyFile(src, dst) ==
  IF dst \notin Paths \/ IsDir(dst) THEN Fails("other")
  ELSE IF ~Room(dst) THEN Fails("noent")
  ELSE /\ tree' = [tree EXCEPT ![dst] =
                     File(IF src = dst THEN Empty ELSE At(src).content, At(src).mode)]
       /\ Goes(Tail(agenda))
       /\ UNCHANGED <<wd, job, err, shown, historyVars, count, edits>>

CpStep ==
  /\ Doing("cp")
  /\ LET src == Head(agenda).src
         dst == Head(agenda).dst
     IN IF ~Exists(src) THEN Fails("noent")
        ELSE IF IsDir(src) THEN CopyDir(src, dst)
        ELSE CopyFile(src, dst)

\* io.Copy fails: the file stays as far as it was written, with the mode it was
\* created with or had.
CopyFileFails ==
  /\ Doing("cp") /\ ~IsDir(Head(agenda).src) /\ Exists(Head(agenda).src)
  /\ Room(Head(agenda).dst) /\ ~IsDir(Head(agenda).dst)
  /\ LET dst == Head(agenda).dst
         mode == IF Exists(dst) THEN At(dst).mode ELSE "old"
     IN tree' = [tree EXCEPT ![dst] = File(Empty, mode)]
  /\ Finish("other")
  /\ UNCHANGED <<wd, job, shown, historyVars, count, edits>>

ListLimit == 3

\* Faulty variant of Descends: one level more.
DescendsTooFar(current) == current < job.depth

Descends(current) == current < job.depth - 1

Show(q, ok) == [path |-> q, ok |-> ok]

\* listRecursive: a directory that cannot be read is shown as an error, and so is an
\* entry that is gone or whose owner has no name; the command succeeds.
ListDirectory(p, current) ==
  \/ shown' = shown \union {Show(p, FALSE)} /\ Goes(Tail(agenda))
  \/ /\ IsDir(p)
     /\ \E bad \in SUBSET Children(p) :
          LET deeper == {q \in Children(p) \ bad : IsDir(q) /\ Descends(current)}
              next == [i \in 1 .. Cardinality(deeper) |->
                         [path |-> InOrder(deeper)[i], current |-> current + 1,
                          read |-> FALSE]]
              last == <<[path |-> p, current |-> current, read |-> TRUE]>>
          IN /\ shown' = shown \union {Show(q, q \notin bad) : q \in Children(p) \ deeper}
             /\ Goes(next \o last \o Tail(agenda))

\* Stat of a directory comes after its entries.
ListStep ==
  /\ Doing("list")
  /\ IF job.depth > ListLimit THEN Fails("too deep")
     ELSE LET p == Head(agenda).path
          IN /\ IF Head(agenda).read
                  THEN shown' = shown \union {Show(p, Exists(p))} /\ Goes(Tail(agenda))
                  ELSE ListDirectory(p, Head(agenda).current)
             /\ UNCHANGED <<tree, wd, job, err, historyVars, count, edits>>

-----------------------------------------------------------------------------
\* Another process: another session's worker, a shell.
Edit ==
  /\ edits < MaxEdits /\ edits' = edits + 1
  /\ \E p \in Paths \ {<<>>} :
       \/ /\ Exists(p)
          /\ tree' = [r \in Paths |-> IF Under(p, r) THEN None ELSE tree[r]]
       \/ /\ ~Exists(p) /\ Room(p)
          /\ \E node \in {Dir("old"), File(p, "old")} : tree' = [tree EXCEPT ![p] = node]
  /\ alone' = FALSE
  /\ UNCHANGED <<wd, pc, workVars, before, count>>

Init ==
  /\ tree \in Trees /\ wd = Home /\ pc = "read"
  /\ job = [op |-> "pwd", p |-> <<>>] /\ agenda = <<>> /\ err = "none" /\ shown = {}
  /\ before = tree /\ alone = TRUE
  /\ count = 0 /\ edits = 0

Work == \/ Denied \/ Mkd \/ Cwd \/ Pwd \/ Remove \/ Mv \/ Chmod \/ BadMode
        \/ ChmodStep \/ RmdBegins \/ RmdStep \/ CpStep \/ CopyFileFails \/ ListStep

Next == (\E r \in Requests : ReadCommand(r)) \/ Work \/ Answer \/ End \/ Edit

Spec == Init /\ [][Next]_vars

\* The goroutine goes on with what it has begun.
LiveSpec == Spec /\ WF_vars(Work)

-----------------------------------------------------------------------------
(* Properties. *)

Errors == {"none", "denied", "noent", "exists", "not empty", "not a directory", "invalid",
           "inside itself", "too long", "too deep", "other"}

Jobs == [op : {"mkd", "cwd", "pwd", "dele"}, p : Seq(Names)]
          \union [op : {"rmd", "chmod"}, p : Seq(Names), rec : BOOLEAN]
          \union [op : {"mv", "cp"}, p : Seq(Names), q : Seq(Names)]
          \union [op : {"list"}, p : Seq(Names), depth : Nat]

\* What an agenda consists of.
Entry(op) == CASE op = "cp" -> [src : Seq(Names), dst : Seq(Names)]
               [] op = "list" -> [path : Seq(Names), current : Nat, read : BOOLEAN]
               [] OTHER -> Seq(Names)

\* Every variable has its type, there is an agenda as long as there is work, and
\* whatever exists is in a directory.
TypeOK ==
  /\ tree \in [Paths -> Nodes] /\ before \in [Paths -> Nodes]
  /\ \A p \in Paths : p # <<>> /\ Exists(p) => IsDir(Parent(p))
  /\ wd \in Seq(Names) /\ pc \in {"read", "work", "answer", "over"}
  /\ job \in Jobs /\ agenda \in Seq(Entry(job.op)) /\ (pc = "work" <=> agenda # <<>>)
  /\ err \in Errors /\ shown \subseteq [path : Seq(Names), ok : BOOLEAN]
  /\ alone \in BOOLEAN
  /\ count \in 0 .. MaxCommands /\ edits \in 0 .. MaxEdits

(* What a command means, in one step, of the tree t.                        *)

\* What a copy makes of a node: the umask takes its part of a directory's mode.
Made(node) == IF node.is = "dir" THEN Dir(Umasked[node.mode]) ELSE node

Copied(t, src, dst) ==
  [r \in Paths |->
     IF Under(dst, r) /\ In(t, Along(r, dst, src)) # None
       THEN IF t[r].is = "dir" THEN t[r] ELSE Made(t[Along(r, dst, src)])
     ELSE IF Under(r, dst) /\ t[r] = None THEN Dir(Umasked[t[src].mode])
     ELSE t[r]]

Meaning(j, t) ==
  CASE j.op = "mkd" -> [t EXCEPT ![j.p] = Dir(Umasked["old"])]
    [] j.op \in {"dele", "rmd"} ->
         [r \in Paths |-> IF Under(j.p, r) THEN None ELSE t[r]]
    [] j.op = "mv" ->
         [r \in Paths |-> IF Under(j.q, r) THEN In(t, Along(r, j.q, j.p))
                          ELSE IF Under(j.p, r) THEN None ELSE t[r]]
    [] j.op = "cp" -> Copied(t, j.p, j.q)
    [] j.op = "chmod" ->
         [r \in Paths |-> IF t[r] # None /\ (r = j.p \/ (j.rec /\ Under(j.p, r)))
                            THEN [t[r] EXCEPT !.mode = "new"] ELSE t[r]]
    [] OTHER -> t

\* CopyDir refuses a destination inside the source only.  A copy may also go to its
\* source itself, or above it, and there meet its source: "/a/a" copied to the root
\* goes to "/a", and so what it has in "/a/a/a" goes to "/a/a".
CopyUpwards == job.op = "cp" /\ Under(job.q, job.p)
CopyOntoItself == CopyUpwards /\ In(before, Along(job.p, job.q, job.p)) # None

\* A success, when nobody else interfered, has done what the command means,
\* all of it and nothing else: but for a copy that writes into its source.  A copied
\* file has the mode of its source, a copied directory what the umask leaves of it.
SuccessIsComplete ==
  pc = "answer" /\ alone /\ err = "none" /\ ~CopyOntoItself =>
    tree = Meaning(job, before)

\* Where a command may change the tree.
Touches(r) == CASE job.op = "mv" -> Under(job.p, r) \/ Under(job.q, r)
                [] job.op = "cp" -> Under(job.q, r) \/ Under(r, job.q)
                [] OTHER -> Under(job.p, r)

\* A command that fails in the middle, or is still under way, has changed
\* nothing but at its target; one of a single step has changed nothing.
FailureIsContained ==
  pc \in {"work", "answer"} /\ alone /\ (pc = "answer" => err # "none") =>
    \A r \in Paths :
      tree[r] # before[r] =>
        /\ Touches(r)
        /\ job.op \in {"cp", "rmd", "chmod"}
        /\ job.op # "cp" => job.rec

\* Whatever others do meanwhile, a copy leaves its source as it finds it, and
\* so does not copy its own copies: but for a copy to where it is or above.
SourceKept ==
  [][pc = "work" /\ job.op = "cp" /\ edits' = edits /\ ~CopyUpwards =>
       \A r \in Paths : Under(job.p, r) => tree'[r] = tree[r]]_vars

\* A listing shows what there is down to its depth, at least one level, and nothing
\* else; what it leaves out is below something that it shows as an error.
InDepth == {q \in Paths : /\ Under(job.p, q) /\ before[q] # None
                          /\ Len(q) - Len(job.p) <= IF job.depth > 1 THEN job.depth ELSE 1}

ListingIsExact ==
  pc = "answer" /\ alone /\ err = "none" /\ job.op = "list" =>
    /\ \A x \in shown : x.path \in InDepth \/ x = Show(job.p, FALSE)
    /\ \A q \in InDepth \union {job.p} :
         \E x \in shown : x.path = q \/ (~x.ok /\ Under(x.path, q))

\* Every command is answered: the recursion ends, also in a tree that others
\* change.
EveryCommandAnswered == []<>(pc # "work")
=============================================================================
