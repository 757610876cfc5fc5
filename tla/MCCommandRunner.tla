-------------------------- MODULE MCCommandRunner --------------------------
EXTENDS CommandRunner

CONSTANTS c1, c2, s1, s2

\* Every line of at most four words, and those of five in which a semicolon
\* stands alone, with every choice of commands that fail.
Words == {"w"} \union Operators
ShellLines == UNION {[1 .. n -> Words \union {"w;"}] : n \in 0 .. 4}
                \union [1 .. 5 -> Words]
ShellRequests ==
  UNION {{[op |-> "shell", id |-> TRUE, line |-> line, fails |-> fails] :
            fails \in SUBSET {i \in DOMAIN line : EndsCommand(line, i)}} :
         line \in ShellLines}

Other == [op |-> "other", id |-> FALSE]

\* Two files to paths that other commands use as well.
Transfers == {[path |-> p, member |-> "m", overwrite |-> o, unzip |-> z] :
                p \in {"f", "d.zip"}, o \in BOOLEAN, z \in BOOLEAN}
Downloads == {[op |-> "download", id |-> TRUE, operand |-> TRUE, files |-> f] :
                f \in {<<t>> : t \in Transfers} \union {<<t, u>> : t, u \in Transfers}}
OneFile == {d \in Downloads : Len(d.files) = 1}
Uploads == {[op |-> "upload", id |-> TRUE, operand |-> TRUE, source |-> s,
             path |-> IF s = "directory" THEN "d.zip" ELSE "f"] :
              s \in {"file", "directory", "several"}}
NoOperand == {[op |-> "upload", id |-> TRUE, operand |-> FALSE, source |-> "file",
               path |-> "f"]}

Terminal(op, s) == [op |-> op, id |-> TRUE, session |-> s]
Terminals == {Terminal(op, s) : op \in {"openpty", "resizepty"}, s \in Sessions}

Pairs(A, B) == {[c \in Commands |-> IF c = c1 THEN a ELSE b] : a \in A, b \in B}

MCWorkloads ==
  Pairs(ShellRequests, {Other})
    \union Pairs(Downloads, {Other}) \union Pairs(OneFile, OneFile)
    \union Pairs(OneFile, Uploads) \union Pairs(Uploads \union NoOperand, Uploads)
    \union {w \in Pairs(Terminals, Terminals) :
              w[c1] = w[c2] => w[c1].op = "resizepty"}
=============================================================================
