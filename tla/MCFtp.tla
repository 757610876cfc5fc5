------------------------------- MODULE MCFtp -------------------------------
EXTENDS Ftp

\* Below the root, "a" with what it may have, and "ab" beside it.
A == <<"a">>
AB == <<"ab">>
MCNamePrefix == {<<"a", "ab">>}
MCHome == <<>>
MCUmasked == [m \in Modes |-> "old"]
Shape(dirs, leaves) ==
  [p \in Paths |-> IF p = <<>> \/ p \in dirs THEN Dir("old")
                   ELSE IF p \in leaves THEN File(p, "old") ELSE None]
MCTrees ==
  {Shape({A, <<"a", "a">>, <<"a", "a", "a">>}, {<<"a", "a", "a", "ab">>, AB}),
   Shape({A, AB, <<"a", "ab">>}, {<<"a", "a">>})}

Rel(p) == [abs |-> FALSE, names |-> p]
Abs(p) == [abs |-> TRUE, names |-> p]
Given == {Rel(<<>>), Rel(A), Rel(AB), Abs(<<"a", "a">>)}

MCRequests ==
  [op : {"mkd", "dele"}, path : Given]
    \union [op : {"cwd"}, path : {Rel(A), Rel(AB)}]
    \union [op : {"rmd"}, path : Given, rec : BOOLEAN]
    \union [op : {"chmod"}, path : Given, rec : {TRUE}]
    \union [op : {"mv", "cp"}, path : Given, dst : Given \ {Abs(<<"a", "a">>)}]
    \union [op : {"list"}, path : {Rel(A)}, depth : {0, 2, 4}]
    \union {[op |-> "list", path |-> Rel(<<>>), depth |-> 2]}
    \union {[op |-> "chmod", path |-> Rel(A), rec |-> FALSE], [op |-> "pwd", path |-> Rel(A)]}
=============================================================================
