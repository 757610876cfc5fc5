------------------------------- MODULE Mirror -------------------------------
(***************************************************************************)
(* What the console may come to show of a host's tables (users, groups,    *)
(* packages, ..., and the single rows such as the hardware), without       *)
(* synchronisations, requests or faults:                                   *)
(*                                                                         *)
(*   - what it shows was read on the host at some time;                    *)
(*   - a row that is gone stays gone: what comes back is a new row;        *)
(*   - of the rows of one key the first stays, unless a reading found no   *)
(*     such key; so a key that is there all the time never disappears.     *)
(***************************************************************************)
EXTENDS Integers, Sequences

CONSTANTS Keys,     \* what identifies a row, over all tables
          Values,   \* what else a row says
          Gone,     \* a deleted row
          Absent    \* a reading that lacks the key

VARIABLES rows,     \* of each key, the rows created so far
          read      \* of each key, what the readings of the host have said

vars == <<rows, read>>

Live(rs) == {n \in DOMAIN rs : rs[n] # Gone}
IsFirst(rs, n) == n \in Live(rs) /\ \A m \in Live(rs) : n <= m

Init == /\ rows \in [Keys -> Seq(Values \union {Gone})]
        /\ read = [k \in Keys |-> {}]

Learn == /\ read' \in [Keys -> SUBSET (Values \union {Absent})]
         /\ \A k \in Keys : read[k] \subseteq read'[k]
         /\ UNCHANGED rows

\* rs becomes rt, knowing what the readings have said.
Becomes(rs, rt, known) ==
  /\ DOMAIN rs \subseteq DOMAIN rt
  /\ \A n \in Live(rt) : (n \in DOMAIN rs /\ rt[n] = rs[n]) \/ rt[n] \in known
  /\ \A n \in DOMAIN rs : rs[n] = Gone => rt[n] = Gone
  /\ Absent \notin known => \A n \in Live(rs) : IsFirst(rs, n) => n \in Live(rt)

Update == /\ \A k \in Keys : Becomes(rows[k], rows'[k], read[k])
          /\ UNCHANGED read

Next == Learn \/ Update

Spec == Init /\ [][Next]_vars
=============================================================================
