-------------------------- MODULE CommitSyncProofs --------------------------
(***************************************************************************)
(* Proofs about CommitSync, for any commands, keys, values and bounds: the *)
(* types, the mutual exclusion of the synchronisations, and that the       *)
(* console's rows keep the promises of Mirror, whatever is queued twice,   *)
(* executed late, in another order, more than once or not at all.          *)
(*                                                                         *)
(* The requests are justified by what has been read, not by what the       *)
(* console shows when they are executed: a deletion either has seen a      *)
(* reading that lacked the key, or there is a row of that key before it.   *)
(***************************************************************************)
EXTENDS CommitSync, WellFoundedInduction, SequenceTheorems, FiniteSetTheorems, TLAPS

RowSeq == Seq(Values \union {Gone})

\* The first row, or any before it, if the readings have always had the key.
Covered(k, n) == Absent \in readings[k] \/ \E m \in Live(shown[k]) : m <= n

\* The readings have said of k what lines say.
Said(k, lines) == IF lines = <<>> THEN Absent \in readings[k]
                  ELSE Entry(lines) \in readings[k]

Justified(r) ==
  /\ r.op = "patch" => r.value \in readings[r.key]
  /\ r.op = "delete" => Covered(r.key, r.n - 1)
  /\ r.op = "post" => \A k \in DOMAIN r.rows : r.rows[k] \in readings[k]
  /\ r.op = "put" => \A k \in Keys : Said(k, r.data[k])

\* What the holder of the mutex has in its hands was said and shown.
InHand ==
  \A g \in Goroutines :
    /\ pc[g] \in {"get", "compare"} => \A k \in KeysOf(table) : Said(k, current[k])
    /\ pc[g] = "compare" =>
         \A k \in KeysOf(table) : \A m \in Live(remote[k]) : Covered(k, m)

IInv == TypeOK /\ Serialised /\ InHand /\ \A r \in queued : Justified(r)

-----------------------------------------------------------------------------
(* Rows and lines. *)

LEMMA LeastExists ==
  ASSUME NEW S \in SUBSET Nat, S # {}
  PROVE  \E m \in S : \A n \in S : m <= n
<1> DEFINE R == {ss \in Nat \X Nat : ss[1] < ss[2]}
<1>1. IsWellFoundedOn(R, Nat)
  <2>1. OpToRel(<, Nat) = R BY DEF OpToRel
  <2>2. QED BY <2>1, NatLessThanWellFounded, Zenon
<1> HIDE DEF R
<1>2. PICK m \in S : \A n \in S : <<n, m>> \notin R
  BY <1>1, WFMin
<1>3. ASSUME NEW n \in S PROVE m <= n
  <2>1. n < m => <<n, m>> \in R BY DEF R
  <2>2. QED BY <1>2, <2>1
<1>4. QED BY <1>3

LEMMA Rows ==
  ASSUME NEW rs \in RowSeq
  PROVE  /\ DOMAIN rs = 1 .. Len(rs) /\ Len(rs) \in Nat
         /\ Live(rs) \subseteq Nat /\ Live(rs) \subseteq DOMAIN rs
         /\ \A n \in Live(rs) : rs[n] \in Values
  BY DEF RowSeq, Live

\* First is the first, if there is any.
LEMMA FirstRow ==
  ASSUME NEW rs \in RowSeq, Live(rs) # {}
  PROVE  First(rs) \in Live(rs) /\ \A m \in Live(rs) : First(rs) <= m
<1>1. \E n \in Live(rs) : \A m \in Live(rs) : n <= m
  BY Rows, LeastExists
<1>2. QED BY <1>1 DEF First

LEMMA EntryOfLines ==
  ASSUME NEW lines \in Seq(Values), lines # <<>>
  PROVE  Entry(lines) \in Values
  BY DEF Entry

-----------------------------------------------------------------------------
(* What a request makes of the rows. *)

LEMMA Appended ==
  ASSUME NEW rs \in RowSeq, NEW v \in Values, NEW known, v \in known
  PROVE  Append(rs, v) \in RowSeq /\ Console!Becomes(rs, Append(rs, v), known)
<1>1. /\ Append(rs, v) \in RowSeq /\ DOMAIN Append(rs, v) = 1 .. Len(rs) + 1
      /\ Append(rs, v)[Len(rs) + 1] = v
      /\ \A n \in DOMAIN rs : Append(rs, v)[n] = rs[n]
      /\ DOMAIN rs = 1 .. Len(rs) /\ Len(rs) \in Nat
  BY DEF RowSeq
<1>2. QED BY <1>1 DEF Console!Becomes, Console!Live, Console!IsFirst

\* A row that is there gets what was read.
LEMMA Patched ==
  ASSUME NEW rs \in RowSeq, NEW n \in Live(rs), NEW v \in Values, NEW known, v \in known
  PROVE  /\ [rs EXCEPT ![n] = v] \in RowSeq
         /\ Console!Becomes(rs, [rs EXCEPT ![n] = v], known)
<1>1. n \in 1 .. Len(rs) /\ DOMAIN rs = 1 .. Len(rs)
  BY Rows
<1>2. [rs EXCEPT ![n] = v] \in RowSeq
  BY <1>1, ExceptSeq DEF RowSeq
<1>3. QED
  BY <1>1, <1>2, ValuesAssumption
  DEF Console!Becomes, Console!Live, Console!IsFirst, Live

\* The row that goes is not the first, or the key was missed.
LEMMA Deleted ==
  ASSUME NEW rs \in RowSeq, NEW n \in Nat, NEW known,
         Absent \in known \/ \E m \in Live(rs) : m < n
  PROVE  /\ [rs EXCEPT ![n] = Gone] \in RowSeq
         /\ Console!Becomes(rs, [rs EXCEPT ![n] = Gone], known)
<1>1. DOMAIN rs = 1 .. Len(rs) /\ DOMAIN [rs EXCEPT ![n] = Gone] = DOMAIN rs
  BY Rows
<1>2. [rs EXCEPT ![n] = Gone] \in RowSeq
  <2>1. CASE n \in 1 .. Len(rs) BY <2>1, ExceptSeq DEF RowSeq
  <2>2. CASE n \notin 1 .. Len(rs)
    <3>1. [rs EXCEPT ![n] = Gone] = rs BY <1>1, <2>2 DEF RowSeq
    <3>2. QED BY <3>1
  <2>3. QED BY <2>1, <2>2
<1>3. Live([rs EXCEPT ![n] = Gone]) = Live(rs) \ {n}
  BY <1>1 DEF Live
<1>4. Absent \notin known => \A m \in Live(rs) : Console!IsFirst(rs, m) => m # n
  BY <1>1, Rows DEF Console!IsFirst, Console!Live, Live
<1>5. QED
  BY <1>1, <1>2, <1>3, <1>4 DEF Console!Becomes, Console!Live, Console!IsFirst, Live

\* A commit leaves the first row, or none if the reading lacked the key.
LEMMA Adopted ==
  ASSUME NEW rs \in RowSeq, NEW lines \in Seq(Values), NEW known,
         IF lines = <<>> THEN Absent \in known ELSE Entry(lines) \in known
  PROVE  Adopt(rs, lines) \in RowSeq /\ Console!Becomes(rs, Adopt(rs, lines), known)
<1>1. CASE lines # <<>> /\ Live(rs) = {}
  <2>1. Adopt(rs, lines) = Append(rs, Entry(lines)) BY <1>1 DEF Adopt
  <2>2. QED BY <1>1, <2>1, EntryOfLines, Appended
<1>2. CASE lines # <<>> /\ Live(rs) # {}
  <2> DEFINE rt == [n \in DOMAIN rs |-> IF n = First(rs) THEN Entry(lines) ELSE Gone]
  <2>1. Adopt(rs, lines) = rt BY <1>2 DEF Adopt
  <2>2. DOMAIN rt = 1 .. Len(rs) /\ DOMAIN rs = 1 .. Len(rs) /\ Len(rs) \in Nat
    BY Rows
  <2>3. Entry(lines) \in Values /\ Entry(lines) \in known /\ Entry(lines) # Gone
    BY <1>2, EntryOfLines, ValuesAssumption
  <2>4. rt \in RowSeq
    <3>1. rt \in [1 .. Len(rs) -> Values \union {Gone}] BY <2>2, <2>3
    <3>2. QED BY <2>2, <3>1 DEF RowSeq
  <2>5. Live(rt) = {First(rs)} /\ rt[First(rs)] = Entry(lines)
    BY <1>2, <2>2, <2>3, FirstRow, Rows DEF Live
  <2>6. \A n \in Live(rs) : Console!IsFirst(rs, n) => n = First(rs)
    <3>1. First(rs) \in Live(rs) /\ \A m \in Live(rs) : First(rs) <= m
      BY <1>2, FirstRow
    <3>2. QED BY <3>1, Rows DEF Console!IsFirst, Console!Live, Live
  <2>7. Console!Becomes(rs, rt, known)
    <3>1. \A n \in DOMAIN rs : rs[n] = Gone => rt[n] = Gone
      BY <1>2, FirstRow DEF Live
    <3>2. QED
      BY <2>2, <2>3, <2>5, <2>6, <3>1 DEF Console!Becomes, Console!Live, Live
  <2>8. QED BY <2>1, <2>4, <2>7
<1>3. CASE lines = <<>>
  <2>1. Adopt(rs, lines) = [n \in DOMAIN rs |-> Gone] BY <1>3 DEF Adopt
  <2>2. DOMAIN rs = 1 .. Len(rs) /\ Len(rs) \in Nat BY Rows
  <2>3. Adopt(rs, lines) \in RowSeq BY <2>1, <2>2 DEF RowSeq
  <2>4. QED BY <1>3, <2>1, <2>2, <2>3 DEF Console!Becomes, Console!Live
<1>4. QED BY <1>1, <1>2, <1>3

LEMMA Unchanged ==
  ASSUME NEW rs \in RowSeq, NEW known PROVE Console!Becomes(rs, rs, known)
  BY Rows DEF Console!Becomes, Console!Live, Console!IsFirst

\* A request that is justified keeps the promises of Mirror for every key.
LEMMA AfterBecomes ==
  ASSUME TypeOK, NEW r \in queued, Justified(r), NEW k \in Keys
  PROVE  /\ After(r, k) \in RowSeq
         /\ Console!Becomes(shown[k], After(r, k), readings[k])
<1>1. shown[k] \in RowSeq /\ r \in Requests
  BY DEF TypeOK, RowSeq
<1>2. Console!Becomes(shown[k], shown[k], readings[k])
  BY <1>1, Unchanged
<1>3. CASE r.op = "patch"
  <2>1. r.value \in Values BY <1>1, <1>3 DEF Requests
  <2>2. CASE r.key = k /\ r.n \in Live(shown[k])
    <3>1. After(r, k) = [shown[k] EXCEPT ![r.n] = r.value] BY <1>3, <2>2 DEF After
    <3>2. r.value \in readings[k] BY <1>3, <2>2 DEF Justified
    <3>3. QED BY <1>1, <2>1, <2>2, <3>1, <3>2, Patched
  <2>3. CASE ~(r.key = k /\ r.n \in Live(shown[k]))
    BY <1>1, <1>2, <1>3, <2>3 DEF After
  <2>4. QED BY <2>2, <2>3
<1>4. CASE r.op = "delete"
  <2>1. r.n \in Nat BY <1>1, <1>4 DEF Requests
  <2>2. CASE r.key = k
    <3>1. After(r, k) = [shown[k] EXCEPT ![r.n] = Gone] BY <1>4, <2>2 DEF After
    <3>2. Absent \in readings[k] \/ \E m \in Live(shown[k]) : m < r.n
      BY <1>1, <1>4, <2>1, <2>2, Rows DEF Justified, Covered
    <3>3. QED BY <1>1, <2>1, <3>1, <3>2, Deleted, ZenonT(30)
  <2>3. CASE r.key # k BY <1>1, <1>2, <1>4, <2>3 DEF After
  <2>4. QED BY <2>2, <2>3
<1>5. CASE r.op = "post"
  <2>1. CASE k \in DOMAIN r.rows
    <3>1. After(r, k) = Append(shown[k], r.rows[k]) BY <1>5, <2>1 DEF After
    <3>2. r.rows[k] \in Values BY <1>1, <1>5, <2>1 DEF Requests
    <3>3. r.rows[k] \in readings[k] BY <1>5, <2>1 DEF Justified
    <3>4. QED BY <1>1, <3>1, <3>2, <3>3, Appended
  <2>2. CASE k \notin DOMAIN r.rows BY <1>1, <1>2, <1>5, <2>2 DEF After
  <2>3. QED BY <2>1, <2>2
<1>6. CASE r.op = "put"
  <2>1. After(r, k) = Adopt(shown[k], r.data[k]) BY <1>6 DEF After
  <2>2. r.data[k] \in Seq(Values) BY <1>1, <1>6 DEF Requests
  <2>3. Said(k, r.data[k]) BY <1>6 DEF Justified
  <2>4. QED BY <1>1, <2>1, <2>2, <2>3, Adopted DEF Said
<1>7. QED BY <1>1, <1>3, <1>4, <1>5, <1>6 DEF Requests

\* What was said stays said, and while the rows keep the promises, a first row
\* that covers others is there or the key has been missed.
LEMMA StaysCovered ==
  ASSUME TypeOK, NEW k \in Keys, NEW n \in Int, Covered(k, n),
         readings[k] \subseteq readings'[k],
         Console!Becomes(shown[k], shown'[k], readings[k])
  PROVE  Covered(k, n)'
<1>1. CASE Absent \in readings[k] BY <1>1 DEF Covered
<1>2. CASE Absent \notin readings[k]
  <2>1. PICK m \in Live(shown[k]) : m <= n BY <1>2 DEF Covered
  <2>2. shown[k] \in RowSeq BY DEF TypeOK, RowSeq
  <2>3. /\ First(shown[k]) \in Live(shown[k])
        /\ \A i \in Live(shown[k]) : First(shown[k]) <= i
    BY <2>1, <2>2, FirstRow
  <2>4. First(shown[k]) \in Live(shown'[k])
    BY <1>2, <2>2, <2>3, Rows
    DEF Console!Becomes, Console!Live, Console!IsFirst, Live
  <2>5. First(shown[k]) <= n BY <2>1, <2>2, <2>3, Rows
  <2>6. QED BY <2>4, <2>5 DEF Covered, Live
<1>3. QED BY <1>1, <1>2

-----------------------------------------------------------------------------
(* The steps: readings are heard, or rows change as Mirror allows.          *)

Hears == UNCHANGED shown /\ \A k \in Keys : readings[k] \subseteq readings'[k]
Shows == /\ UNCHANGED readings
         /\ \A k \in Keys : Console!Becomes(shown[k], shown'[k], readings[k])
Faithful == Hears \/ Shows

LEMMA KeysOfTable == \A t : KeysOf(t) \subseteq Keys
  BY DEF KeysOf, Keys

LEMMA Covering ==
  ASSUME TypeOK, Faithful, NEW k \in Keys, NEW n \in Int, Covered(k, n)
  PROVE  Covered(k, n)'
<1>1. shown[k] \in RowSeq BY DEF TypeOK, RowSeq
<1>2. Console!Becomes(shown[k], shown'[k], readings[k]) /\ readings[k] \subseteq readings'[k]
  BY <1>1, Unchanged DEF Faithful, Hears, Shows
<1>3. QED BY <1>2, StaysCovered

LEMMA Saying ==
  ASSUME Faithful, NEW k \in Keys, NEW lines, Said(k, lines)
  PROVE  Said(k, lines)'
<1>1. readings[k] \subseteq readings'[k] BY DEF Faithful, Hears, Shows
<1>2. QED BY <1>1 DEF Said

LEMMA StaysJustified ==
  ASSUME TypeOK, Faithful, NEW r \in queued, Justified(r)
  PROVE  Justified(r)'
<1>1. \A k \in Keys : readings[k] \subseteq readings'[k]
  BY DEF Faithful, Hears, Shows
<1>2. r \in Requests BY DEF TypeOK
<1>3. r.op = "patch" => r.value \in readings'[r.key]
  BY <1>1, <1>2 DEF Justified, Requests
<1>4. r.op = "delete" => Covered(r.key, r.n - 1)'
  <2>1. r.op = "delete" => r.key \in Keys /\ r.n - 1 \in Int BY <1>2 DEF Requests
  <2>2. QED BY <2>1, Covering DEF Justified
<1>5. r.op = "post" => \A k \in DOMAIN r.rows : r.rows[k] \in readings'[k]
  <2>1. r.op = "post" => DOMAIN r.rows \subseteq Keys BY <1>2 DEF Requests
  <2>2. QED BY <1>1, <2>1 DEF Justified
<1>6. r.op = "put" => \A k \in Keys : Said(k, r.data[k])'
  BY Saying DEF Justified
<1>7. QED BY <1>3, <1>4, <1>5, <1>6 DEF Justified

\* A step that brings nobody to "get" or "compare" leaves what is in the hands.
LEMMA StaysInHand ==
  ASSUME IInv, Faithful, UNCHANGED dataVars,
         \A g \in Goroutines : pc'[g] \in {"get", "compare"} => pc'[g] = pc[g]
  PROVE  InHand'
<1> SUFFICES ASSUME NEW g \in Goroutines
             PROVE  /\ pc'[g] \in {"get", "compare"} =>
                         \A k \in KeysOf(table) : Said(k, current[k])'
                    /\ pc'[g] = "compare" =>
                         \A k \in KeysOf(table) : \A m \in Live(remote[k]) :
                           Covered(k, m)'
  BY DEF InHand, dataVars
<1>1. ASSUME pc'[g] \in {"get", "compare"}, NEW k \in KeysOf(table)
      PROVE  Said(k, current[k])'
  <2>1. Said(k, current[k]) /\ k \in Keys
    BY <1>1, KeysOfTable DEF IInv, InHand
  <2>2. current'[k] = current[k] BY DEF dataVars
  <2>3. QED BY <2>1, <2>2, Saying DEF Said
<1>2. ASSUME pc'[g] = "compare", NEW k \in KeysOf(table), NEW m \in Live(remote[k])
      PROVE  Covered(k, m)'
  <2>1. Covered(k, m) /\ k \in Keys
    BY <1>2, KeysOfTable DEF IInv, InHand
  <2>2. m \in Int
    <3>1. remote[k] \in RowSeq BY <2>1 DEF IInv, TypeOK, RowSeq
    <3>2. QED BY <3>1, Rows
  <2>3. QED BY <2>1, <2>2, Covering DEF IInv
<1>3. QED BY <1>1, <1>2

\* A request that is executed, however late or often, and one that is lost.
LEMMA ExecuteStep ==
  ASSUME IInv, NEW r \in queued, Execute(r) \/ ExecuteAndRetry(r) \/ Lose(r)
  PROVE  IInv' /\ Faithful
<1>1. \/ UNCHANGED <<shown, readings>>
      \/ shown' = [k \in Keys |-> After(r, k)] /\ UNCHANGED readings
  BY DEF Execute, ExecuteAndRetry, Lose
<1>2. Faithful /\ shown' \in [Keys -> RowSeq]
  <2>1. CASE UNCHANGED <<shown, readings>>
    BY <2>1 DEF Faithful, Hears, IInv, TypeOK, RowSeq
  <2>2. CASE shown' = [k \in Keys |-> After(r, k)] /\ UNCHANGED readings
    BY <2>2, AfterBecomes DEF Faithful, Shows, IInv
  <2>3. QED BY <1>1, <2>1, <2>2
<1>3. /\ queued' \subseteq queued /\ fresh' \subseteq fresh
      /\ UNCHANGED <<host, alive, goVars, dataVars, readings, edits>>
      /\ faults' \in 0 .. MaxFaults
  BY BoundsAssumption DEF Execute, ExecuteAndRetry, Lose, Fault, IInv, TypeOK
<1>4. TypeOK'
  BY <1>2, <1>3 DEF IInv, TypeOK, RowSeq, goVars, dataVars
<1>5. Serialised' BY <1>3 DEF IInv, Serialised, goVars
<1>6. InHand'
  <2>1. \A g \in Goroutines : pc'[g] = pc[g] BY <1>3 DEF goVars
  <2>2. QED BY <1>2, <1>3, <2>1, StaysInHand
<1>7. \A q \in queued' : Justified(q)'
  BY <1>2, <1>3, StaysJustified DEF IInv
<1>8. QED BY <1>2, <1>4, <1>5, <1>6, <1>7 DEF IInv

\* Changes of the host, and what a goroutine does before it has the mutex.
LEMMA HostStep ==
  ASSUME IInv, Edit \/ \E g \in Goroutines : UserCommand(g) \/ UserCommandFails(g)
                                               \/ StartSync(g)
  PROVE  IInv' /\ Faithful
<1> DEFINE HostOK == /\ host' \in [Keys -> Seq(Values)] /\ fresh' \subseteq fresh
                     /\ edits' \in 0 .. MaxEdits
           PlaceOK == /\ pc' \in [Goroutines -> {"idle", "changed", "failed", "lock",
                                                 "next", "get", "compare", "done"}]
                      /\ todo' \in [Goroutines -> SUBSET Tables]
                      /\ \A g \in Goroutines : \A a \in {"next", "get", "compare"} :
                            pc'[g] = a <=> pc[g] = a
<1>1. UNCHANGED <<shown, queued, alive, mu, dataVars, readings, faults>>
  BY DEF Edit, UserCommand, UserCommandFails, StartSync, goVars
<1>2. Faithful BY <1>1 DEF Faithful, Hears
<1>3. HostOK
  <2>1. Lines \subseteq Seq(Values)
    <3>1. \A v, w \in Values : <<v>> \in Seq(Values) /\ <<v, w>> \in Seq(Values)
      OBVIOUS
    <3>2. <<>> \in Seq(Values) OBVIOUS
    <3>3. {<<v>> : v \in Values} \subseteq Seq(Values) BY <3>1
    <3>4. ASSUME NEW two \in Values \X Values PROVE two \in Seq(Values)
      <4>1. PICK v \in Values, w \in Values : two = <<v, w>> OBVIOUS
      <4>2. QED BY <3>1, <4>1, Zenon
    <3>5. QED BY <3>2, <3>3, <3>4, Zenon DEF Lines
  <2>2. CASE Edit BY <2>1, <2>2, BoundsAssumption DEF Edit, Change, IInv, TypeOK
  <2>3. ASSUME NEW g \in Goroutines, UserCommand(g) PROVE HostOK
    BY <2>1, <2>3, KeysOfTable DEF UserCommand, Change, Keys, IInv, TypeOK
  <2>4. ASSUME NEW g \in Goroutines, UserCommandFails(g) \/ StartSync(g) PROVE HostOK
    BY <2>4 DEF UserCommandFails, StartSync, IInv, TypeOK
  <2>5. QED BY <2>2, <2>3, <2>4
<1>4. PlaceOK
  <2>1. CASE Edit BY <2>1 DEF Edit, goVars, IInv, TypeOK
  <2>2. ASSUME NEW g \in Goroutines, UserCommand(g) \/ UserCommandFails(g) \/ StartSync(g)
        PROVE  PlaceOK
    <3>1. PICK from \in {"idle", "changed"}, to \in {"changed", "failed", "lock"} :
            Go(g, from, to)
      BY <2>2 DEF UserCommand, UserCommandFails, StartSync
    <3>2. todo' \in [Goroutines -> SUBSET Tables]
      <4>1. {"list"} \in SUBSET Tables BY DEF Tables
      <4>2. UNCHANGED todo \/ \E ts \in SUBSET Tables : todo' = [todo EXCEPT ![g] = ts]
        BY <2>2, <4>1 DEF UserCommand, UserCommandFails, StartSync, Compared
      <4>3. QED BY <4>2 DEF IInv, TypeOK
    <3>3. QED BY <3>1, <3>2 DEF Go, IInv, TypeOK
  <2>3. QED BY <2>1, <2>2
<1>5. TypeOK' BY <1>1, <1>3, <1>4 DEF IInv, TypeOK, dataVars
<1>6. Serialised' BY <1>1, <1>4 DEF IInv, Serialised
<1>7. InHand' BY <1>1, <1>2, <1>4, StaysInHand
<1>8. \A q \in queued' : Justified(q)' BY <1>1, <1>2, StaysJustified DEF IInv
<1>9. QED BY <1>2, <1>5, <1>6, <1>7, <1>8 DEF IInv

-----------------------------------------------------------------------------
(* Readings. *)

LEMMA ReadingTypes ==
  ASSUME TypeOK, NEW ks \in SUBSET Keys,
         NEW data \in Readings(ks) \union BrokenReadings(ks)
  PROVE  data \in [Keys -> Seq(Values)]
<1>1. /\ \A k \in Keys : host[k] \in Seq(Values)
      /\ <<>> \in Seq(Values) /\ <<Zero>> \in Seq(Values)
  BY ValuesAssumption DEF TypeOK
<1>2. CASE data \in Readings(ks) BY <1>1, <1>2 DEF Readings
<1>3. CASE data \in BrokenReadings(ks)
  <2>1. PICK part \in SUBSET ks :
          data = [k \in Keys |-> IF k \notin ks THEN <<>>
                                 ELSE IF k = Info THEN <<Zero>>
                                 ELSE IF k \in part THEN host[k] ELSE <<>>]
    BY <1>3 DEF BrokenReadings
  <2>2. QED BY <1>1, <2>1
<1>4. QED BY <1>2, <1>3

\* A reading adds to what was said, and what it returns is said.
LEMMA Hearing ==
  ASSUME TypeOK, NEW ks \in SUBSET Keys, NEW data \in [Keys -> Seq(Values)],
         readings' = Heard(ks, data)
  PROVE  /\ readings' \in [Keys -> SUBSET (Values \union {Absent})]
         /\ \A k \in Keys : readings[k] \subseteq readings'[k]
         /\ \A k \in ks : Said(k, data[k])'
<1>1. \A k \in Keys : data[k] # <<>> => Entry(data[k]) \in Values
  BY EntryOfLines
<1>2. \A k \in Keys : (IF data[k] = <<>> THEN Absent ELSE Entry(data[k]))
                        \in Values \union {Absent}
  BY <1>1
<1>3. readings' \in [Keys -> SUBSET (Values \union {Absent})]
  BY <1>2 DEF Heard, TypeOK
<1>4. \A k \in Keys : readings[k] \subseteq readings'[k]
  BY DEF Heard
<1>5. \A k \in ks : Said(k, data[k])'
  BY DEF Heard, Said, Entry
<1>6. QED BY <1>3, <1>4, <1>5

\* A commit queues what it has read of everything.
LEMMA CommitStep ==
  ASSUME IInv, NEW g \in Goroutines, Commit(g) PROVE IInv' /\ Faithful
<1>1. PICK data \in Readings(Keys) \union BrokenReadings(Keys) :
        ReadInto(Keys, data) /\ queued' = queued \union {Put(g, data)}
  BY DEF Commit
<1>2. data \in [Keys -> Seq(Values)] BY ReadingTypes DEF IInv
<1>3. /\ readings' \in [Keys -> SUBSET (Values \union {Absent})]
      /\ \A k \in Keys : readings[k] \subseteq readings'[k]
      /\ \A k \in Keys : Said(k, data[k])'
  BY <1>1, <1>2, Hearing DEF ReadInto, IInv
<1>4. /\ Go(g, "idle", "done") /\ fresh' = {}
      /\ UNCHANGED <<host, shown, alive, todo, mu, dataVars, edits>>
  BY DEF Commit
<1>5. Faithful BY <1>3, <1>4 DEF Faithful, Hears
<1>6. Put(g, data) \in Requests BY <1>2 DEF Put, Requests
<1>7. faults' \in 0 .. MaxFaults
  BY <1>1, BoundsAssumption DEF ReadInto, Fault, IInv, TypeOK
<1>8. TypeOK'
  BY <1>1, <1>3, <1>4, <1>6, <1>7 DEF IInv, TypeOK, Go, dataVars
<1>9. Serialised' BY <1>4 DEF IInv, TypeOK, Serialised, Go
<1>10. InHand'
  <2>1. \A h \in Goroutines : pc'[h] \in {"get", "compare"} => pc'[h] = pc[h]
    BY <1>4 DEF Go, IInv, TypeOK
  <2>2. QED BY <1>4, <1>5, <2>1, StaysInHand
<1>11. \A r \in queued' : Justified(r)'
  <2>1. Justified(Put(g, data))' BY <1>3 DEF Justified, Put
  <2>2. QED BY <1>1, <1>5, <2>1, StaysJustified DEF IInv
<1>12. QED BY <1>5, <1>8, <1>9, <1>10, <1>11 DEF IInv

-----------------------------------------------------------------------------
(* syncSystemInfo: only the holder of the mutex is there. *)

Inside == {"next", "get", "compare"}

\* A step of the holder that keeps the mutex.
LEMMA HolderGoes ==
  ASSUME IInv, NEW g \in Goroutines, NEW from \in Inside, NEW to \in Inside,
         Go(g, from, to), UNCHANGED mu
  PROVE  /\ Serialised'
         /\ pc' \in [Goroutines -> {"idle", "changed", "failed", "lock", "next", "get",
                                   "compare", "done"}]
         /\ pc'[g] = to /\ \A h \in Goroutines \ {g} : pc'[h] \notin Inside
  BY DEF IInv, TypeOK, Serialised, Go, Inside

LEMMA LockStep ==
  ASSUME IInv, NEW g \in Goroutines, Lock(g) \/ Unlock(g) PROVE IInv' /\ Faithful
<1>1. /\ UNCHANGED <<host, shown, queued, alive, todo, dataVars, readings, fresh>>
      /\ UNCHANGED <<edits, faults>>
  BY DEF Lock, Unlock
<1>2. Faithful BY <1>1 DEF Faithful, Hears
<1>3. Serialised' /\ mu' \in Goroutines \union {NoOne}
  BY NamesAssumption
  DEF IInv, TypeOK, Serialised, Lock, Unlock, Go, MutexFree, Released
<1>4. /\ pc' \in [Goroutines -> {"idle", "changed", "failed", "lock", "next", "get",
                                 "compare", "done"}]
      /\ \A h \in Goroutines : pc'[h] \in {"get", "compare"} => pc'[h] = pc[h]
  BY DEF IInv, TypeOK, Lock, Unlock, Go
<1>5. TypeOK' BY <1>1, <1>3, <1>4 DEF IInv, TypeOK, dataVars
<1>6. InHand' BY <1>1, <1>2, <1>4, StaysInHand
<1>7. \A r \in queued' : Justified(r)' BY <1>1, <1>2, StaysJustified DEF IInv
<1>8. QED BY <1>2, <1>3, <1>5, <1>6, <1>7 DEF IInv

LEMMA ReadStep == ASSUME IInv, NEW g \in Goroutines, Read(g) PROVE IInv' /\ Faithful
<1>0. PICK t \in todo[g] :
        /\ todo' = [todo EXCEPT ![g] = @ \ {t}] /\ table' = t
        /\ \E data \in Readings(KeysOf(t)) \union BrokenReadings(KeysOf(t)) :
             ReadInto(KeysOf(t), data) /\ current' = data
  BY DEF Read
<1>1. PICK data \in Readings(KeysOf(t)) \union BrokenReadings(KeysOf(t)) :
        /\ todo' = [todo EXCEPT ![g] = @ \ {t}] /\ table' = t
        /\ ReadInto(KeysOf(t), data) /\ current' = data
  BY <1>0
<1>2. /\ Go(g, "next", "get")
      /\ UNCHANGED <<host, shown, queued, alive, mu, remote, fresh, edits>>
  BY DEF Read
<1>3. t \in Tables /\ KeysOf(t) \in SUBSET Keys
  BY <1>1, KeysOfTable DEF IInv, TypeOK
<1>4. data \in [Keys -> Seq(Values)] BY <1>3, ReadingTypes DEF IInv
<1>5. /\ readings' \in [Keys -> SUBSET (Values \union {Absent})]
      /\ \A k \in Keys : readings[k] \subseteq readings'[k]
      /\ \A k \in KeysOf(t) : Said(k, data[k])'
  BY <1>1, <1>3, <1>4, Hearing DEF ReadInto, IInv
<1>6. Faithful BY <1>2, <1>5 DEF Faithful, Hears
<1>7. /\ Serialised' /\ pc'[g] = "get" /\ \A h \in Goroutines \ {g} : pc'[h] \notin Inside
      /\ pc' \in [Goroutines -> {"idle", "changed", "failed", "lock", "next", "get",
                                "compare", "done"}]
  BY <1>2, HolderGoes DEF Inside
<1>8. TypeOK'
  <2>1. todo' \in [Goroutines -> SUBSET Tables] BY <1>1 DEF IInv, TypeOK
  <2>2. faults' \in 0 .. MaxFaults
    BY <1>1, BoundsAssumption DEF ReadInto, Fault, IInv, TypeOK
  <2>3. QED BY <1>1, <1>2, <1>3, <1>4, <1>5, <1>7, <2>1, <2>2 DEF IInv, TypeOK
<1>9. InHand'
  <2>1. \A k \in KeysOf(table') : Said(k, current[k])'
    BY <1>1, <1>5 DEF Said
  <2>2. QED BY <1>7, <2>1 DEF InHand, Inside
<1>10. \A r \in queued' : Justified(r)' BY <1>2, <1>6, StaysJustified DEF IInv
<1>11. QED BY <1>6, <1>7, <1>8, <1>9, <1>10 DEF IInv

\* The rows that are fetched cover themselves.
LEMMA FetchStep ==
  ASSUME IInv, NEW g \in Goroutines, Fetch(g) \/ FetchFails(g) \/ FetchPanics(g)
  PROVE  IInv' /\ Faithful
<1>1. /\ UNCHANGED <<host, shown, queued, todo, mu, table, readings, edits, faults>>
      /\ alive' \in BOOLEAN
  BY DEF Fetch, FetchFails, FetchPanics, dataVars, IInv, TypeOK
<1>2. Faithful BY <1>1 DEF Faithful, Hears
<1>3. \A k \in Keys : <<>> \in Seq(Values) /\ <<>> \in Seq(Values \union {Gone})
  OBVIOUS
<1>4. fresh' \subseteq Tables
  BY DEF Fetch, FetchFails, FetchPanics, IInv, TypeOK
<1>5. /\ current' \in [Keys -> Seq(Values)]
      /\ remote' \in [Keys -> Seq(Values \union {Gone})]
  BY <1>3 DEF Fetch, FetchFails, FetchPanics, Nothing, dataVars, IInv, TypeOK
<1>6. PICK to \in {"compare", "next", "get"} : Go(g, "get", to)
  BY DEF Fetch, FetchFails, FetchPanics
<1>7. /\ Serialised' /\ pc'[g] = to /\ \A h \in Goroutines \ {g} : pc'[h] \notin Inside
      /\ pc' \in [Goroutines -> {"idle", "changed", "failed", "lock", "next", "get",
                                "compare", "done"}]
  BY <1>1, <1>6, HolderGoes DEF Inside
<1>8. TypeOK' BY <1>1, <1>4, <1>5, <1>7 DEF IInv, TypeOK
<1>9. InHand'
  <2>1. CASE Fetch(g)
    <3>1. /\ pc[g] = "get" /\ UNCHANGED <<table, current, readings, shown>>
          /\ remote' = [k \in Keys |-> IF k \in KeysOf(table) THEN shown[k] ELSE <<>>]
      BY <2>1 DEF Fetch, Go
    <3>2. \A k \in KeysOf(table) : Said(k, current[k])'
      BY <3>1 DEF IInv, InHand, Said
    <3>3. \A k \in KeysOf(table) : \A m \in Live(remote'[k]) : Covered(k, m)'
      <4>1. TAKE k \in KeysOf(table)
      <4>2. TAKE m \in Live(remote'[k])
      <4>3. k \in Keys BY KeysOfTable
      <4>4. remote'[k] = shown'[k] BY <3>1, <4>3
      <4>5. m \in Nat
        <5>1. shown[k] \in RowSeq BY <4>3 DEF IInv, TypeOK, RowSeq
        <5>2. QED BY <3>1, <4>4, <5>1, Rows
      <4>6. QED BY <4>4, <4>5 DEF Covered
    <3>4. QED BY <1>7, <3>1, <3>2, <3>3 DEF InHand, Inside
  <2>2. CASE FetchFails(g)
    BY <1>7, <2>2 DEF FetchFails, Go, InHand, Inside, IInv, TypeOK
  <2>3. CASE FetchPanics(g)
    <3>1. UNCHANGED dataVars /\ pc' = [pc EXCEPT ![g] = "get"] /\ pc[g] = "get"
      BY <2>3 DEF FetchPanics, Go
    <3>2. \A h \in Goroutines : pc'[h] \in {"get", "compare"} => pc'[h] = pc[h]
      BY <3>1 DEF IInv, TypeOK
    <3>3. QED BY <1>2, <3>1, <3>2, StaysInHand
  <2>4. QED BY <2>1, <2>2, <2>3
<1>10. \A r \in queued' : Justified(r)' BY <1>1, <1>2, StaysJustified DEF IInv
<1>11. QED BY <1>2, <1>7, <1>8, <1>9, <1>10 DEF IInv

\* The differences are justified, though the rows may have changed since.
LEMMA DifferencesJustified ==
  ASSUME IInv, NEW g \in Goroutines, pc[g] = "compare", NEW r \in Differences(g, table)
  PROVE  r \in Requests /\ Justified(r)
<1>1. \A k \in KeysOf(table) :
        /\ k \in Keys /\ Said(k, current[k])
        /\ remote[k] \in RowSeq /\ current[k] \in Seq(Values)
        /\ \A m \in Live(remote[k]) : Covered(k, m)
  BY KeysOfTable DEF IInv, TypeOK, InHand, RowSeq
<1>2. CASE r \in Patches(g, table)
  <2>1. PICK k \in ToPatch(table) : r = Patch(g, k, First(remote[k]), Entry(current[k]))
    BY <1>2 DEF Patches
  <2>2. k \in KeysOf(table) /\ current[k] # <<>> /\ Live(remote[k]) # {}
    BY <2>1 DEF ToPatch, Listed, Known
  <2>3. First(remote[k]) \in Nat BY <1>1, <2>2, FirstRow, Rows
  <2>4. Entry(current[k]) \in Values BY <1>1, <2>2, EntryOfLines
  <2>5. Entry(current[k]) \in readings[k] BY <1>1, <2>2 DEF Said
  <2>6. QED BY <1>1, <2>1, <2>2, <2>3, <2>4, <2>5 DEF Patch, Requests, Justified
<1>3. CASE r \in Deletions(g, table)
  <2>0. PICK k \in KeysOf(table) : \E n \in Surplus(k) : r = Delete(g, k, n)
    BY <1>3, Zenon DEF Deletions
  <2>1. PICK n \in Surplus(k) : r = Delete(g, k, n)
    BY <2>0
  <2>2. n \in Live(remote[k]) /\ n \in Nat
    BY <1>1, <2>1, Rows DEF Surplus
  <2>3. Covered(k, n - 1)
    <3>1. CASE current[k] = <<>> BY <1>1, <3>1 DEF Said, Covered
    <3>2. CASE current[k] # <<>>
      <4>1. PICK m \in Live(remote[k]) : m < n BY <2>1, <3>2 DEF Surplus
      <4>2. Covered(k, m) /\ m \in Nat BY <1>1, <4>1, Rows
      <4>3. CASE Absent \in readings[k] BY <4>3 DEF Covered
      <4>4. ASSUME NEW i \in Live(shown[k]), i <= m PROVE Covered(k, n - 1)
        <5>1. shown[k] \in RowSeq BY <1>1 DEF IInv, TypeOK, RowSeq
        <5>2. i \in Nat BY <5>1, Rows
        <5>3. i <= n - 1 BY <2>2, <4>1, <4>2, <4>4, <5>2
        <5>4. QED BY <5>3 DEF Covered
      <4>5. QED BY <4>2, <4>3, <4>4 DEF Covered
    <3>3. QED BY <3>1, <3>2
  <2>4. QED BY <1>1, <2>1, <2>2, <2>3 DEF Delete, Requests, Justified
<1>4. CASE r \in Creations(g, table)
  <2>0. r = Post(g, [k \in ToCreate(table) |-> Entry(current[k])])
    BY <1>4, Zenon DEF Creations
  <2>1. ToCreate(table) \in SUBSET Keys /\ ToCreate(table) \subseteq Listed(table)
    BY <1>1 DEF ToCreate, Listed
  <2>2. \A k \in ToCreate(table) : Entry(current[k]) \in Values \intersect readings[k]
    BY <1>1, <2>1, EntryOfLines DEF Listed, Said
  <2>3. r.rows \in [ToCreate(table) -> Values] /\ r.op = "post" /\ r.by = g
    BY <2>0, <2>2 DEF Post
  <2>4. r \in Requests BY <2>0, <2>1, <2>3 DEF Post, Requests
  <2>5. \A k \in DOMAIN r.rows : r.rows[k] \in readings[k]
    BY <2>0, <2>2 DEF Post
  <2>6. QED BY <2>3, <2>4, <2>5 DEF Justified
<1>5. QED BY <1>2, <1>3, <1>4 DEF Differences

LEMMA CompareStep ==
  ASSUME IInv, NEW g \in Goroutines, Compare(g) PROVE IInv' /\ Faithful
<1>1. /\ Go(g, "compare", "next") /\ queued' = queued \union Differences(g, table)
      /\ current' = Nothing /\ remote' = Nothing
      /\ UNCHANGED <<host, shown, alive, todo, mu, table, readings, fresh, edits, faults>>
  BY DEF Compare
<1>2. Faithful BY <1>1 DEF Faithful, Hears
<1>3. /\ Serialised' /\ pc'[g] = "next" /\ \A h \in Goroutines \ {g} : pc'[h] \notin Inside
      /\ pc' \in [Goroutines -> {"idle", "changed", "failed", "lock", "next", "get",
                                "compare", "done"}]
  BY <1>1, HolderGoes DEF Inside
<1>4. pc[g] = "compare" BY <1>1 DEF Go
<1>5. \A r \in queued' : r \in Requests
  BY <1>1, <1>4, DifferencesJustified DEF IInv, TypeOK
<1>6. TypeOK'
  <2>1. Nothing \in [Keys -> Seq(Values)] /\ Nothing \in [Keys -> Seq(Values \union {Gone})]
    BY DEF Nothing
  <2>2. QED BY <1>1, <1>3, <1>5, <2>1 DEF IInv, TypeOK
<1>7. InHand' BY <1>3 DEF InHand, Inside
<1>8. \A r \in queued' : Justified(r)'
  <2>1. TAKE r \in queued'
  <2>2. Justified(r) BY <1>1, <1>4, DifferencesJustified DEF IInv
  <2>3. QED BY <1>1, <2>2 DEF Justified, Covered, Said
<1>9. QED BY <1>2, <1>3, <1>6, <1>7, <1>8 DEF IInv

-----------------------------------------------------------------------------
LEMMA InitInv == Init => IInv /\ Console!Init
<1> SUFFICES ASSUME Init PROVE IInv /\ Console!Init
  OBVIOUS
<1>1. /\ <<>> \in Seq(Values) /\ <<>> \in Seq(Values \union {Gone})
      /\ \A v \in Values : <<v>> \in Seq(Values) /\ <<v>> \in Seq(Values \union {Gone})
  OBVIOUS
<1>2. \A k \in Keys : host[k] \in Seq(Values) /\ host[k] \in Seq(Values \union {Gone})
  <2>1. TAKE k \in Keys
  <2>2. host[k] \in {<<>>} \union {<<v>> : v \in Values \ {Zero}} BY DEF Init
  <2>3. CASE host[k] = <<>> BY <1>1, <2>3
  <2>4. CASE host[k] # <<>>
    <3>1. PICK v \in Values : host[k] = <<v>> BY <2>2, <2>4
    <3>2. QED BY <1>1, <3>1
  <2>5. QED BY <2>3, <2>4
<1>3. host \in [Keys -> Seq(Values)] BY <1>2 DEF Init
<1>4. shown \in [Keys -> Seq(Values \union {Gone})]
  <2>1. CASE shown = Nothing BY <1>1, <2>1 DEF Nothing
  <2>2. CASE shown = host BY <1>2, <1>3, <2>2
  <2>3. CASE shown = [k \in Keys |-> IF k = Info THEN host[k] ELSE host[k] \o host[k]]
    <3>1. \A k \in Keys : host[k] \o host[k] \in Seq(Values \union {Gone})
      BY <1>2, ConcatProperties
    <3>2. QED BY <1>2, <2>3, <3>1
  <2>4. QED BY <2>1, <2>2, <2>3 DEF Init
<1>5. TypeOK
  <2>1. /\ Nothing \in [Keys -> Seq(Values)]
        /\ Nothing \in [Keys -> Seq(Values \union {Gone})]
    BY <1>1 DEF Nothing
  <2>2. "info" \in Tables BY DEF Tables
  <2>3. QED BY <1>3, <1>4, <2>1, <2>2, BoundsAssumption DEF Init, TypeOK
<1>6. Serialised /\ InHand BY NamesAssumption DEF Init, Serialised, InHand
<1>7. Console!Init BY <1>4 DEF Init, Console!Init
<1>8. QED BY <1>5, <1>6, <1>7 DEF IInv, Init

LEMMA NextInv == IInv /\ [Next]_vars => IInv' /\ Faithful
<1> SUFFICES ASSUME IInv, [Next]_vars PROVE IInv' /\ Faithful
  OBVIOUS
<1>1. ASSUME NEW g \in Goroutines, Command(g) PROVE IInv' /\ Faithful
  BY <1>1, HostStep, CommitStep DEF Command
<1>2. ASSUME NEW g \in Goroutines, Sync(g) PROVE IInv' /\ Faithful
  BY <1>2, LockStep, ReadStep, FetchStep, CompareStep DEF Sync
<1>3. ASSUME NEW r \in queued, Execute(r) \/ ExecuteAndRetry(r) \/ Lose(r)
      PROVE  IInv' /\ Faithful
  BY <1>3, ExecuteStep
<1>4. CASE Edit BY <1>4, HostStep
<1>5. CASE UNCHANGED vars
  <2>1. Faithful BY <1>5 DEF vars, Faithful, Hears
  <2>2. TypeOK' /\ Serialised'
    BY <1>5 DEF vars, goVars, dataVars, IInv, TypeOK, Serialised
  <2>3. InHand' BY <1>5, <2>1, StaysInHand DEF vars, goVars
  <2>4. \A r \in queued' : Justified(r)' BY <1>5, <2>1, StaysJustified DEF vars, IInv
  <2>5. QED BY <2>1, <2>2, <2>3, <2>4 DEF IInv
<1>6. QED BY <1>1, <1>2, <1>3, <1>4, <1>5 DEF Next

\* A step of the agent, or of the console, is a step of Mirror or none.
LEMMA NextMirrors ==
  IInv /\ IInv' /\ Faithful => [Console!Next]_<<shown, readings>>
<1> SUFFICES ASSUME IInv, IInv', Faithful
             PROVE  [Console!Next]_<<shown, readings>>
  OBVIOUS
<1>1. CASE Hears
  <2>1. readings' \in [Keys -> SUBSET (Values \union {Absent})]
    BY DEF IInv, TypeOK
  <2>2. Console!Learn BY <1>1, <2>1 DEF Hears, Console!Learn
  <2>3. QED BY <2>2 DEF Console!Next
<1>2. CASE Shows BY <1>2 DEF Shows, Console!Next, Console!Update
<1>3. QED BY <1>1, <1>2 DEF Faithful

LEMMA Invariance == Spec => []IInv
<1>1. Init => IInv BY InitInv
<1>2. IInv /\ [Next]_vars => IInv' BY NextInv
<1>3. QED BY <1>1, <1>2, PTL DEF Spec

\* Every variable has its type, whatever is read, lost and repeated.
THEOREM CommitTypes == Spec => []TypeOK
<1>1. IInv => TypeOK BY DEF IInv
<1>2. QED BY <1>1, Invariance, PTL

\* The fields that syncSystemInfo works on belong to the holder of syncMutex,
\* however many commands synchronise.
THEOREM SerialisedTheorem == Spec => []Serialised
<1>1. IInv => Serialised BY DEF IInv
<1>2. QED BY <1>1, Invariance, PTL

\* The console never shows what was not read, and a key that every reading finds
\* never disappears from it, although each request is computed from rows that
\* have changed when it is executed.
THEOREM MirrorTheorem == Spec => MirrorSpec
<1>1. Init => Console!Init BY InitInv
<1>2. IInv /\ [Next]_vars => [Console!Next]_<<shown, readings>>
  BY NextInv, NextMirrors
<1>3. QED BY <1>1, <1>2, Invariance, PTL DEF Spec, MirrorSpec

-----------------------------------------------------------------------------
(* What a synchronisation comes to, in every order of execution.            *)

\* A request to change the rows of key k, other than a commit.
OfKey(r, k) == \/ r.op \in {"patch", "delete"} /\ r.key = k
               \/ r.op = "post" /\ k \in DOMAIN r.rows

ToGo(k, n) == \E r \in queued : r.op = "delete" /\ r.key = k /\ r.n = n
PatchesOf(k) == {r \in queued : r.op = "patch" /\ r.key = k}
PostsOf(k) == {r \in queued : r.op = "post" /\ k \in DOMAIN r.rows}

\* All rows are to go; or all but one, which has what the host says or is to get it;
\* or there is none, and one is to be created.
AllGo(k) == PostsOf(k) = {} /\ \A n \in Live(shown[k]) : ToGo(k, n)
OneStays(k) ==
  /\ PostsOf(k) = {}
  /\ \E f \in Live(shown[k]) :
       /\ ~ToGo(k, f) /\ \A n \in Live(shown[k]) : n # f => ToGo(k, n)
       /\ \A r \in PatchesOf(k) : r.n = f /\ r.value = Entry(host[k])
       /\ PatchesOf(k) = {} => shown[k][f] = Entry(host[k])
OneComes(k) ==
  /\ Live(shown[k]) = {} /\ PatchesOf(k) = {} /\ \A n \in Nat : ~ToGo(k, n)
  /\ \E r \in PostsOf(k) : PostsOf(k) = {r} /\ r.rows[k] = Entry(host[k])
Planned(k) == IF host[k] = <<>> THEN AllGo(k) ELSE OneStays(k) \/ OneComes(k)

Comparing(t) == table = t /\ \E g \in Goroutines : pc[g] = "compare"

\* What is about to be compared is what the console and the host have.
UpToDate(t) ==
  /\ Settled(t)
  /\ \A k \in KeysOf(t) : remote[k] = shown[k] /\ current[k] = host[k]

Plan ==
  \A t \in fresh : IF Comparing(t) THEN UpToDate(t) ELSE \A k \in KeysOf(t) : Planned(k)

\* A commit outdates every comparison, and the single row is never created.
Orderly ==
  /\ \A r \in queued : /\ r.op = "put" => fresh = {}
                       /\ r.op = "post" => DOMAIN r.rows \subseteq Names
  /\ Comparing("info") => Live(remote[Info]) # {}

LEMMA KeysApart ==
  /\ \A t \in Tables : \A k \in KeysOf(t) : k \in Keys /\ TableOf(k) = t
  /\ Info \in KeysOf("info") /\ Info \notin Names
BY NamesAssumption DEF Tables, KeysOf, Keys, TableOf

LEMMA NotAbout ==
  ASSUME Orderly, NEW r \in queued, r \in Requests, NEW t \in Tables, ~About(r, t)
  PROVE  r.op # "put" /\ \A k \in KeysOf(t) : ~OfKey(r, k)
<1>1. r.op \in {"patch", "delete", "post", "put"} BY DEF Requests
<1>2. CASE r.op = "post"
  <2>1. t = "info" /\ KeysOf(t) = {Info} BY <1>2 DEF About, Tables, KeysOf
  <2>2. Info \notin DOMAIN r.rows BY <1>2, KeysApart DEF Orderly
  <2> QED BY <1>2, <2>1, <2>2 DEF OfKey
<1> QED BY <1>1, <1>2 DEF About, OfKey

LEMMA AfterOther ==
  ASSUME NEW r \in Requests, r.op # "put", NEW k, ~OfKey(r, k)
  PROVE  After(r, k) = shown[k]
BY DEF After, OfKey, Requests

\* Nothing that is about k has come, gone or been executed.
LEMMA StaysPlanned ==
  ASSUME NEW k, Planned(k), host'[k] = host[k], shown'[k] = shown[k],
         \A r : OfKey(r, k) => (r \in queued' <=> r \in queued)
  PROVE  Planned(k)'
<1>1. PatchesOf(k)' = PatchesOf(k) BY DEF PatchesOf, OfKey
<1>2. PostsOf(k)' = PostsOf(k) BY DEF PostsOf, OfKey
<1>3. \A n : ToGo(k, n)' <=> ToGo(k, n) BY DEF ToGo, OfKey
<1> HIDE DEF PatchesOf, PostsOf, ToGo
<1>4. AllGo(k)' <=> AllGo(k) BY <1>2, <1>3 DEF AllGo
<1>5. OneStays(k)' <=> OneStays(k) BY <1>1, <1>2, <1>3 DEF OneStays
<1>6. OneComes(k)' <=> OneComes(k) BY <1>1, <1>2, <1>3 DEF OneComes
<1> QED BY <1>4, <1>5, <1>6 DEF Planned

LEMMA PlanStays ==
  ASSUME Plan, fresh' \subseteq fresh,
         \A t \in fresh' :
           /\ Settled(t) => Settled(t)'
           /\ \A k \in KeysOf(t) :
                /\ host'[k] = host[k] /\ shown'[k] = shown[k]
                /\ \A r : OfKey(r, k) => (r \in queued' <=> r \in queued),
         \/ /\ UNCHANGED dataVars
            /\ \A g \in Goroutines : pc'[g] = "compare" <=> pc[g] = "compare"
         \/ \A g \in Goroutines : pc[g] # "compare" /\ pc'[g] # "compare"
  PROVE  Plan'
<1> SUFFICES ASSUME NEW t \in fresh'
             PROVE  IF Comparing(t)' THEN UpToDate(t)' ELSE \A k \in KeysOf(t) : Planned(k)'
  BY DEF Plan
<1>1. Comparing(t)' <=> Comparing(t) BY DEF Comparing, dataVars
<1>2. CASE Comparing(t)
  <2>1. UNCHANGED dataVars BY <1>2 DEF Comparing
  <2>2. UpToDate(t) BY <1>2 DEF Plan
  <2>3. UpToDate(t)' BY <2>1, <2>2 DEF UpToDate, dataVars
  <2> QED BY <1>1, <1>2, <2>3
<1>3. CASE ~Comparing(t)
  <2>1. \A k \in KeysOf(t) : Planned(k) BY <1>3 DEF Plan
  <2>2. \A k \in KeysOf(t) : Planned(k)' BY <2>1, StaysPlanned
  <2> QED BY <1>1, <1>3, <2>2
<1> QED BY <1>2, <1>3

LEMMA PatchedRow ==
  ASSUME NEW rs \in RowSeq, NEW n \in Live(rs), NEW v \in Values
  PROVE  /\ Live([rs EXCEPT ![n] = v]) = Live(rs) /\ [rs EXCEPT ![n] = v][n] = v
BY Rows, ValuesAssumption DEF Live

LEMMA DeletedRow ==
  ASSUME NEW rs \in RowSeq, NEW n
  PROVE  /\ Live([rs EXCEPT ![n] = Gone]) = Live(rs) \ {n}
         /\ \A m \in Live(rs) \ {n} : [rs EXCEPT ![n] = Gone][m] = rs[m]
BY Rows DEF Live

LEMMA CreatedRow ==
  ASSUME NEW rs \in RowSeq, Live(rs) = {}, NEW v \in Values
  PROVE  \E f \in Nat : Live(Append(rs, v)) = {f} /\ Append(rs, v)[f] = v
<1>1. /\ DOMAIN Append(rs, v) = 1 .. Len(rs) + 1 /\ Append(rs, v)[Len(rs) + 1] = v
      /\ \A n \in 1 .. Len(rs) : Append(rs, v)[n] = rs[n]
      /\ DOMAIN rs = 1 .. Len(rs) /\ Len(rs) \in Nat
  BY DEF RowSeq
<1>2. \A n \in 1 .. Len(rs) : rs[n] = Gone BY <1>1 DEF Live
<1>3. Live(Append(rs, v)) = {Len(rs) + 1} BY <1>1, <1>2, ValuesAssumption DEF Live
<1> QED BY <1>1, <1>3

\* A request that is executed does its part.
LEMMA ExecutePlanned ==
  ASSUME TypeOK, NEW r \in queued, NEW k \in Keys, OfKey(r, k), Planned(k),
         UNCHANGED host, shown'[k] = After(r, k), queued' = queued \ {r}
  PROVE  Planned(k)'
<1>1. /\ r \in Requests /\ shown[k] \in RowSeq /\ host[k] \in Seq(Values)
      /\ \A q \in queued : q \in Requests
  BY DEF TypeOK, RowSeq
<1>2. host[k] # <<>> => Entry(host[k]) \in Values BY <1>1, EntryOfLines
<1>3. CASE r.op = "patch"
  <2>1. r.key = k /\ r.value \in Values BY <1>1, <1>3 DEF OfKey, Requests
  <2>2. /\ Live(shown'[k]) = Live(shown[k])
        /\ r.n \in Live(shown[k]) => shown'[k][r.n] = r.value
        /\ r.n \notin Live(shown[k]) => shown'[k] = shown[k]
    BY <1>1, <1>3, <2>1, PatchedRow DEF After
  <2>3. \A n : ToGo(k, n)' <=> ToGo(k, n) BY <1>3 DEF ToGo
  <2>4. PostsOf(k)' = PostsOf(k) /\ PatchesOf(k)' = PatchesOf(k) \ {r}
    BY <1>3 DEF PostsOf, PatchesOf
  <2>5. r \in PatchesOf(k) BY <1>3, <2>1 DEF PatchesOf
  <2> HIDE DEF PostsOf, PatchesOf, ToGo
  <2>6. CASE AllGo(k) /\ host[k] = <<>>
    <3>1. AllGo(k)' BY <2>2, <2>3, <2>4, <2>6 DEF AllGo
    <3> QED BY <2>6, <3>1 DEF Planned
  <2>7. CASE OneStays(k) /\ host[k] # <<>>
    <3>1. PICK f \in Live(shown[k]) :
            /\ ~ToGo(k, f) /\ \A n \in Live(shown[k]) : n # f => ToGo(k, n)
            /\ \A q \in PatchesOf(k) : q.n = f /\ q.value = Entry(host[k])
      BY <2>7 DEF OneStays
    <3>2. r.n = f /\ shown'[k][f] = Entry(host[k]) BY <2>2, <2>5, <3>1
    <3>3. OneStays(k)' BY <2>2, <2>3, <2>4, <2>7, <3>1, <3>2 DEF OneStays
    <3> QED BY <2>7, <3>3 DEF Planned
  <2> QED BY <2>5, <2>6, <2>7 DEF Planned, OneComes
<1>4. CASE r.op = "delete"
  <2>1. r.key = k /\ r.n \in Nat BY <1>1, <1>4 DEF OfKey, Requests
  <2>2. /\ Live(shown'[k]) = Live(shown[k]) \ {r.n}
        /\ \A m \in Live(shown[k]) \ {r.n} : shown'[k][m] = shown[k][m]
    <3>1. shown'[k] = [shown[k] EXCEPT ![r.n] = Gone] BY <1>4, <2>1 DEF After
    <3> DEFINE rs == shown[k]
               rt == [rs EXCEPT ![r.n] = Gone]
    <3>2. rs \in RowSeq BY <1>1
    <3> HIDE DEF rs
    <3>3. Live(rt) = Live(rs) \ {r.n} /\ \A m \in Live(rs) \ {r.n} : rt[m] = rs[m]
      BY <3>2, DeletedRow
    <3> HIDE DEF rt
    <3>4. shown'[k] = rt BY <3>1 DEF rt, rs
    <3> QED BY <3>3, <3>4 DEF rs
  <2>3. ToGo(k, r.n) BY <1>4, <2>1 DEF ToGo
  <2>4. \A n : /\ ToGo(k, n)' => ToGo(k, n)
               /\ n # r.n /\ ToGo(k, n) => ToGo(k, n)'
    BY <1>4 DEF ToGo
  <2>5. PostsOf(k)' = PostsOf(k) /\ PatchesOf(k)' = PatchesOf(k)
    BY <1>4 DEF PostsOf, PatchesOf
  <2> HIDE DEF PostsOf, PatchesOf, ToGo
  <2>6. CASE AllGo(k) /\ host[k] = <<>>
    <3>1. AllGo(k)' BY <2>2, <2>4, <2>5, <2>6 DEF AllGo
    <3> QED BY <2>6, <3>1 DEF Planned
  <2>7. CASE OneStays(k) /\ host[k] # <<>>
    <3>1. PICK f \in Live(shown[k]) :
            /\ ~ToGo(k, f) /\ \A n \in Live(shown[k]) : n # f => ToGo(k, n)
            /\ \A q \in PatchesOf(k) : q.n = f /\ q.value = Entry(host[k])
            /\ PatchesOf(k) = {} => shown[k][f] = Entry(host[k])
      BY <2>7 DEF OneStays
    <3>2. f # r.n /\ f \in Live(shown'[k]) /\ shown'[k][f] = shown[k][f]
      BY <2>2, <2>3, <3>1
    <3>3. ~ToGo(k, f)' /\ \A n \in Live(shown'[k]) : n # f => ToGo(k, n)'
      BY <2>2, <2>4, <3>1
    <3>4. OneStays(k)' BY <2>5, <2>7, <3>1, <3>2, <3>3 DEF OneStays
    <3> QED BY <2>7, <3>4 DEF Planned
  <2> QED BY <2>1, <2>3, <2>6, <2>7 DEF Planned, OneComes
<1>5. CASE r.op = "post"
  <2>1. k \in DOMAIN r.rows /\ r \in PostsOf(k) BY <1>5 DEF OfKey, PostsOf
  <2>2. OneComes(k) /\ host[k] # <<>> BY <2>1 DEF Planned, AllGo, OneStays
  <2>3. PostsOf(k) = {r} /\ r.rows[k] = Entry(host[k]) BY <2>1, <2>2 DEF OneComes
  <2>4. PICK f \in Nat : Live(shown'[k]) = {f} /\ shown'[k][f] = Entry(host[k])
    <3>1. shown'[k] = Append(shown[k], Entry(host[k])) BY <1>5, <2>1, <2>3 DEF After
    <3>2. Live(shown[k]) = {} BY <2>2 DEF OneComes
    <3> DEFINE rs == shown[k]
               v == Entry(host[k])
    <3>3. rs \in RowSeq /\ Live(rs) = {} /\ v \in Values BY <1>1, <1>2, <2>2, <3>2
    <3> HIDE DEF rs, v
    <3>4. \E f \in Nat : Live(Append(rs, v)) = {f} /\ Append(rs, v)[f] = v
      BY <3>3, CreatedRow
    <3>5. shown'[k] = Append(rs, v) BY <3>1 DEF rs, v
    <3> HIDE DEF Live
    <3> QED BY <3>4, <3>5 DEF v
  <2>5. PostsOf(k)' = {} BY <2>3 DEF PostsOf
  <2>6. PatchesOf(k)' = {} /\ \A n \in Nat : ~ToGo(k, n)'
    BY <2>2 DEF OneComes, PatchesOf, ToGo
  <2> HIDE DEF PostsOf, PatchesOf, ToGo
  <2>7. OneStays(k)' BY <2>4, <2>5, <2>6 DEF OneStays
  <2> QED BY <2>2, <2>7 DEF Planned
<1> QED BY <1>3, <1>4, <1>5 DEF OfKey

LEMMA DifferencesAre ==
  ASSUME NEW g, NEW t, NEW r
  PROVE  r \in Differences(g, t) <=>
           \/ \E k \in ToPatch(t) : r = Patch(g, k, First(remote[k]), Entry(current[k]))
           \/ \E k \in KeysOf(t) : \E n \in Surplus(k) : r = Delete(g, k, n)
           \/ ToCreate(t) # {} /\ r = Post(g, [k \in ToCreate(t) |-> Entry(current[k])])
<1>1. r \in Deletions(g, t) <=> \E k \in KeysOf(t) : \E n \in Surplus(k) : r = Delete(g, k, n)
  <2> DEFINE Of(k) == {Delete(g, k, n) : n \in Surplus(k)}
  <2>1. \A k : r \in Of(k) <=> \E n \in Surplus(k) : r = Delete(g, k, n) OBVIOUS
  <2>2. Deletions(g, t) = UNION {Of(k) : k \in KeysOf(t)} BY DEF Deletions
  <2> HIDE DEF Of
  <2>3. r \in UNION {Of(k) : k \in KeysOf(t)} <=> \E k \in KeysOf(t) : r \in Of(k)
    BY Zenon
  <2> QED BY <2>1, <2>2, <2>3
<1>2. r \in Patches(g, t) <=>
        \E k \in ToPatch(t) : r = Patch(g, k, First(remote[k]), Entry(current[k]))
  BY Zenon DEF Patches
<1>3. r \in Creations(g, t) <=>
        ToCreate(t) # {} /\ r = Post(g, [k \in ToCreate(t) |-> Entry(current[k])])
  BY Zenon DEF Creations
<1> QED BY <1>1, <1>2, <1>3 DEF Differences

\* The differences are about the table, and create no single row.
LEMMA DifferencesAbout ==
  ASSUME Orderly, NEW g \in Goroutines, pc[g] = "compare", table \in Tables,
         NEW r \in Differences(g, table)
  PROVE  /\ r.op # "put" /\ (r.op = "post" => DOMAIN r.rows \subseteq Names)
         /\ \A k : OfKey(r, k) => k \in KeysOf(table)
<1>1. ASSUME NEW k \in ToPatch(table), r = Patch(g, k, First(remote[k]), Entry(current[k]))
      PROVE  r.op = "patch" /\ r.key \in KeysOf(table)
  BY <1>1 DEF Patch, ToPatch, Listed
<1>2. ASSUME NEW k \in KeysOf(table), NEW n \in Surplus(k), r = Delete(g, k, n)
      PROVE  r.op = "delete" /\ r.key \in KeysOf(table)
  BY <1>2 DEF Delete
<1>3. ASSUME ToCreate(table) # {}, r = Post(g, [k \in ToCreate(table) |-> Entry(current[k])])
      PROVE  r.op = "post" /\ DOMAIN r.rows \subseteq KeysOf(table)
               /\ DOMAIN r.rows \subseteq Names
  <2>1. r.op = "post" /\ DOMAIN r.rows = ToCreate(table) BY <1>3 DEF Post
  <2>2. ToCreate(table) \subseteq KeysOf(table) BY DEF ToCreate, Listed
  <2>3. table = "info" => ToCreate(table) = {}
    BY DEF Orderly, Comparing, ToCreate, Listed, Known, KeysOf
  <2>4. table = "list" BY <1>3, <2>3 DEF Tables
  <2> QED BY <2>1, <2>2, <2>4 DEF KeysOf
<1> QED BY <1>1, <1>2, <1>3, DifferencesAre DEF OfKey

\* The differences are a plan.
LEMMA ComparePlanned ==
  ASSUME IInv, Orderly, UpToDate(table), NEW g \in Goroutines, Compare(g),
         NEW k \in KeysOf(table)
  PROVE  Planned(k)'
<1>1. /\ pc[g] = "compare" /\ queued' = queued \union Differences(g, table)
      /\ UNCHANGED <<host, shown>> /\ table \in Tables /\ k \in Keys
  BY KeysOfTable DEF Compare, Go, IInv, TypeOK
<1>2. \A r \in queued : ~OfKey(r, k)
  BY <1>1, NotAbout DEF UpToDate, Settled, IInv, TypeOK
<1>3. remote[k] = shown[k] /\ current[k] = host[k] /\ shown[k] \in RowSeq
  BY <1>1 DEF UpToDate, IInv, TypeOK, RowSeq
<1> DEFINE new == Patch(g, k, First(remote[k]), Entry(current[k]))
           rows == Post(g, [c \in ToCreate(table) |-> Entry(current[c])])
<1>4. \A n : ToGo(k, n)' <=> n \in Surplus(k)
  <2>1. ASSUME NEW n, ToGo(k, n)' PROVE n \in Surplus(k)
    <3>1. PICK r \in Differences(g, table) : r.op = "delete" /\ r.key = k /\ r.n = n
      BY <1>1, <1>2, <2>1 DEF ToGo, OfKey
    <3>2. PICK c \in KeysOf(table) : \E m \in Surplus(c) : r = Delete(g, c, m)
      BY <3>1, DifferencesAre DEF Patch, Post
    <3> QED BY <3>1, <3>2 DEF Delete
  <2>2. ASSUME NEW n \in Surplus(k) PROVE ToGo(k, n)'
    <3>1. Delete(g, k, n) \in queued' BY <1>1, DifferencesAre
    <3> QED BY <3>1 DEF ToGo, Delete
  <2> QED BY <2>1, <2>2
<1>5. PatchesOf(k)' = IF k \in ToPatch(table) THEN {new} ELSE {}
  <2>1. ASSUME NEW r \in PatchesOf(k)' PROVE k \in ToPatch(table) /\ r = new
    <3>1. r \in Differences(g, table) /\ r.op = "patch" /\ r.key = k
      BY <1>1, <1>2, <2>1 DEF PatchesOf, OfKey
    <3>2. PICK c \in ToPatch(table) : r = Patch(g, c, First(remote[c]), Entry(current[c]))
      BY <3>1, DifferencesAre DEF Delete, Post
    <3> QED BY <3>1, <3>2 DEF Patch
  <2>2. k \in ToPatch(table) => new \in PatchesOf(k)'
    <3>1. k \in ToPatch(table) => new \in queued' BY <1>1, DifferencesAre
    <3> QED BY <3>1 DEF PatchesOf, Patch
  <2> QED BY <2>1, <2>2
<1>6. PostsOf(k)' = IF k \in ToCreate(table) THEN {rows} ELSE {}
  <2>1. ASSUME NEW r \in PostsOf(k)' PROVE k \in ToCreate(table) /\ r = rows
    <3>1. r \in Differences(g, table) /\ r.op = "post" /\ k \in DOMAIN r.rows
      BY <1>1, <1>2, <2>1 DEF PostsOf, OfKey
    <3>2. r = rows BY <3>1, DifferencesAre DEF Delete, Patch
    <3> QED BY <3>1, <3>2 DEF Post
  <2>2. k \in ToCreate(table) => rows \in PostsOf(k)'
    <3>1. k \in ToCreate(table) => rows \in queued' BY <1>1, DifferencesAre
    <3> QED BY <3>1 DEF PostsOf, Post
  <2> QED BY <2>1, <2>2
<1>7. k \in ToPatch(table) => new.n = First(shown[k]) /\ new.value = Entry(host[k])
  BY <1>3 DEF Patch
<1>8. k \in ToCreate(table) => rows.rows[k] = Entry(host[k]) BY <1>3 DEF Post
<1> HIDE DEF new, rows, PatchesOf, PostsOf, ToGo
<1>9. CASE host[k] = <<>>
  <2>1. Surplus(k) = Live(shown[k]) BY <1>3, <1>9 DEF Surplus
  <2>2. k \notin ToCreate(table) BY <1>3, <1>9 DEF ToCreate, Listed
  <2>3. AllGo(k)' BY <1>1, <1>4, <1>6, <2>1, <2>2 DEF AllGo
  <2> QED BY <1>1, <1>9, <2>3 DEF Planned
<1>10. CASE host[k] # <<>> /\ Live(shown[k]) # {}
  <2> DEFINE f == First(shown[k])
  <2>1. f \in Live(shown[k]) /\ \A m \in Live(shown[k]) : f <= m
    BY <1>3, <1>10, FirstRow
  <2>2. \A n \in Live(shown[k]) : n \in Surplus(k) <=> n # f
    <3>1. Live(shown[k]) \subseteq Nat BY <1>3, Rows
    <3> HIDE DEF f
    <3> QED BY <1>3, <1>10, <2>1, <3>1 DEF Surplus
  <2>3. k \notin ToCreate(table) BY <1>3, <1>10 DEF ToCreate, Known
  <2>4. k \notin ToPatch(table) => shown[k][f] = Entry(host[k])
    BY <1>3, <1>10 DEF ToPatch, Listed, Known
  <2>5. OneStays(k)'
    <3>1. (new.n = f /\ new.value = Entry(host[k])) \/ k \notin ToPatch(table) BY <1>7
    <3> HIDE DEF f
    <3> QED BY <1>1, <1>4, <1>5, <1>6, <2>1, <2>2, <2>3, <2>4, <3>1 DEF OneStays
  <2> QED BY <1>1, <1>10, <2>5 DEF Planned
<1>11. CASE host[k] # <<>> /\ Live(shown[k]) = {}
  <2>1. Surplus(k) = {} /\ k \notin ToPatch(table) /\ k \in ToCreate(table)
    BY <1>3, <1>11 DEF Surplus, ToPatch, ToCreate, Listed, Known
  <2>2. OneComes(k)' BY <1>1, <1>4, <1>5, <1>6, <1>8, <1>11, <2>1 DEF OneComes
  <2> QED BY <1>1, <1>11, <2>2 DEF Planned
<1> QED BY <1>9, <1>10, <1>11

-----------------------------------------------------------------------------
\* Each step keeps the plans, makes one, or outdates the table.

LEMMA PlanExecute ==
  ASSUME IInv, Plan, Orderly, NEW r \in queued, Execute(r) \/ ExecuteAndRetry(r) \/ Lose(r)
  PROVE  Plan' /\ Orderly'
<1>0. UNCHANGED <<host, goVars, dataVars>> /\ queued' \subseteq queued /\ fresh' \subseteq fresh
  BY DEF Execute, ExecuteAndRetry, Lose
<1>1. Orderly' BY <1>0 DEF Orderly, Comparing, goVars, dataVars
<1>2. /\ r \in Requests /\ fresh \subseteq Tables BY DEF IInv, TypeOK
<1>3. /\ \A k \in Keys : shown'[k] \in {shown[k], After(r, k)}
      /\ \A q : q # r => (q \in queued' <=> q \in queued)
  BY DEF Execute, ExecuteAndRetry, Lose
<1>4. ASSUME NEW t \in fresh', ~About(r, t)
      PROVE  /\ Settled(t) => Settled(t)'
             /\ \A k \in KeysOf(t) :
                  /\ host'[k] = host[k] /\ shown'[k] = shown[k]
                  /\ \A q : OfKey(q, k) => (q \in queued' <=> q \in queued)
  <2>1. r.op # "put" /\ \A k \in KeysOf(t) : ~OfKey(r, k)
    BY <1>0, <1>2, <1>4, NotAbout
  <2>2. \A k \in KeysOf(t) : k \in Keys /\ After(r, k) = shown[k]
    BY <1>2, <2>1, AfterOther, KeysOfTable
  <2> QED BY <1>0, <1>3, <2>1, <2>2 DEF Settled
<1>5. CASE \A t \in fresh' : ~About(r, t)
  BY <1>0, <1>1, <1>4, <1>5, PlanStays DEF goVars
<1>6. CASE Execute(r)
  <2> SUFFICES ASSUME NEW t \in fresh
               PROVE  IF Comparing(t) THEN UpToDate(t)' ELSE \A k \in KeysOf(t) : Planned(k)'
    BY <1>0, <1>1, <1>6 DEF Plan, Execute, Comparing, goVars, dataVars
  <2>1. t \in fresh' /\ t \in Tables BY <1>2, <1>6 DEF Execute
  <2>2. CASE Comparing(t)
    <3>1. UpToDate(t) /\ ~About(r, t) BY <2>2 DEF Plan, UpToDate, Settled
    <3> QED BY <1>0, <1>4, <2>1, <2>2, <3>1 DEF UpToDate, dataVars
  <2>3. ASSUME ~Comparing(t), NEW k \in KeysOf(t) PROVE Planned(k)'
    <3>1. Planned(k) /\ k \in Keys BY <2>3, KeysOfTable DEF Plan
    <3>2. shown'[k] = After(r, k) /\ queued' = queued \ {r} BY <1>6, <3>1 DEF Execute
    <3>3. r.op # "put" BY DEF Orderly
    <3>4. CASE OfKey(r, k) BY <1>0, <3>1, <3>2, <3>4, ExecutePlanned DEF IInv
    <3>5. CASE ~OfKey(r, k)
      BY <1>0, <1>2, <1>3, <3>1, <3>2, <3>3, <3>5, AfterOther, StaysPlanned
    <3> QED BY <3>4, <3>5
  <2> QED BY <2>2, <2>3
<1> QED BY <1>5, <1>6 DEF ExecuteAndRetry, Lose

LEMMA PlanHost ==
  ASSUME IInv, Plan, Orderly,
         Edit \/ \E g \in Goroutines : \/ UserCommand(g) \/ UserCommandFails(g)
                                       \/ StartSync(g) \/ Lock(g) \/ Unlock(g)
  PROVE  Plan' /\ Orderly'
<1>1. /\ UNCHANGED <<shown, queued, dataVars>> /\ fresh' \subseteq fresh
      /\ \A g \in Goroutines : pc'[g] = "compare" <=> pc[g] = "compare"
  BY DEF Edit, UserCommand, UserCommandFails, StartSync, Lock, Unlock, Change, Go, goVars,
         IInv, TypeOK
<1>2. \A t \in fresh' : \A k \in KeysOf(t) : host'[k] = host[k]
  <2>1. CASE UNCHANGED host BY <2>1
  <2>2. ASSUME NEW c \in Keys, NEW lines \in Lines, Change(c, lines)
        PROVE  \A t \in fresh' : \A k \in KeysOf(t) : host'[k] = host[k]
    BY <2>2, KeysApart DEF Change, IInv, TypeOK
  <2>3. Names \subseteq Keys BY DEF Keys
  <2> QED BY <2>1, <2>2, <2>3 DEF Edit, UserCommand, UserCommandFails, StartSync, Lock, Unlock
<1>3. Plan' BY <1>1, <1>2, PlanStays DEF Settled
<1>4. Orderly' BY <1>1 DEF Orderly, Comparing, dataVars
<1> QED BY <1>3, <1>4

LEMMA PlanCommit ==
  ASSUME IInv, Plan, Orderly, NEW g \in Goroutines, Commit(g)
  PROVE  Plan' /\ Orderly'
<1>1. fresh' = {} BY DEF Commit
<1>2. \A r \in queued' : r \in queued \/ r.op = "put" BY DEF Commit, Put
<1>3. UNCHANGED dataVars /\ \A h \in Goroutines : pc'[h] = "compare" => pc[h] = "compare"
  BY DEF Commit, Go, IInv, TypeOK
<1> QED BY <1>1, <1>2, <1>3 DEF Plan, Orderly, Comparing, dataVars

\* Before and after, the holder of the mutex compares nothing, and nobody else does.
LEMMA PlanRead ==
  ASSUME IInv, Plan, Orderly, NEW g \in Goroutines, Read(g) \/ FetchFails(g) \/ FetchPanics(g)
  PROVE  Plan' /\ Orderly'
<1>1. UNCHANGED <<host, shown, queued, fresh>>
  BY DEF Read, FetchFails, FetchPanics
<1>2. \A h \in Goroutines : pc[h] # "compare" /\ pc'[h] # "compare"
  BY DEF Read, FetchFails, FetchPanics, Go, IInv, TypeOK, Serialised
<1>3. Plan' BY <1>1, <1>2, PlanStays DEF Settled
<1>4. Orderly' BY <1>1, <1>2 DEF Orderly, Comparing
<1> QED BY <1>3, <1>4

LEMMA PlanFetch ==
  ASSUME IInv, Plan, Orderly, NEW g \in Goroutines, Fetch(g)
  PROVE  Plan' /\ Orderly'
<1>1. /\ pc[g] = "get" /\ ~Missing /\ UNCHANGED <<host, shown, queued, table, current>>
      /\ remote' = [k \in Keys |-> IF k \in KeysOf(table) THEN shown[k] ELSE <<>>]
      /\ table \in Tables
  BY DEF Fetch, Go, IInv, TypeOK
<1>2. /\ \A h \in Goroutines : pc[h] # "compare"
      /\ pc'[g] = "compare"
  BY DEF Fetch, Go, IInv, TypeOK, Serialised
<1>3. \A k \in KeysOf(table) : k \in Keys /\ remote'[k] = shown[k] BY <1>1, KeysOfTable
<1>4. ASSUME NEW t \in fresh' PROVE IF Comparing(t)' THEN UpToDate(t)'
                                    ELSE \A k \in KeysOf(t) : Planned(k)'
  <2>1. CASE t = table
    <3>1. Settled(t) /\ current \in Readings(KeysOf(t)) BY <1>4, <2>1 DEF Fetch
    <3>2. \A k \in KeysOf(t) : current[k] = host[k] BY <1>3, <2>1, <3>1 DEF Readings
    <3>3. UpToDate(t)' BY <1>1, <1>3, <2>1, <3>1, <3>2 DEF UpToDate, Settled
    <3>4. Comparing(t)' BY <1>1, <1>2, <2>1 DEF Comparing
    <3> QED BY <3>3, <3>4
  <2>2. CASE t # table
    <3>1. t \in fresh BY <1>4, <2>2 DEF Fetch
    <3>2. ~Comparing(t) /\ ~Comparing(t)' BY <1>1, <2>2 DEF Comparing
    <3>3. \A k \in KeysOf(t) : Planned(k) BY <3>1, <3>2 DEF Plan
    <3>4. \A k \in KeysOf(t) : Planned(k)' BY <1>1, <3>3, StaysPlanned
    <3> QED BY <3>2, <3>4
  <2> QED BY <2>1, <2>2
<1>5. Orderly'
  <2>1. fresh' # {} => \A r \in queued : r.op # "put"
    <3>1. fresh' # {} => fresh # {} \/ Settled(table) BY DEF Fetch
    <3> QED BY <3>1 DEF Orderly, Settled, About
  <2>2. table = "info" => Live(remote'[Info]) # {}
    BY <1>1, <1>3, KeysApart DEF Missing
  <2> QED BY <1>1, <2>1, <2>2 DEF Orderly, Comparing
<1> QED BY <1>4, <1>5 DEF Plan

LEMMA PlanCompare ==
  ASSUME IInv, Plan, Orderly, NEW g \in Goroutines, Compare(g)
  PROVE  Plan' /\ Orderly'
<1>1. /\ pc[g] = "compare" /\ queued' = queued \union Differences(g, table)
      /\ UNCHANGED <<host, shown, table, fresh>> /\ table \in Tables /\ fresh \subseteq Tables
  BY DEF Compare, Go, IInv, TypeOK
<1>2. \A h \in Goroutines : pc'[h] # "compare"
  BY DEF Compare, Go, IInv, TypeOK, Serialised
<1>3. \A r \in Differences(g, table) :
        /\ r.op # "put" /\ (r.op = "post" => DOMAIN r.rows \subseteq Names)
        /\ \A k : OfKey(r, k) => k \in KeysOf(table)
  BY <1>1, DifferencesAbout
<1>4. Orderly' BY <1>1, <1>2, <1>3 DEF Orderly, Comparing
<1>5. ASSUME NEW t \in fresh', NEW k \in KeysOf(t) PROVE Planned(k)'
  <2>1. CASE t = table
    <3>1. UpToDate(table) BY <1>1, <1>5, <2>1 DEF Plan, Comparing
    <3> QED BY <1>5, <2>1, <3>1, ComparePlanned
  <2>2. CASE t # table
    <3>1. Planned(k) BY <1>1, <1>5, <2>2 DEF Plan, Comparing
    <3>2. k \notin KeysOf(table) BY <1>1, <1>5, <2>2, KeysApart
    <3> QED BY <1>1, <1>3, <3>1, <3>2, StaysPlanned
  <2> QED BY <2>1, <2>2
<1> QED BY <1>2, <1>4, <1>5 DEF Plan, Comparing

LEMMA PlanNext ==
  ASSUME IInv, Plan, Orderly, [Next]_vars PROVE Plan' /\ Orderly'
<1>1. CASE UNCHANGED vars
  <2>1. Plan' BY <1>1, PlanStays DEF vars, goVars, Settled
  <2> QED BY <1>1, <2>1 DEF vars, goVars, dataVars, Orderly, Comparing
<1> QED BY <1>1, PlanExecute, PlanHost, PlanCommit, PlanRead, PlanFetch, PlanCompare
        DEF Next, Command, Sync

\* A plan of which nothing is left to do has been carried out.
LEMMA PlanConverges ==
  ASSUME IInv, Plan, Orderly PROVE Converges
<1> SUFFICES ASSUME NEW t \in fresh, Settled(t), ~Comparing(t), NEW k \in KeysOf(t)
             PROVE  IF host[k] = <<>> THEN Live(shown[k]) = {}
                    ELSE /\ Cardinality(Live(shown[k])) = 1
                         /\ shown[k][First(shown[k])] = Entry(host[k])
  BY DEF Converges, Agree, Comparing
<1>1. Planned(k) /\ k \in Keys /\ t \in Tables BY KeysOfTable DEF Plan, IInv, TypeOK
<1>2. \A r \in queued : ~OfKey(r, k)
  BY <1>1, NotAbout DEF Settled, IInv, TypeOK
<1>3. PatchesOf(k) = {} /\ PostsOf(k) = {} /\ \A n : ~ToGo(k, n)
  BY <1>2 DEF PatchesOf, PostsOf, ToGo, OfKey
<1>4. CASE host[k] = <<>> BY <1>1, <1>3, <1>4 DEF Planned, AllGo
<1>5. CASE host[k] # <<>>
  <2>1. PICK f \in Live(shown[k]) :
          (\A n \in Live(shown[k]) : n = f) /\ shown[k][f] = Entry(host[k])
    BY <1>1, <1>3, <1>5 DEF Planned, OneStays, OneComes
  <2>2. Live(shown[k]) = {f} BY <2>1
  <2>3. shown[k] \in RowSeq BY <1>1 DEF IInv, TypeOK, RowSeq
  <2>4. First(shown[k]) = f BY <2>2, <2>3, FirstRow
  <2> QED BY <1>5, <2>1, <2>2, <2>4, FS_Singleton
<1> QED BY <1>4, <1>5

\* A synchronisation that reads and fetches undisturbed makes the console agree with the
\* host, in whatever order its requests are executed, from any rows: because for each
\* key its requests are a plan that no execution of one of them spoils.
THEOREM ConvergenceTheorem == Spec => []Converges
<1>1. Init => Plan /\ Orderly BY DEF Init, Plan, Orderly, Comparing
<1>2. IInv /\ [Next]_vars /\ (Plan /\ Orderly) => (Plan /\ Orderly)' BY PlanNext
<1>3. IInv /\ Plan /\ Orderly => Converges BY PlanConverges
<1> QED BY <1>1, <1>2, <1>3, Invariance, PTL DEF Spec
=============================================================================
