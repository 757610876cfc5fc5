----------------------------- MODULE FtpProofs -----------------------------
(***************************************************************************)
(* Proofs about Ftp, for any names, depth, trees and commands.             *)
(*                                                                         *)
(* No induction over trees is needed: an agenda says what is left of a     *)
(* command, and the invariant says of each path that is not below an entry *)
(* of the agenda that the command has done with it.                        *)
(***************************************************************************)
EXTENDS Ftp, SequenceTheorems, FiniteSetTheorems, TLAPS

Strings == Seq(Names)

-----------------------------------------------------------------------------
(* Paths: Under, Parent and Along, by the names in them. *)

LEMMA BoundsNat == MaxDepth \in Nat /\ MaxCommands \in Nat /\ MaxEdits \in Nat
BY BoundsAssumption

\* Paths are the sequences of names up to the longest.
LEMMA PathsAre ==
  \A p : p \in Paths <=> p \in Strings /\ Len(p) <= MaxDepth
<1>1. ASSUME NEW p \in Paths PROVE p \in Strings /\ Len(p) <= MaxDepth
  <2>1. PICK n \in 0 .. MaxDepth : p \in [1 .. n -> Names]
    BY DEF Paths
  <2>2. n \in Nat /\ n <= MaxDepth /\ p = [i \in 1 .. n |-> p[i]]
    BY <2>1, BoundsNat
  <2>3. p \in Strings /\ Len(p) = n
    BY <2>1, <2>2 DEF Strings
  <2> QED BY <2>2, <2>3
<1>2. ASSUME NEW p \in Strings, Len(p) <= MaxDepth PROVE p \in Paths
  <2>1. Len(p) \in 0 .. MaxDepth /\ p \in [1 .. Len(p) -> Names]
    BY <1>2, LenProperties, BoundsNat DEF Strings
  <2> QED BY <2>1 DEF Paths
<1> QED BY <1>1, <1>2

\* Two sequences are the same when their names are.
LEMMA SameNames ==
  ASSUME NEW p \in Strings, NEW q \in Strings, Len(p) = Len(q),
         \A i \in 1 .. Len(p) : p[i] = q[i]
  PROVE  p = q
BY SeqEqual DEF Strings

LEMMA StringType ==
  ASSUME NEW p \in Strings
  PROVE  Len(p) \in Nat /\ \A i \in 1 .. Len(p) : p[i] \in Names
BY LenProperties DEF Strings

\* The first n names of a path.
LEMMA FirstNames ==
  ASSUME NEW p \in Strings, NEW n \in 0 .. Len(p)
  PROVE  /\ SubSeq(p, 1, n) \in Strings
         /\ Len(SubSeq(p, 1, n)) = n
         /\ \A i \in 1 .. n : SubSeq(p, 1, n)[i] = p[i]
<1>1. n \in Int /\ \A i \in 1 .. n : p[i] \in Names
  BY StringType
<1>2. SubSeq(p, 1, n) \in Strings /\ Len(SubSeq(p, 1, n)) = IF 1 <= n THEN n - 1 + 1 ELSE 0
  BY <1>1, SubSeqProperties DEF Strings
<1>3. \A i \in 1 .. n - 1 + 1 : SubSeq(p, 1, n)[i] = p[1 + i - 1]
  BY <1>1, SubSeqProperties
<1>4. n \in Nat /\ n - 1 + 1 = n /\ \A i \in 1 .. n : 1 + i - 1 = i
  BY StringType
<1> QED BY <1>2, <1>3, <1>4

\* One path is under another when it begins with its names.
LEMMA UnderNames ==
  ASSUME NEW p \in Strings, NEW q \in Strings
  PROVE  Under(p, q) <=> Len(p) <= Len(q) /\ \A i \in 1 .. Len(p) : p[i] = q[i]
<1>1. CASE Len(p) <= Len(q)
  <2>1. Len(p) \in 0 .. Len(q) BY <1>1, StringType
  <2>2. /\ SubSeq(q, 1, Len(p)) \in Strings /\ Len(SubSeq(q, 1, Len(p))) = Len(p)
        /\ \A i \in 1 .. Len(p) : SubSeq(q, 1, Len(p))[i] = q[i]
    BY <2>1, FirstNames
  <2>3. (\A i \in 1 .. Len(p) : p[i] = q[i]) => SubSeq(q, 1, Len(p)) = p
    BY <2>2, SameNames
  <2> QED BY <1>1, <2>2, <2>3 DEF Under
<1>2. CASE ~(Len(p) <= Len(q))
  BY <1>2 DEF Under
<1> QED BY <1>1, <1>2

LEMMA UnderItself == ASSUME NEW p \in Strings PROVE Under(p, p)
BY UnderNames, StringType

LEMMA UnderBoth ==
  ASSUME NEW p \in Strings, NEW q \in Strings, NEW r \in Strings, Under(p, q), Under(q, r)
  PROVE  Under(p, r)
BY UnderNames, StringType

LEMMA UnderEachOther ==
  ASSUME NEW p \in Strings, NEW q \in Strings, Under(p, q), Under(q, p)
  PROVE  p = q
BY UnderNames, StringType, SameNames

LEMMA SameLength ==
  ASSUME NEW p \in Strings, NEW q \in Strings, Under(p, q), Len(p) = Len(q)
  PROVE  p = q
BY UnderNames, SameNames

\* Of two paths above a third, one is above the other.
LEMMA AboveTheSame ==
  ASSUME NEW p \in Strings, NEW q \in Strings, NEW r \in Strings, Under(p, r), Under(q, r)
  PROVE  Under(p, q) \/ Under(q, p)
BY UnderNames, StringType

LEMMA AbovePath ==
  ASSUME NEW p \in Strings, NEW q \in Paths, Under(p, q)
  PROVE  p \in Paths
BY UnderNames, StringType, PathsAre, BoundsNat

LEMMA ParentOf ==
  ASSUME NEW p \in Strings, p # <<>>
  PROVE  /\ Parent(p) \in Strings /\ Len(Parent(p)) = Len(p) - 1
         /\ Under(Parent(p), p) /\ Parent(p) # p /\ Base(p) \in Names
         /\ \A i \in 1 .. Len(p) - 1 : Parent(p)[i] = p[i]
<1>1. Len(p) \in Nat /\ Len(p) # 0
  BY EmptySeq, StringType DEF Strings
<1>2. Len(p) - 1 \in 0 .. Len(p) /\ Len(p) \in 1 .. Len(p)
  BY <1>1
<1>3. /\ Parent(p) \in Strings /\ Len(Parent(p)) = Len(p) - 1
      /\ \A i \in 1 .. Len(p) - 1 : Parent(p)[i] = p[i]
  BY <1>2, FirstNames DEF Parent
<1>4. Under(Parent(p), p) BY <1>1, <1>3, UnderNames
<1>5. Parent(p) # p BY <1>1, <1>3
<1>6. Base(p) \in Names BY <1>2, StringType DEF Base
<1> QED BY <1>3, <1>4, <1>5, <1>6

LEMMA Longer ==
  ASSUME NEW p \in Strings, NEW x \in Names
  PROVE  /\ Append(p, x) \in Strings /\ Append(p, x) # <<>>
         /\ Len(Append(p, x)) = Len(p) + 1 /\ Base(Append(p, x)) = x
         /\ \A i \in 1 .. Len(p) : Append(p, x)[i] = p[i]
         /\ Parent(Append(p, x)) = p /\ Under(p, Append(p, x))
<1>1. /\ Append(p, x) \in Strings /\ Append(p, x) # <<>>
      /\ Len(Append(p, x)) = Len(p) + 1
      /\ \A i \in 1 .. Len(p) : Append(p, x)[i] = p[i]
      /\ Append(p, x)[Len(p) + 1] = x
  BY AppendProperties DEF Strings
<1> DEFINE y == Append(p, x)
<1>2. Base(y) = x BY <1>1 DEF Base
<1> HIDE DEF y
<1>3. Len(p) \in Nat /\ Len(y) - 1 = Len(p) BY <1>1, StringType DEF y
<1>4. /\ Parent(y) \in Strings /\ Len(Parent(y)) = Len(p)
      /\ \A i \in 1 .. Len(p) : Parent(y)[i] = y[i]
  BY <1>1, <1>3, ParentOf DEF y
<1>5. \A i \in 1 .. Len(p) : y[i] = p[i] BY <1>1 DEF y
<1>6. Parent(y) = p BY <1>4, <1>5, SameNames
<1>7. y \in Strings BY <1>1 DEF y
<1>8. Under(p, y) BY <1>3, <1>5, <1>7, UnderNames
<1> QED BY <1>1, <1>2, <1>6, <1>8 DEF y

LEMMA LongerAgain ==
  ASSUME NEW p \in Strings, p # <<>>
  PROVE  Append(Parent(p), Base(p)) = p
<1>1. Len(p) \in Nat /\ Len(p) # 0
  BY EmptySeq, StringType DEF Strings
<1>2. /\ Append(Parent(p), Base(p)) \in Strings
      /\ Len(Append(Parent(p), Base(p))) = Len(p)
      /\ \A i \in 1 .. Len(p) - 1 : Append(Parent(p), Base(p))[i] = p[i]
      /\ Append(Parent(p), Base(p))[Len(p)] = p[Len(p)]
  BY <1>1, ParentOf, Longer DEF Base
<1>3. \A i \in 1 .. Len(p) : Append(Parent(p), Base(p))[i] = p[i]
  BY <1>1, <1>2
<1> QED BY <1>2, <1>3, SameNames

LEMMA AboveParent ==
  ASSUME NEW p \in Strings, NEW q \in Strings, Under(p, q), p # q
  PROVE  q # <<>> /\ Under(p, Parent(q))
<1>1. Len(p) < Len(q)
  BY UnderNames, StringType, SameLength
<1>2. q # <<>> BY <1>1, StringType, EmptySeq
<1>3. Parent(q) \in Strings /\ Len(Parent(q)) = Len(q) - 1
      /\ \A i \in 1 .. Len(q) - 1 : Parent(q)[i] = q[i]
  BY <1>2, ParentOf
<1>4. Len(p) <= Len(q) - 1 /\ Len(p) \in Nat /\ Len(q) \in Nat BY <1>1, StringType
<1>5. \A i \in 1 .. Len(p) : p[i] = q[i] BY UnderNames
<1>6. Under(p, Parent(q)) BY <1>3, <1>4, <1>5, UnderNames
<1> QED BY <1>2, <1>6

\* The name below p on the way from p to q.
Toward(p, q) == SubSeq(q, 1, Len(p) + 1)

LEMMA TowardIs ==
  ASSUME NEW p \in Strings, NEW q \in Strings, Under(p, q), p # q
  PROVE  /\ Toward(p, q) \in Strings /\ Toward(p, q) # <<>>
         /\ Len(Toward(p, q)) = Len(p) + 1
         /\ Parent(Toward(p, q)) = p /\ Under(Toward(p, q), q)
<1>1. Len(p) < Len(q) /\ Len(p) \in Nat /\ Len(q) \in Nat
  BY UnderNames, StringType, SameLength
<1>2. Len(p) + 1 \in 0 .. Len(q) BY <1>1
<1>3. /\ Toward(p, q) \in Strings /\ Len(Toward(p, q)) = Len(p) + 1
      /\ \A i \in 1 .. Len(p) + 1 : Toward(p, q)[i] = q[i]
  BY <1>2, FirstNames DEF Toward
<1>4. Toward(p, q) # <<>> BY <1>1, <1>3, EmptySeq
<1>5. /\ Parent(Toward(p, q)) \in Strings /\ Len(Parent(Toward(p, q))) = Len(p)
      /\ \A i \in 1 .. Len(p) : Parent(Toward(p, q))[i] = Toward(p, q)[i]
  BY <1>1, <1>3, <1>4, ParentOf, SMTT(30)
<1>6. \A i \in 1 .. Len(p) : Parent(Toward(p, q))[i] = p[i]
  BY <1>1, <1>3, <1>5, UnderNames
<1>7. Parent(Toward(p, q)) = p BY <1>5, <1>6, SameNames
<1>8. Under(Toward(p, q), q) BY <1>1, <1>3, UnderNames
<1> QED BY <1>3, <1>4, <1>7, <1>8

\* The path that is to p what r is to q has the names of p, then the rest of r.
LEMMA AlongNames ==
  ASSUME NEW p \in Strings, NEW q \in Strings, NEW r \in Strings, Under(q, r)
  PROVE  /\ Along(r, q, p) \in Strings
         /\ Len(Along(r, q, p)) = Len(p) + (Len(r) - Len(q))
         /\ \A i \in 1 .. Len(p) : Along(r, q, p)[i] = p[i]
         /\ \A i \in Len(q) + 1 .. Len(r) : Along(r, q, p)[Len(p) + (i - Len(q))] = r[i]
<1> DEFINE t == SubSeq(r, Len(q) + 1, Len(r))
           n == Len(r) - Len(q)
<1>1. Len(q) \in Nat /\ Len(r) \in Nat /\ Len(p) \in Nat /\ n \in Nat
  BY StringType, UnderNames
<1>2. \A i \in Len(q) + 1 .. Len(r) : r[i] \in Names
  BY <1>1, StringType
<1>3. /\ t \in Strings
      /\ Len(t) = IF Len(q) + 1 <= Len(r) THEN Len(r) - (Len(q) + 1) + 1 ELSE 0
      /\ \A i \in 1 .. Len(r) - (Len(q) + 1) + 1 : t[i] = r[Len(q) + 1 + i - 1]
  BY <1>1, <1>2, SubSeqProperties DEF Strings
<1>4. Len(t) = n /\ \A i \in 1 .. n : t[i] = r[Len(q) + i]
  <2>1. Len(t) = n BY <1>1, <1>3
  <2>2. Len(r) - (Len(q) + 1) + 1 = n /\ \A i \in 1 .. n : Len(q) + 1 + i - 1 = Len(q) + i
    BY <1>1
  <2> HIDE DEF t
  <2> QED BY <1>3, <2>1, <2>2
<1> HIDE DEF t
<1>5. /\ p \o t \in Strings /\ Len(p \o t) = Len(p) + Len(t)
      /\ \A i \in 1 .. Len(p) + Len(t) :
           (p \o t)[i] = IF i <= Len(p) THEN p[i] ELSE t[i - Len(p)]
  BY <1>3, ConcatProperties DEF Strings
<1> DEFINE a == p \o t
<1> HIDE DEF a
<1>6. /\ a \in Strings /\ Len(a) = Len(p) + n
      /\ \A i \in 1 .. Len(p) + n : a[i] = IF i <= Len(p) THEN p[i] ELSE t[i - Len(p)]
  BY <1>4, <1>5 DEF a
<1>7. \A i \in 1 .. Len(p) : a[i] = p[i]
  BY <1>1, <1>6
<1>8. ASSUME NEW i \in Len(q) + 1 .. Len(r)
      PROVE  a[Len(p) + (i - Len(q))] = r[i]
  <2>1. /\ i - Len(q) \in 1 .. n /\ Len(p) + (i - Len(q)) \in 1 .. Len(p) + n
        /\ ~(Len(p) + (i - Len(q)) <= Len(p))
        /\ Len(p) + (i - Len(q)) - Len(p) = i - Len(q) /\ Len(q) + (i - Len(q)) = i
    BY <1>1
  <2>2. a[Len(p) + (i - Len(q))] = t[Len(p) + (i - Len(q)) - Len(p)] BY <1>6, <2>1
  <2>3. t[i - Len(q)] = r[Len(q) + (i - Len(q))] BY <1>4, <2>1
  <2> QED BY <2>1, <2>2, <2>3
<1>9. a = Along(r, q, p) BY DEF a, t, Along
<1> QED BY <1>6, <1>7, <1>8, <1>9

LEMMA AlongItself ==
  ASSUME NEW p \in Strings, NEW q \in Strings
  PROVE  Along(q, q, p) = p
<1>1. Under(q, q) /\ Len(q) \in Nat /\ Len(p) \in Nat BY UnderItself, StringType
<1>2. /\ Along(q, q, p) \in Strings /\ Len(Along(q, q, p)) = Len(p) + (Len(q) - Len(q))
      /\ \A i \in 1 .. Len(p) : Along(q, q, p)[i] = p[i]
  BY <1>1, AlongNames
<1>3. Len(Along(q, q, p)) = Len(p) BY <1>1, <1>2
<1> HIDE DEF Along
<1> QED BY <1>2, <1>3, SameNames

LEMMA AlongUnder ==
  ASSUME NEW p \in Strings, NEW q \in Strings, NEW r \in Strings, Under(q, r)
  PROVE  Along(r, q, p) \in Strings /\ Under(p, Along(r, q, p))
<1>1. /\ Along(r, q, p) \in Strings /\ Len(Along(r, q, p)) = Len(p) + (Len(r) - Len(q))
      /\ \A i \in 1 .. Len(p) : Along(r, q, p)[i] = p[i]
  BY AlongNames
<1>2. Len(q) <= Len(r) /\ Len(q) \in Nat /\ Len(r) \in Nat /\ Len(p) \in Nat
  BY UnderNames, StringType
<1>3. Len(p) <= Len(Along(r, q, p)) BY <1>1, <1>2
<1> QED BY <1>1, <1>3, UnderNames

\* What is to p what the rest of r is: by its names, seen from where they come from.
LEMMA AlongIs ==
  ASSUME NEW p \in Strings, NEW q \in Strings, NEW r \in Strings, Under(q, r),
         NEW a \in Strings, Len(a) = Len(p) + (Len(r) - Len(q)), Under(p, a),
         \A i \in Len(q) + 1 .. Len(r) : a[Len(p) + (i - Len(q))] = r[i]
  PROVE  a = Along(r, q, p)
<1> DEFINE b == Along(r, q, p)
<1>1. /\ b \in Strings /\ Len(b) = Len(p) + (Len(r) - Len(q))
      /\ \A i \in 1 .. Len(p) : b[i] = p[i]
      /\ \A i \in Len(q) + 1 .. Len(r) : b[Len(p) + (i - Len(q))] = r[i]
  <2>1. b \in Strings /\ Len(b) = Len(p) + (Len(r) - Len(q)) BY AlongNames
  <2>2. \A i \in 1 .. Len(p) : b[i] = p[i] BY AlongNames
  <2>3. \A i \in Len(q) + 1 .. Len(r) : b[Len(p) + (i - Len(q))] = r[i]
    BY AlongNames
  <2>4. QED BY <2>1, <2>2, <2>3
<1> HIDE DEF b
<1>2. Len(q) <= Len(r) /\ Len(q) \in Nat /\ Len(r) \in Nat /\ Len(p) \in Nat
  BY UnderNames, StringType
<1>3. \A i \in 1 .. Len(p) : a[i] = p[i] BY UnderNames
<1>4. ASSUME NEW i \in 1 .. Len(a) PROVE a[i] = b[i]
  <2>1. CASE i <= Len(p)
    <3>1. i \in 1 .. Len(p) BY <1>2, <2>1
    <3> QED BY <1>1, <1>3, <3>1
  <2>2. CASE ~(i <= Len(p))
    <3>1. /\ Len(q) + (i - Len(p)) \in Len(q) + 1 .. Len(r)
          /\ Len(p) + ((Len(q) + (i - Len(p))) - Len(q)) = i
      BY <1>2, <2>2
    <3> QED BY <1>1, <3>1
  <2> QED BY <2>1, <2>2
<1>5. a = b BY <1>1, <1>4, SameNames
<1> QED BY <1>5 DEF b

LEMMA AlongBack ==
  ASSUME NEW p \in Strings, NEW q \in Strings, NEW r \in Strings, Under(q, r)
  PROVE  Along(Along(r, q, p), p, q) = r
<1> DEFINE a == Along(r, q, p)
<1>1. /\ a \in Strings /\ Len(a) = Len(p) + (Len(r) - Len(q)) /\ Under(p, a)
      /\ \A i \in Len(q) + 1 .. Len(r) : a[Len(p) + (i - Len(q))] = r[i]
  BY AlongNames, AlongUnder
<1> HIDE DEF a
<1>2. Len(q) <= Len(r) /\ Len(q) \in Nat /\ Len(r) \in Nat /\ Len(p) \in Nat
  BY UnderNames, StringType
<1>3. Len(r) = Len(q) + (Len(a) - Len(p)) BY <1>1, <1>2
<1>4. ASSUME NEW i \in Len(p) + 1 .. Len(a) PROVE r[Len(q) + (i - Len(p))] = a[i]
  <2>1. /\ Len(q) + (i - Len(p)) \in Len(q) + 1 .. Len(r)
        /\ Len(p) + ((Len(q) + (i - Len(p))) - Len(q)) = i
    BY <1>1, <1>2
  <2> QED BY <1>1, <2>1
<1>5. r = Along(a, p, q) BY <1>1, <1>3, <1>4, AlongIs
<1> QED BY <1>5 DEF a

LEMMA AlongBoth ==
  ASSUME NEW p \in Strings, NEW q \in Strings, NEW a \in Strings, NEW b \in Strings,
         Under(q, a), Under(a, b)
  PROVE  Under(q, b) /\ Under(Along(a, q, p), Along(b, q, p))
<1>1. Under(q, b) BY UnderBoth
<1> DEFINE c == Along(a, q, p)
           d == Along(b, q, p)
<1>2. /\ c \in Strings /\ Len(c) = Len(p) + (Len(a) - Len(q)) /\ Under(p, c)
      /\ \A i \in 1 .. Len(p) : c[i] = p[i]
      /\ \A i \in Len(q) + 1 .. Len(a) : c[Len(p) + (i - Len(q))] = a[i]
  <2>1. c \in Strings /\ Len(c) = Len(p) + (Len(a) - Len(q)) BY AlongNames
  <2>2. Under(p, c) BY AlongUnder
  <2>3. \A i \in 1 .. Len(p) : c[i] = p[i] BY AlongNames
  <2>4. \A i \in Len(q) + 1 .. Len(a) : c[Len(p) + (i - Len(q))] = a[i]
    BY AlongNames
  <2>5. QED BY <2>1, <2>2, <2>3, <2>4
<1>3. /\ d \in Strings /\ Len(d) = Len(p) + (Len(b) - Len(q)) /\ Under(p, d)
      /\ \A i \in 1 .. Len(p) : d[i] = p[i]
      /\ \A i \in Len(q) + 1 .. Len(b) : d[Len(p) + (i - Len(q))] = b[i]
  <2>1. d \in Strings /\ Len(d) = Len(p) + (Len(b) - Len(q)) BY <1>1, AlongNames
  <2>2. Under(p, d) BY <1>1, AlongUnder
  <2>3. \A i \in 1 .. Len(p) : d[i] = p[i] BY <1>1, AlongNames
  <2>4. \A i \in Len(q) + 1 .. Len(b) : d[Len(p) + (i - Len(q))] = b[i]
    BY <1>1, AlongNames
  <2>5. QED BY <2>1, <2>2, <2>3, <2>4
<1> HIDE DEF c, d
<1>4. /\ Len(q) <= Len(a) /\ Len(a) <= Len(b) /\ Len(q) \in Nat /\ Len(a) \in Nat
      /\ Len(b) \in Nat /\ Len(p) \in Nat /\ \A i \in 1 .. Len(a) : a[i] = b[i]
  BY UnderNames, StringType
<1>5. ASSUME NEW i \in 1 .. Len(c) PROVE c[i] = d[i]
  <2>1. CASE i <= Len(p)
    <3>1. i \in 1 .. Len(p) BY <1>4, <2>1
    <3> QED BY <1>2, <1>3, <3>1
  <2>2. CASE ~(i <= Len(p))
    <3> DEFINE j == Len(q) + (i - Len(p))
    <3>1. /\ j \in Len(q) + 1 .. Len(a) /\ j \in Len(q) + 1 .. Len(b) /\ j \in 1 .. Len(a)
          /\ Len(p) + (j - Len(q)) = i
      BY <1>2, <1>4, <2>2
    <3> HIDE DEF j
    <3>2. c[i] = a[j] /\ d[i] = b[j] /\ a[j] = b[j] BY <1>2, <1>3, <1>4, <3>1
    <3> QED BY <3>2
  <2> QED BY <2>1, <2>2
<1>6. Len(c) <= Len(d) BY <1>2, <1>3, <1>4
<1>7. Under(c, d) BY <1>2, <1>3, <1>5, <1>6, UnderNames
<1> QED BY <1>1, <1>7 DEF c, d

\* ... and only then.
LEMMA AlongOnly ==
  ASSUME NEW p \in Strings, NEW q \in Strings, NEW a \in Strings, NEW b \in Strings,
         Under(q, a), Under(q, b), Under(Along(a, q, p), Along(b, q, p))
  PROVE  Under(a, b)
<1> DEFINE c == Along(a, q, p)
           d == Along(b, q, p)
<1>1. c \in Strings /\ d \in Strings /\ Under(p, c) BY AlongUnder
<1>2. Along(c, p, q) = a /\ Along(d, p, q) = b BY AlongBack
<1>3. Under(c, d) OBVIOUS
<1> HIDE DEF c, d
<1>4. Under(Along(c, p, q), Along(d, p, q)) BY <1>1, <1>3, AlongBoth
<1> QED BY <1>2, <1>4

LEMMA AlongParent ==
  ASSUME NEW p \in Strings, NEW q \in Strings, NEW r \in Strings, Under(q, r), r # q
  PROVE  /\ Along(r, q, p) # <<>> /\ Under(q, Parent(r))
         /\ Parent(Along(r, q, p)) = Along(Parent(r), q, p)
<1> DEFINE b == Along(r, q, p)
<1>1. /\ b \in Strings /\ Len(b) = Len(p) + (Len(r) - Len(q)) /\ Under(p, b)
      /\ \A i \in Len(q) + 1 .. Len(r) : b[Len(p) + (i - Len(q))] = r[i]
  BY AlongNames, AlongUnder
<1> HIDE DEF b
<1>2. /\ Len(q) < Len(r) /\ Len(q) \in Nat /\ Len(r) \in Nat /\ Len(p) \in Nat
  BY UnderNames, SameLength, StringType
<1>3. p # b BY <1>1, <1>2
<1>4. r # <<>> /\ Under(q, Parent(r)) /\ b # <<>> /\ Under(p, Parent(b))
  BY <1>1, <1>3, AboveParent
<1>5. /\ Parent(r) \in Strings /\ Len(Parent(r)) = Len(r) - 1
      /\ \A i \in 1 .. Len(r) - 1 : Parent(r)[i] = r[i]
  BY <1>4, ParentOf
<1>6. /\ Parent(b) \in Strings /\ Len(Parent(b)) = Len(b) - 1
      /\ \A i \in 1 .. Len(b) - 1 : Parent(b)[i] = b[i]
  BY <1>1, <1>4, ParentOf
<1>7. Len(Parent(b)) = Len(p) + (Len(Parent(r)) - Len(q)) BY <1>1, <1>2, <1>5, <1>6
<1>8. ASSUME NEW i \in Len(q) + 1 .. Len(Parent(r))
      PROVE  Parent(b)[Len(p) + (i - Len(q))] = Parent(r)[i]
  <2>1. /\ i \in Len(q) + 1 .. Len(r) /\ i \in 1 .. Len(r) - 1
        /\ Len(p) + (i - Len(q)) \in 1 .. Len(b) - 1
    BY <1>1, <1>2, <1>5
  <2> QED BY <1>1, <1>5, <1>6, <2>1
<1>9. Parent(b) = Along(Parent(r), q, p) BY <1>4, <1>5, <1>6, <1>7, <1>8, AlongIs
<1> QED BY <1>4, <1>9 DEF b

LEMMA AlongLonger ==
  ASSUME NEW p \in Strings, NEW q \in Strings, NEW s \in Strings, NEW x \in Names,
         Under(q, s)
  PROVE  Along(Append(s, x), q, p) = Append(Along(s, q, p), x)
<1> DEFINE r == Append(s, x)
           b == Along(s, q, p)
           a == Append(b, x)
<1>1. /\ r \in Strings /\ Len(r) = Len(s) + 1 /\ Base(r) = x /\ Under(s, r)
      /\ \A i \in 1 .. Len(s) : r[i] = s[i]
  BY Longer
<1>2. /\ b \in Strings /\ Len(b) = Len(p) + (Len(s) - Len(q)) /\ Under(p, b)
      /\ \A i \in Len(q) + 1 .. Len(s) : b[Len(p) + (i - Len(q))] = s[i]
  BY AlongNames, AlongUnder
<1>3. /\ a \in Strings /\ Len(a) = Len(b) + 1 /\ Base(a) = x /\ Under(b, a)
      /\ \A i \in 1 .. Len(b) : a[i] = b[i]
  BY <1>2, Longer
<1> HIDE DEF r, b, a
<1>4. /\ Len(q) <= Len(s) /\ Len(q) \in Nat /\ Len(s) \in Nat /\ Len(p) \in Nat
  BY UnderNames, StringType
<1>5. Under(q, r) /\ Under(p, a) BY <1>1, <1>2, <1>3, UnderBoth
<1>6. Len(a) = Len(p) + (Len(r) - Len(q)) BY <1>1, <1>2, <1>3, <1>4
<1>7. ASSUME NEW i \in Len(q) + 1 .. Len(r) PROVE a[Len(p) + (i - Len(q))] = r[i]
  <2>1. CASE i = Len(r)
    <3>1. Len(p) + (i - Len(q)) = Len(a) BY <1>4, <1>6, <2>1
    <3> QED BY <1>1, <1>3, <2>1, <3>1 DEF Base
  <2>2. CASE i # Len(r)
    <3>1. /\ i \in Len(q) + 1 .. Len(s) /\ i \in 1 .. Len(s)
          /\ Len(p) + (i - Len(q)) \in 1 .. Len(b)
      BY <1>1, <1>2, <1>4, <2>2
    <3> QED BY <1>1, <1>2, <1>3, <3>1
  <2> QED BY <2>1, <2>2
<1>8. a = Along(r, q, p) BY <1>1, <1>3, <1>5, <1>6, <1>7, AlongIs
<1> QED BY <1>8 DEF r, a, b

\* Going on from where the source is to the destination leads to the same.
LEMMA AlongFurther ==
  ASSUME NEW p \in Strings, NEW q \in Strings, NEW s \in Strings, NEW r \in Strings,
         Under(q, s), Under(Along(s, q, p), r)
  PROVE  Along(r, p, q) = Along(r, Along(s, q, p), s)
<1> DEFINE d == Along(s, q, p)
           b == Along(r, d, s)
<1>1. /\ d \in Strings /\ Len(d) = Len(p) + (Len(s) - Len(q)) /\ Under(p, d)
      /\ \A i \in Len(q) + 1 .. Len(s) : d[Len(p) + (i - Len(q))] = s[i]
  BY AlongNames, AlongUnder
<1>2. Under(d, r) OBVIOUS
<1> HIDE DEF d
<1>3. /\ b \in Strings /\ Len(b) = Len(s) + (Len(r) - Len(d)) /\ Under(s, b)
      /\ \A i \in 1 .. Len(s) : b[i] = s[i]
      /\ \A i \in Len(d) + 1 .. Len(r) : b[Len(s) + (i - Len(d))] = r[i]
  <2>1. d \in Strings BY <1>1
  <2>2. Under(s, b) BY <1>2, <2>1, AlongUnder
  <2>3. b \in Strings BY <1>2, <2>1, AlongNames
  <2>4. Len(b) = Len(s) + (Len(r) - Len(d)) BY <1>2, <2>1, AlongNames
  <2>5. \A i \in 1 .. Len(s) : b[i] = s[i] BY <1>2, <2>1, AlongNames
  <2>6. \A i \in Len(d) + 1 .. Len(r) : b[Len(s) + (i - Len(d))] = r[i]
    BY <1>2, <2>1, AlongNames
  <2>7. QED BY <2>2, <2>3, <2>4, <2>5, <2>6
<1> HIDE DEF b
<1>4. /\ Len(q) <= Len(s) /\ Len(d) <= Len(r) /\ Len(q) \in Nat /\ Len(s) \in Nat
      /\ Len(p) \in Nat /\ Len(r) \in Nat /\ \A i \in 1 .. Len(d) : d[i] = r[i]
  BY <1>1, <1>2, UnderNames, StringType
<1>5. Under(p, r) /\ Under(q, b) BY <1>1, <1>2, <1>3, UnderBoth
<1>6. Len(b) = Len(q) + (Len(r) - Len(p)) BY <1>1, <1>3, <1>4
<1>7. ASSUME NEW i \in Len(p) + 1 .. Len(r) PROVE b[Len(q) + (i - Len(p))] = r[i]
  <2>1. CASE i > Len(d)
    <3>1. i \in Len(d) + 1 .. Len(r) /\ Len(q) + (i - Len(p)) = Len(s) + (i - Len(d))
      BY <1>1, <1>4, <2>1
    <3> QED BY <1>3, <3>1
  <2>2. CASE ~(i > Len(d))
    <3> DEFINE j == Len(q) + (i - Len(p))
    <3>1. /\ j \in Len(q) + 1 .. Len(s) /\ j \in 1 .. Len(s)
          /\ Len(p) + (j - Len(q)) = i /\ i \in 1 .. Len(d)
      BY <1>1, <1>4, <2>2
    <3> HIDE DEF j
    <3>2. b[j] = s[j] /\ d[i] = s[j] /\ d[i] = r[i] BY <1>1, <1>3, <1>4, <3>1
    <3> QED BY <3>2 DEF j
  <2> QED BY <2>1, <2>2
<1>8. b = Along(r, p, q) BY <1>3, <1>5, <1>6, <1>7, AlongIs
<1> QED BY <1>8 DEF b, d

\* A copy to a place above its source writes into the source only what it finds in
\* the place where it meets itself.
LEMMA AlongMeets ==
  ASSUME NEW p \in Strings, NEW q \in Strings, NEW s \in Strings,
         Under(q, p), Under(p, s), Under(p, Along(s, p, q))
  PROVE  Under(Along(p, q, p), s)
<1> DEFINE d == Along(s, p, q)
<1>1. d \in Strings /\ Under(p, d) /\ Along(d, q, p) = s BY AlongUnder, AlongBack
<1> HIDE DEF d
<1> QED BY <1>1, AlongBoth

-----------------------------------------------------------------------------
(* Trees. *)

LEMMA EmptyIsPath == Empty \in Paths
<1>1. Empty \in Strings /\ Len(Empty) = 0 BY EmptySeq DEF Empty, Strings
<1> QED BY <1>1, PathsAre, BoundsNat

LEMMA NewNodes ==
  ASSUME NEW m \in Modes, NEW c \in Paths
  PROVE  /\ Dir(m) \in Nodes /\ Dir(m).is = "dir" /\ Dir(m) # None
         /\ File(c, m) \in Nodes /\ File(c, m).is = "file" /\ File(c, m) # None
         /\ None \in Nodes /\ None.is = "none"
BY DEF Nodes, Dir, File, None

LEMMA NodeIs ==
  ASSUME NEW n \in Nodes
  PROVE  /\ n.is \in {"none", "dir", "file"} /\ (n.is = "none" <=> n = None)
         /\ n.is = "dir" => n.mode \in Modes /\ n = Dir(n.mode)
         /\ n.is = "file" => /\ n.mode \in Modes /\ n.content \in Paths
                             /\ n = File(n.content, n.mode)
         /\ n # None => /\ [n EXCEPT !.mode = "new"] \in Nodes
                        /\ [n EXCEPT !.mode = "new"].is = n.is
                        /\ [n EXCEPT !.mode = "new"] # None
<1>1. CASE n = None BY <1>1 DEF None
<1>2. "new" \in Modes BY DEF Modes
<1>3. ASSUME NEW m \in Modes, n = Dir(m)
      PROVE  [n EXCEPT !.mode = "new"] = Dir("new") /\ n.mode = m
  BY <1>3 DEF Dir
<1>4. CASE \E m \in Modes : n = Dir(m)
  <2>1. PICK m \in Modes : n = Dir(m) BY <1>4
  <2>2. Empty \in Paths BY EmptyIsPath
  <2>3. /\ n.is = "dir" /\ n # None /\ Dir("new") \in Nodes /\ Dir("new").is = "dir"
        /\ Dir("new") # None
    BY <1>2, <2>1, <2>2, NewNodes
  <2>4. [n EXCEPT !.mode = "new"] = Dir("new") /\ n.mode = m BY <1>3, <2>1
  <2> QED BY <2>1, <2>3, <2>4
<1>5. ASSUME NEW c \in Paths, NEW m \in Modes, n = File(c, m)
      PROVE  [n EXCEPT !.mode = "new"] = File(c, "new") /\ n.content = c /\ n.mode = m
  BY <1>5 DEF File
<1>6. CASE \E c \in Paths, m \in Modes : n = File(c, m)
  <2>1. PICK c \in Paths, m \in Modes : n = File(c, m) BY <1>6
  <2>2. /\ n.is = "file" /\ n # None /\ File(c, "new") \in Nodes
        /\ File(c, "new").is = "file" /\ File(c, "new") # None
    BY <1>2, <2>1, NewNodes
  <2>3. [n EXCEPT !.mode = "new"] = File(c, "new") /\ n.content = c /\ n.mode = m
    BY <1>5, <2>1
  <2> QED BY <2>1, <2>2, <2>3
<1> QED BY <1>1, <1>4, <1>6 DEF Nodes

LEMMA InTree ==
  ASSUME NEW t, IsTree(t), NEW p
  PROVE  /\ In(t, p) \in Nodes /\ (p \in Paths => In(t, p) = t[p] /\ t[p] \in Nodes)
         /\ In(t, p).is # "none" <=> p \in Paths /\ t[p] # None
         /\ In(t, p) # None <=> p \in Paths /\ t[p] # None
         /\ In(t, p).is = "dir" <=> p \in Paths /\ t[p].is = "dir"
<1>1. None \in Nodes /\ None.is = "none" BY DEF Nodes, None
<1>2. p \in Paths => t[p] \in Nodes BY DEF IsTree
<1>3. p \in Paths => (t[p].is = "none" <=> t[p] = None) BY <1>2, NodeIs
<1> QED BY <1>1, <1>2, <1>3 DEF In

LEMMA Existing ==
  ASSUME IsTree(tree), NEW p
  PROVE  /\ At(p) \in Nodes /\ (p \in Paths => At(p) = tree[p] /\ tree[p] \in Nodes)
         /\ Exists(p) <=> p \in Paths /\ tree[p] # None
         /\ IsDir(p) <=> p \in Paths /\ tree[p].is = "dir"
         /\ IsDir(p) => Exists(p)
<1>1. /\ At(p) \in Nodes /\ (p \in Paths => At(p) = tree[p] /\ tree[p] \in Nodes)
      /\ Exists(p) <=> p \in Paths /\ tree[p] # None
      /\ IsDir(p) <=> p \in Paths /\ tree[p].is = "dir"
  BY InTree DEF At, Exists, IsDir
<1>2. IsDir(p) => Exists(p) BY DEF IsDir, Exists
<1> QED BY <1>1, <1>2

\* Above what exists there are directories.
LEMMA DirsAbove ==
  ASSUME NEW t, IsTree(t), NEW p \in Strings, NEW q \in Paths, Under(p, q), t[q] # None
  PROVE  /\ p \in Paths /\ t[p] # None /\ (p # q => t[p].is = "dir")
<1>1. p \in Paths BY AbovePath
<1>2. p # q => t[p].is = "dir" BY <1>1 DEF IsTree
<1>3. t[p] # None BY <1>2 DEF None
<1> QED BY <1>1, <1>2, <1>3

LEMMA PathStrings == Paths \subseteq Strings
BY PathsAre

\* A directory has finitely many entries, each one name longer.
LEMMA ChildrenAre ==
  ASSUME IsTree(tree), NEW p \in Strings
  PROVE  /\ IsFiniteSet(Children(p))
         /\ \A c \in Children(p) :
              /\ c \in Paths /\ c \in Strings /\ tree[c] # None /\ Exists(c)
              /\ Under(p, c) /\ c # p /\ Parent(c) = p /\ Len(c) = Len(p) + 1
              /\ Base(c) \in Names /\ c = Append(p, Base(c))
<1>1. ASSUME NEW c \in Children(p)
      PROVE  /\ c \in Paths /\ c \in Strings /\ tree[c] # None /\ Exists(c)
             /\ Under(p, c) /\ c # p /\ Parent(c) = p /\ Len(c) = Len(p) + 1
             /\ Base(c) \in Names /\ c = Append(p, Base(c))
  <2>1. c \in Paths /\ c # <<>> /\ Parent(c) = p /\ Exists(c) BY DEF Children
  <2>2. c \in Strings BY <2>1, PathStrings
  <2>3. tree[c] # None BY <2>1, Existing
  <2>4. Len(p) = Len(c) - 1 /\ Under(p, c) /\ p # c /\ Base(c) \in Names
    BY <2>1, <2>2, ParentOf
  <2>5. Len(c) \in Nat BY <2>2, StringType
  <2>6. Append(p, Base(c)) = c BY <2>1, <2>2, LongerAgain
  <2> QED BY <2>1, <2>2, <2>3, <2>4, <2>5, <2>6
<1> DEFINE f == [x \in Names |-> Append(p, x)]
           T == {Append(p, x) : x \in Names}
<1>2. f \in Surjection(Names, T) BY DEF Surjection
<1>3. IsFiniteSet(T) BY <1>2, NamesAssumption, FS_Surjection
<1>4. Children(p) \subseteq T BY <1>1
<1>5. IsFiniteSet(Children(p)) BY <1>3, <1>4, FS_Subset
<1> QED BY <1>1, <1>5

\* Whatever is below p is in one of its entries, or is one.
LEMMA TowardChild ==
  ASSUME IsTree(tree), NEW p \in Strings, NEW r \in Paths, Under(p, r), p # r,
         tree[r] # None
  PROVE  /\ Toward(p, r) \in Children(p) /\ Under(Toward(p, r), r)
         /\ Toward(p, r) # r => IsDir(Toward(p, r))
<1>1. r \in Strings BY PathStrings
<1>2. /\ Toward(p, r) \in Strings /\ Toward(p, r) # <<>> /\ Parent(Toward(p, r)) = p
      /\ Under(Toward(p, r), r)
  BY <1>1, TowardIs
<1>3. /\ Toward(p, r) \in Paths /\ tree[Toward(p, r)] # None
      /\ Toward(p, r) # r => tree[Toward(p, r)].is = "dir"
  BY <1>2, DirsAbove
<1>4. Exists(Toward(p, r)) /\ (Toward(p, r) # r => IsDir(Toward(p, r))) BY <1>3, Existing
<1> QED BY <1>2, <1>3, <1>4 DEF Children

-----------------------------------------------------------------------------
(* Agendas. *)

Items(s) == {s[i] : i \in 1 .. Len(s)}

LEMMA InOrderIs ==
  ASSUME NEW S, IsFiniteSet(S)
  PROVE  /\ Cardinality(S) \in Nat /\ InOrder(S) \in [1 .. Cardinality(S) -> S]
         /\ DOMAIN InOrder(S) = 1 .. Cardinality(S)
         /\ \A x \in S : \E i \in 1 .. Cardinality(S) : InOrder(S)[i] = x
<1> DEFINE n == Cardinality(S)
<1>1. n \in Nat /\ ExistsBijection(1 .. n, S) BY FS_CardinalityType
<1>2. PICK f : f \in Bijection(1 .. n, S) BY <1>1 DEF ExistsBijection
<1>3. f \in [1 .. n -> S] /\ \A i, j \in 1 .. n : f[i] = f[j] => i = j
  BY <1>2 DEF Bijection, Injection, IsInjective
<1>4. DOMAIN f = 1 .. n BY <1>3
<1>5. /\ InOrder(S) \in [1 .. n -> S]
      /\ \A i, j \in DOMAIN InOrder(S) : InOrder(S)[i] = InOrder(S)[j] => i = j
  <2>1. \E s \in [1 .. Cardinality(S) -> S] :
          \A i, j \in DOMAIN s : s[i] = s[j] => i = j
    BY <1>3, <1>4
  <2> QED BY <2>1, Zenon DEF InOrder
<1> DEFINE g == InOrder(S)
<1> HIDE DEF n, g
<1>6. g \in [1 .. n -> S] /\ DOMAIN g = 1 .. n BY <1>5 DEF g
<1>7. g \in Injection(1 .. n, S)
  BY <1>5, <1>6 DEF g, Injection, IsInjective
<1>8. IsFiniteSet(1 .. n) /\ Cardinality(1 .. n) = n
  BY <1>1, FS_Interval
<1>9. g \in Surjection(1 .. n, S)
  BY <1>7, <1>8, FS_Injection DEF n
<1>10. \A x \in S : \E i \in 1 .. n : g[i] = x BY <1>9 DEF Surjection
<1> QED BY <1>1, <1>6, <1>10 DEF n, g

LEMMA ItemsOf ==
  ASSUME NEW S, NEW s \in Seq(S), NEW t \in Seq(S)
  PROVE  /\ Items(s) \subseteq S /\ (Items(s) = {} <=> s = <<>>)
         /\ s \o t \in Seq(S) /\ Items(s \o t) = Items(s) \union Items(t)
<1>1. Len(s) \in Nat /\ Len(t) \in Nat /\ \A i \in 1 .. Len(s) : s[i] \in S
  BY LenProperties
<1>2. Items(s) \subseteq S BY <1>1 DEF Items
<1>3. s # <<>> => 1 \in 1 .. Len(s) BY EmptySeq
<1>4. s = <<>> => Items(s) = {} BY DEF Items
<1>5. Items(s) = {} <=> s = <<>> BY <1>3, <1>4 DEF Items
<1>6. /\ s \o t \in Seq(S) /\ Len(s \o t) = Len(s) + Len(t)
      /\ \A i \in 1 .. Len(s) + Len(t) :
           (s \o t)[i] = IF i <= Len(s) THEN s[i] ELSE t[i - Len(s)]
  BY ConcatProperties
<1>7. ASSUME NEW x \in Items(s \o t) PROVE x \in Items(s) \union Items(t)
  <2>1. PICK i \in 1 .. Len(s) + Len(t) : x = (s \o t)[i] BY <1>6 DEF Items
  <2>2. CASE i <= Len(s)
    <3>1. i \in 1 .. Len(s) /\ x = s[i] BY <1>1, <1>6, <2>1, <2>2
    <3> QED BY <3>1 DEF Items
  <2>3. CASE ~(i <= Len(s))
    <3>1. i - Len(s) \in 1 .. Len(t) /\ x = t[i - Len(s)] BY <1>1, <1>6, <2>1, <2>3
    <3> QED BY <3>1 DEF Items
  <2> QED BY <2>2, <2>3
<1>8. ASSUME NEW x \in Items(s) PROVE x \in Items(s \o t)
  <2>1. PICK i \in 1 .. Len(s) : x = s[i] BY DEF Items
  <2>2. i \in 1 .. Len(s) + Len(t) /\ i <= Len(s) BY <1>1
  <2>3. x = (s \o t)[i] BY <1>6, <2>1, <2>2
  <2> QED BY <1>6, <2>2, <2>3 DEF Items
<1>9. ASSUME NEW x \in Items(t) PROVE x \in Items(s \o t)
  <2>1. PICK i \in 1 .. Len(t) : x = t[i] BY DEF Items
  <2>2. /\ i + Len(s) \in 1 .. Len(s) + Len(t) /\ ~(i + Len(s) <= Len(s))
        /\ (i + Len(s)) - Len(s) = i
    BY <1>1
  <2>3. x = (s \o t)[i + Len(s)] BY <1>6, <2>1, <2>2
  <2> QED BY <1>6, <2>2, <2>3 DEF Items
<1> QED BY <1>2, <1>5, <1>6, <1>7, <1>8, <1>9

LEMMA NoItems == Items(<<>>) = {}
BY DEF Items

LEMMA OneItem ==
  ASSUME NEW S, NEW x \in S
  PROVE  <<x>> \in Seq(S) /\ Items(<<x>>) = {x} /\ <<x>> # <<>>
BY DEF Items

LEMMA HeadAndTail ==
  ASSUME NEW S, NEW s \in Seq(S), s # <<>>
  PROVE  /\ Head(s) \in S /\ Tail(s) \in Seq(S) /\ Head(s) \in Items(s)
         /\ Items(s) = {Head(s)} \union Items(Tail(s))
<1>1. Len(s) \in Nat /\ Len(s) # 0 BY EmptySeq
<1>2. /\ Head(s) \in S /\ Tail(s) \in Seq(S) /\ Len(Tail(s)) = Len(s) - 1
      /\ \A i \in 1 .. Len(Tail(s)) : Tail(s)[i] = s[i + 1]
  BY HeadTailProperties
<1>3. Head(s) = s[1] OBVIOUS
<1>4. Head(s) \in Items(s) BY <1>1, <1>3 DEF Items
<1>5. ASSUME NEW x \in Items(s) PROVE x \in {Head(s)} \union Items(Tail(s))
  <2>1. PICK i \in 1 .. Len(s) : x = s[i] BY DEF Items
  <2>2. CASE i = 1 BY <1>3, <2>1, <2>2
  <2>3. CASE i # 1
    <3>1. i - 1 \in 1 .. Len(Tail(s)) /\ (i - 1) + 1 = i BY <1>1, <1>2, <2>1, <2>3
    <3>2. x = Tail(s)[i - 1] BY <1>2, <2>1, <3>1
    <3> QED BY <3>1, <3>2 DEF Items
  <2> QED BY <2>2, <2>3
<1>6. ASSUME NEW x \in Items(Tail(s)) PROVE x \in Items(s)
  <2>1. PICK i \in 1 .. Len(Tail(s)) : x = Tail(s)[i] BY DEF Items
  <2>2. i + 1 \in 1 .. Len(s) /\ x = s[i + 1] BY <1>1, <1>2, <2>1
  <2> QED BY <2>2 DEF Items
<1> QED BY <1>2, <1>4, <1>5, <1>6

\* What InOrder puts in a row.
LEMMA InOrderItems ==
  ASSUME NEW S, IsFiniteSet(S)
  PROVE  /\ InOrder(S) \in Seq(S) /\ Items(InOrder(S)) = S
         /\ Len(InOrder(S)) = Cardinality(S)
<1> DEFINE n == Cardinality(S)
           g == InOrder(S)
<1>1. /\ n \in Nat /\ g \in [1 .. n -> S] /\ DOMAIN g = 1 .. n
      /\ \A x \in S : \E i \in 1 .. n : g[i] = x
  BY InOrderIs
<1> HIDE DEF n, g
<1>2. g \in Seq(S) /\ Len(g) = n BY <1>1
<1>3. Items(g) = S BY <1>1, <1>2 DEF Items
<1> QED BY <1>2, <1>3 DEF n, g

-----------------------------------------------------------------------------
(* Changes of a tree that leave it one. *)

\* One path is given a node.
LEMMA TreeWith ==
  ASSUME NEW t, IsTree(t), NEW p \in Paths, NEW n \in Nodes,
         n # None => p = <<>> \/ t[p] # None \/ t[Parent(p)].is = "dir",
         \A r \in Paths : Under(p, r) /\ p # r /\ t[r] # None => n.is = "dir"
  PROVE  IsTree([t EXCEPT ![p] = n])
<1> DEFINE u == [t EXCEPT ![p] = n]
<1>1. u \in [Paths -> Nodes] /\ u[p] = n /\ \A r \in Paths : r # p => u[r] = t[r]
  BY DEF IsTree
<1> HIDE DEF u
<1>2. ASSUME NEW r \in Paths, NEW s \in Paths, Under(r, s), r # s, u[s] # None
      PROVE  u[r].is = "dir"
  <2>0. r \in Strings /\ s \in Strings /\ p \in Strings BY PathStrings
  <2>1. CASE s = p
    <3>1. p # <<>> /\ Under(r, Parent(p)) BY <1>2, <2>0, <2>1, AboveParent
    <3>2. CASE t[p] # None
      BY <1>1, <1>2, <2>1, <3>2 DEF IsTree
    <3>3. CASE t[Parent(p)].is = "dir"
      <4>1. Parent(p) \in Strings /\ Under(Parent(p), p) BY <2>0, <3>1, ParentOf
      <4>2. Parent(p) \in Paths BY <4>1, AbovePath
      <4>3. t[Parent(p)] # None BY <3>3 DEF None
      <4>4. t[r].is = "dir" BY <3>1, <3>3, <4>2, <4>3 DEF IsTree
      <4> QED BY <1>1, <1>2, <2>1, <4>4
    <3> QED BY <1>1, <1>2, <2>1, <3>1, <3>2, <3>3
  <2>2. CASE s # p /\ r = p
    BY <1>1, <1>2, <2>2
  <2>3. CASE s # p /\ r # p
    BY <1>1, <1>2, <2>3 DEF IsTree
  <2> QED BY <2>1, <2>2, <2>3
<1>3. IsTree(u) BY <1>1, <1>2 DEF IsTree
<1> QED BY <1>3 DEF u

\* Everything below a path is gone.
LEMMA TreeWithout ==
  ASSUME NEW t, IsTree(t), NEW p \in Strings
  PROVE  IsTree([r \in Paths |-> IF Under(p, r) THEN None ELSE t[r]])
<1> DEFINE u == [r \in Paths |-> IF Under(p, r) THEN None ELSE t[r]]
<1>1. None \in Nodes BY DEF Nodes
<1>2. \A r \in Paths : u[r] = IF Under(p, r) THEN None ELSE t[r] OBVIOUS
<1>3. u \in [Paths -> Nodes] BY <1>1 DEF IsTree
<1> HIDE DEF u
<1>4. ASSUME NEW r \in Paths, NEW s \in Paths, Under(r, s), r # s, u[s] # None
      PROVE  u[r].is = "dir"
  <2>1. r \in Strings /\ s \in Strings BY PathStrings
  <2>2. ~Under(p, s) /\ u[s] = t[s] BY <1>2, <1>4
  <2>3. ~Under(p, r) BY <1>4, <2>1, <2>2, UnderBoth
  <2> QED BY <1>2, <1>4, <2>2, <2>3 DEF IsTree
<1>5. IsTree(u) BY <1>3, <1>4 DEF IsTree
<1> QED BY <1>5 DEF u

LEMMA TreeWithDirs ==
  ASSUME IsTree(tree), NEW dst \in Paths, NEW mode \in Modes,
         \A r \in Paths : Under(r, dst) /\ Exists(r) => IsDir(r)
  PROVE  IsTree(WithDirs(dst, mode))
<1> DEFINE u == WithDirs(dst, mode)
<1> DEFINE m == Umasked[mode]
<1>0. m \in Modes BY UmaskedAssumption
<1>1. \A r \in Paths : u[r] = IF Under(r, dst) /\ ~Exists(r) THEN Dir(m) ELSE tree[r]
  BY DEF WithDirs
<1>2. Dir(m) \in Nodes /\ Dir(m).is = "dir" BY <1>0, NewNodes
<1>3. u \in [Paths -> Nodes] BY <1>2 DEF WithDirs, IsTree
<1> HIDE DEF u
<1>4. ASSUME NEW r \in Paths, NEW s \in Paths, Under(r, s), r # s, u[s] # None
      PROVE  u[r].is = "dir"
  <2>1. r \in Strings /\ s \in Strings /\ dst \in Strings BY PathStrings
  <2>2. CASE Under(r, dst)
    BY <1>1, <1>2, <2>2, Existing
  <2>3. CASE ~Under(r, dst)
    <3>1. ~Under(s, dst) BY <1>4, <2>1, <2>3, UnderBoth
    <3>2. u[s] = tree[s] /\ u[r] = tree[r] BY <1>1, <2>3, <3>1
    <3> QED BY <1>4, <3>2 DEF IsTree
  <2> QED BY <2>2, <2>3
<1>5. IsTree(u) BY <1>3, <1>4 DEF IsTree
<1> QED BY <1>5 DEF u

Moved(p, q) ==
  [r \in Paths |-> IF Under(q, r) THEN At(Along(r, q, p))
                   ELSE IF Under(p, r) THEN None ELSE tree[r]]

LEMMA TreeMoved ==
  ASSUME IsTree(tree), NEW p \in Strings, NEW q \in Strings,
         Room(q), ~(Under(p, q) /\ p # q)
  PROVE  IsTree(Moved(p, q))
<1> DEFINE u == Moved(p, q)
<1>1. \A r \in Paths : u[r] = IF Under(q, r) THEN At(Along(r, q, p))
                              ELSE IF Under(p, r) THEN None ELSE tree[r]
  BY DEF Moved
<1>2. u \in [Paths -> Nodes]
  <2>1. None \in Nodes BY DEF Nodes
  <2>2. \A r \in Paths : At(Along(r, q, p)) \in Nodes /\ tree[r] \in Nodes
    BY Existing DEF IsTree
  <2> QED BY <2>1, <2>2 DEF Moved
<1> HIDE DEF u
<1>3. ASSUME NEW r \in Paths, NEW s \in Paths, Under(r, s), r # s, u[s] # None
      PROVE  u[r].is = "dir"
  <2>1. r \in Strings /\ s \in Strings BY PathStrings
  <2>2. CASE Under(q, r)
    <3> DEFINE a == Along(r, q, p)
               b == Along(s, q, p)
    <3>1. Under(q, s) BY <1>3, <2>1, <2>2, UnderBoth
    <3>2. a \in Strings /\ b \in Strings /\ Under(a, b)
      BY <1>3, <2>1, <2>2, <3>1, AlongUnder, AlongBoth
    <3>3. Along(a, p, q) = r /\ Along(b, p, q) = s BY <2>1, <2>2, <3>1, AlongBack
    <3>4. a # b BY <1>3, <3>3
    <3>5. u[s] = At(b) /\ u[r] = At(a) BY <1>1, <2>2, <3>1
    <3> HIDE DEF a, b
    <3>6. b \in Paths /\ tree[b] # None BY <1>3, <3>5, InTree DEF At
    <3>7. a \in Paths /\ tree[a].is = "dir" BY <3>2, <3>4, <3>6, DirsAbove
    <3> QED BY <3>5, <3>7 DEF At, In
  <2>3. CASE ~Under(q, r) /\ Under(q, s)
    <3>1. Under(r, q) /\ r # q BY <1>3, <2>1, <2>3, AboveTheSame, UnderItself
    <3>2. ~Under(p, r) BY <2>1, <3>1, UnderBoth, UnderEachOther
    <3>3. Parent(q) \in Paths /\ tree[Parent(q)].is = "dir" BY Existing DEF Room
    <3>4. Under(r, Parent(q)) BY <2>1, <3>1, AboveParent
    <3>5. tree[Parent(q)] # None BY <3>3 DEF None
    <3>6. tree[r].is = "dir" BY <3>3, <3>4, <3>5 DEF IsTree
    <3> QED BY <1>1, <2>3, <3>2, <3>6
  <2>4. CASE ~Under(q, s)
    <3>1. ~Under(p, s) /\ u[s] = tree[s] BY <1>1, <1>3, <2>4
    <3>2. ~Under(q, r) /\ ~Under(p, r) BY <1>3, <2>1, <2>4, <3>1, UnderBoth
    <3>3. u[r] = tree[r] BY <1>1, <3>2
    <3> QED BY <1>3, <3>1, <3>3 DEF IsTree
  <2> QED BY <2>2, <2>3, <2>4
<1>4. IsTree(u) BY <1>2, <1>3 DEF IsTree
<1> QED BY <1>4 DEF u

-----------------------------------------------------------------------------
(* The invariants. *)

\* A command has its parts.
IsJob(j) ==
  /\ j \in Jobs
  /\ j.op \in {"mkd", "cwd", "pwd", "dele", "rmd", "chmod", "mv", "cp", "list"}
  /\ j.p \in Strings
  /\ j.op \in {"rmd", "chmod"} => j.rec \in BOOLEAN
  /\ j.op \in {"mv", "cp"} => j.q \in Strings
  /\ j.op = "list" => j.depth \in Nat

Types ==
  /\ IsTree(tree) /\ IsTree(before) /\ wd \in Strings /\ IsJob(job)
  /\ pc \in {"read", "work", "answer", "over"} /\ alone \in BOOLEAN
  /\ count \in 0 .. MaxCommands /\ edits \in 0 .. MaxEdits
  /\ (pc = "work" <=> agenda # <<>>)
  /\ err \in Errors /\ shown \subseteq [path : Strings, ok : BOOLEAN]

\* What is left to be copied is in the source, and goes where it belongs; nothing but
\* the source itself is left to be copied into the source.
IsCopyAgenda(j, a) ==
  /\ a \in Seq([src : Strings, dst : Strings])
  /\ \A e \in Items(a) : /\ Under(j.p, e.src) /\ e.dst = Along(e.src, j.p, j.q)
                         /\ e.src = j.p \/ ~Under(j.p, j.q)

IsListAgenda(j, a) ==
  /\ a \in Seq([path : Strings, current : Nat, read : BOOLEAN])
  /\ \A e \in Items(a) : Under(j.p, e.path) /\ e.current = Len(e.path) - Len(j.p)

IsAgenda(j, a) ==
  /\ j.op = "cp" => IsCopyAgenda(j, a)
  /\ j.op = "list" => IsListAgenda(j, a)
  /\ j.op \notin {"cp", "list"} => a \in Seq(Strings)
  /\ j.op = "chmod" => \A e \in Items(a) : Under(j.p, e)

Agenda == pc = "work" => IsAgenda(job, agenda)

\* A change of mode: whatever is not below an entry of the agenda has been done.
ChmodSoFar ==
  pc = "work" /\ alone /\ job.op = "chmod" /\ job.rec =>
    \A r \in Paths :
      /\ tree[r] \in {before[r], Meaning(job, before)[r]}
      /\ (\A e \in Items(agenda) : ~Under(e, r)) => tree[r] = Meaning(job, before)[r]

\* A copy: the source is as it was, and what is left of it was there; what is not
\* below an entry's place has been done.
CopySoFar ==
  pc = "work" /\ alone /\ job.op = "cp" /\ ~CopyOntoItself =>
    /\ \A r \in Paths : Under(job.p, r) => tree[r] = before[r]
    /\ \A e \in Items(agenda) :
         e.src # job.p => In(before, e.src) # None /\ IsDir(Parent(e.dst))
    /\ In(before, job.p) # None => \A r \in Paths :
         /\ tree[r] \in {before[r], Copied(before, job.p, job.q)[r]}
         /\ (\A e \in Items(agenda) : e.src # job.p /\ ~Under(e.dst, r)) =>
              tree[r] = Copied(before, job.p, job.q)[r]

\* A listing: it shows what it is to show; the rest is below what it shows as an error,
\* or is for an entry of the agenda.
Levels == IF job.depth > 1 THEN job.depth ELSE 1

Shown(r, s) == \E x \in s : x.path = r \/ (~x.ok /\ Under(x.path, r))
Awaits(e, r) == IF e.read THEN e.path = r ELSE Under(e.path, r)

Listed(a, s) ==
  /\ In(before, job.p).is = "dir"
  /\ \A e \in Items(a) : /\ In(before, e.path).is = "dir"
                         /\ (e.current = 0 \/ e.current < job.depth)
  /\ \A x \in s : x.path \in InDepth
  /\ \A r \in InDepth : Shown(r, s) \/ \E e \in Items(a) : Awaits(e, r)

ListSoFar ==
  pc = "work" /\ alone /\ job.op = "list" =>
    (agenda = First(job) /\ shown = {}) \/ Listed(agenda, shown)

-----------------------------------------------------------------------------
(* Types and agendas. *)

LEMMA ParsedPath ==
  ASSUME wd \in Strings, NEW p \in Written
  PROVE  ParsePath(p) \in Strings
<1>1. p.abs \in BOOLEAN /\ p.names \in Strings BY DEF Written, Strings
<1>2. wd \o p.names \in Strings BY <1>1, ConcatProperties DEF Strings
<1> QED BY <1>1, <1>2 DEF ParsePath

LEMMA JobOfIs ==
  ASSUME wd \in Strings, NEW r \in Requests
  PROVE  IsJob(JobOf(r)) /\ JobOf(r).op = r.op
<1> DEFINE p == ParsePath(r.path)
<1>1. CASE r \in [op : {"mkd", "cwd", "pwd", "dele"}, path : Written]
  <2>1. p \in Strings /\ r.op \in {"mkd", "cwd", "pwd", "dele"} BY <1>1, ParsedPath
  <2>2. JobOf(r) = [op |-> r.op, p |-> p] BY <2>1 DEF JobOf
  <2> HIDE DEF p
  <2>3. JobOf(r) \in Jobs BY <2>1, <2>2 DEF Jobs, Strings
  <2> QED BY <2>1, <2>2, <2>3 DEF IsJob
<1>2. CASE r \in [op : {"rmd", "chmod"}, path : Written, rec : BOOLEAN]
  <2>1. p \in Strings /\ r.op \in {"rmd", "chmod"} /\ r.rec \in BOOLEAN
    BY <1>2, ParsedPath
  <2>2. JobOf(r) = [op |-> r.op, p |-> p, rec |-> r.rec] BY <2>1 DEF JobOf
  <2> HIDE DEF p
  <2>3. JobOf(r) \in Jobs BY <2>1, <2>2 DEF Jobs, Strings
  <2> QED BY <2>1, <2>2, <2>3 DEF IsJob
<1>3. CASE r \in [op : {"mv", "cp"}, path : Written, dst : Written]
  <2> DEFINE d == ParsePath(r.dst)
             q == IF r.op = "mv" \/ p = <<>> THEN d ELSE Append(d, Base(p))
  <2>1. p \in Strings /\ d \in Strings /\ r.op \in {"mv", "cp"} BY <1>3, ParsedPath
  <2>2. JobOf(r) = [op |-> r.op, p |-> p, q |-> q] BY <2>1 DEF JobOf
  <2> HIDE DEF p, d
  <2>3. q \in Strings
    <3>1. CASE q = d BY <2>1, <3>1
    <3>2. CASE p # <<>> /\ q = Append(d, Base(p))
      <4>1. Base(p) \in Names BY <2>1, <3>2, ParentOf
      <4> HIDE DEF q
      <4> QED BY <2>1, <3>2, <4>1, Longer
    <3> QED BY <3>1, <3>2
  <2> HIDE DEF q
  <2>4. JobOf(r) \in Jobs BY <2>1, <2>2, <2>3 DEF Jobs, Strings
  <2> QED BY <2>1, <2>2, <2>3, <2>4 DEF IsJob
<1>4. CASE r \in [op : {"list"}, path : Written, depth : Nat]
  <2>1. p \in Strings /\ r.op = "list" /\ r.depth \in Nat BY <1>4, ParsedPath
  <2>2. JobOf(r) = [op |-> "list", p |-> p, depth |-> r.depth] BY <2>1 DEF JobOf
  <2> HIDE DEF p
  <2>3. JobOf(r) \in Jobs BY <2>1, <2>2 DEF Jobs, Strings
  <2> QED BY <2>1, <2>2, <2>3 DEF IsJob
<1> QED BY <1>1, <1>2, <1>3, <1>4, RequestsAssumption

\* The first agenda of a command.
LEMMA FirstIs ==
  ASSUME NEW j, IsJob(j)
  PROVE  /\ First(j) # <<>>
         /\ j.op = "cp" => /\ First(j) \in Seq([src : Strings, dst : Strings])
                           /\ Items(First(j)) = {[src |-> j.p, dst |-> j.q]}
         /\ j.op = "list" =>
              /\ First(j) \in Seq([path : Strings, current : Nat, read : BOOLEAN])
              /\ First(j) = <<[path |-> j.p, current |-> 0, read |-> FALSE]>>
              /\ Items(First(j)) = {[path |-> j.p, current |-> 0, read |-> FALSE]}
         /\ j.op \notin {"cp", "list"} => /\ First(j) \in Seq(Strings)
                                          /\ Items(First(j)) = {j.p}
<1>1. CASE j.op = "cp"
  <2>1. [src |-> j.p, dst |-> j.q] \in [src : Strings, dst : Strings]
    BY <1>1 DEF IsJob
  <2>2. First(j) = <<[src |-> j.p, dst |-> j.q]>> BY <1>1 DEF First
  <2> DEFINE x == [src |-> j.p, dst |-> j.q]
  <2> HIDE DEF x
  <2>3. <<x>> \in Seq([src : Strings, dst : Strings]) /\ Items(<<x>>) = {x} /\ <<x>> # <<>>
    BY <2>1, OneItem DEF x
  <2> QED BY <1>1, <2>2, <2>3 DEF x
<1>2. CASE j.op = "list"
  <2> DEFINE x == [path |-> j.p, current |-> 0, read |-> FALSE]
             X == [path : Strings, current : Nat, read : BOOLEAN]
  <2>1. x \in X BY <1>2 DEF IsJob
  <2>2. First(j) = <<x>> BY <1>2 DEF First
  <2> HIDE DEF x, X
  <2>3. <<x>> \in Seq(X) /\ Items(<<x>>) = {x} /\ <<x>> # <<>>
    BY <2>1, OneItem
  <2> QED BY <1>2, <2>2, <2>3 DEF x, X
<1>3. CASE j.op \notin {"cp", "list"} /\ ~(j.op = "rmd" /\ j.rec)
  <2>1. j.p \in Strings /\ First(j) = <<j.p>> BY <1>3 DEF First, IsJob
  <2> QED BY <1>3, <2>1, OneItem
<1>4. CASE j.op = "rmd" /\ j.rec
  <2>1. j.p \in Strings /\ First(j) = <<j.p, j.p>> BY <1>4 DEF First, IsJob
  <2> DEFINE p == j.p
  <2> HIDE DEF p
  <2>2. <<p, p>> \in Seq(Strings) /\ Len(<<p, p>>) = 2 BY <2>1 DEF p
  <2>3. Items(<<p, p>>) = {p} BY <2>2 DEF Items
  <2> QED BY <1>4, <2>1, <2>2, <2>3 DEF p
<1> QED BY <1>1, <1>2, <1>3, <1>4

LEMMA FirstAgenda ==
  ASSUME NEW j, IsJob(j)
  PROVE  First(j) # <<>> /\ IsAgenda(j, First(j))
<1>1. j.p \in Strings /\ Len(j.p) \in Nat /\ Under(j.p, j.p)
  BY StringType, UnderItself DEF IsJob
<1>2. First(j) # <<>> BY FirstIs
<1>3. CASE j.op = "cp"
  <2>1. Along(j.p, j.p, j.q) = j.q BY <1>1, <1>3, AlongItself DEF IsJob
  <2>2. \A e \in Items(First(j)) : e.src = j.p /\ e.dst = j.q BY <1>3, FirstIs
  <2>3. First(j) \in Seq([src : Strings, dst : Strings]) BY <1>3, FirstIs
  <2>4. IsCopyAgenda(j, First(j)) BY <1>1, <2>1, <2>2, <2>3 DEF IsCopyAgenda
  <2> QED BY <1>2, <1>3, <2>4 DEF IsAgenda
<1>4. CASE j.op = "list"
  <2>1. \A e \in Items(First(j)) : e.path = j.p /\ e.current = 0 BY <1>4, FirstIs
  <2>2. First(j) \in Seq([path : Strings, current : Nat, read : BOOLEAN]) BY <1>4, FirstIs
  <2>3. ASSUME NEW e \in Items(First(j))
        PROVE  Under(j.p, e.path) /\ e.current = Len(e.path) - Len(j.p)
    <3>1. e.path = j.p /\ e.current = 0 BY <2>1
    <3>2. Len(j.p) - Len(j.p) = 0 BY <1>1
    <3> QED BY <1>1, <3>1, <3>2
  <2>4. IsListAgenda(j, First(j)) BY <2>2, <2>3 DEF IsListAgenda
  <2> QED BY <1>2, <1>4, <2>4 DEF IsAgenda
<1>5. CASE j.op \notin {"cp", "list"}
  BY <1>1, <1>2, <1>5, FirstIs DEF IsAgenda
<1> QED BY <1>3, <1>4, <1>5

LEMMA InitTypes == Init => Types /\ Agenda
<1> SUFFICES ASSUME Init PROVE Types /\ Agenda OBVIOUS
<1>1. <<>> \in Strings BY EmptySeq DEF Strings
<1>2. IsTree(tree) /\ before = tree BY TreesAssumption DEF Init
<1>3. job = [op |-> "pwd", p |-> <<>>] BY DEF Init
<1>4. job \in Jobs BY <1>1, <1>3 DEF Jobs, Strings
<1>5. IsJob(job) BY <1>1, <1>3, <1>4 DEF IsJob
<1>6. wd \in Strings /\ err \in Errors BY HomeAssumption DEF Init, Strings, Errors
<1> QED BY <1>2, <1>5, <1>6, BoundsNat DEF Init, Types, Agenda

LEMMA ReadTypes ==
  ASSUME Types, NEW r \in Requests, ReadCommand(r)
  PROVE  Types' /\ Agenda'
<1> DEFINE j == JobOf(r)
<1>1. IsJob(j) BY JobOfIs DEF Types, ReadCommand
<1>2. job' = j /\ agenda' = First(j) BY DEF ReadCommand
<1> HIDE DEF j
<1>3. First(j) # <<>> /\ IsAgenda(j, First(j)) BY <1>1, FirstAgenda
<1>4. count' \in 0 .. MaxCommands BY BoundsNat DEF Types, ReadCommand
<1>5. Types'
  <2>1. (pc' = "work" <=> agenda' # <<>>) /\ err' \in Errors /\ shown' = {}
    BY <1>2, <1>3 DEF ReadCommand, Errors
  <2> QED BY <1>1, <1>2, <1>4, <2>1 DEF Types, ReadCommand
<1>6. Agenda' BY <1>2, <1>3 DEF Agenda
<1> QED BY <1>5, <1>6

\* A command that ends.
LEMMA FailsTypes ==
  ASSUME Types, NEW e \in Errors, Fails(e)
  PROVE  Types' /\ Agenda'
BY DEF Types, Agenda, Fails, Finish, historyVars

LEMMA SucceedsTypes ==
  ASSUME Types, NEW t, IsTree(t), Succeeds(t)
  PROVE  Types' /\ Agenda'
BY DEF Types, Agenda, Succeeds, Finish, historyVars, Errors
LEMMA MkdTypes == ASSUME Types, Mkd PROVE Types' /\ Agenda'
<1>1. \/ Fails("exists") \/ Fails("noent")
      \/ /\ ~Exists(job.p) /\ Room(job.p)
         /\ Succeeds([tree EXCEPT ![job.p] = Dir(Umasked["old"])])
  BY DEF Mkd
<1>2. CASE /\ ~Exists(job.p) /\ Room(job.p)
           /\ Succeeds([tree EXCEPT ![job.p] = Dir(Umasked["old"])])
  <2>1. job.p \in Paths /\ tree[Parent(job.p)].is = "dir"
    BY <1>2, Existing DEF Room, Types
  <2> DEFINE m == Umasked["old"]
  <2>2. m \in Modes BY UmaskedAssumption DEF Modes
  <2>3. Dir(m) \in Nodes /\ Dir(m).is = "dir" BY <2>1, <2>2, NewNodes
  <2>4. IsTree([tree EXCEPT ![job.p] = Dir(m)]) BY <2>1, <2>3, TreeWith DEF Types
  <2> QED BY <1>2, <2>4, SucceedsTypes
<1> QED BY <1>1, <1>2, FailsTypes DEF Errors

LEMMA CwdTypes == ASSUME Types, Cwd PROVE Types' /\ Agenda'
<1>1. \/ Fails("noent") \/ Fails("not a directory")
      \/ /\ Finish("none") /\ wd' = job.p
         /\ UNCHANGED <<tree, job, shown, historyVars, count, edits>>
  BY DEF Cwd
<1>2. CASE /\ Finish("none") /\ wd' = job.p
           /\ UNCHANGED <<tree, job, shown, historyVars, count, edits>>
  BY <1>2 DEF Types, Agenda, IsJob, Finish, historyVars, Errors
<1> QED BY <1>1, <1>2, FailsTypes DEF Errors

\* What a change of mode makes of a node.
LEMMA TreeChanged ==
  ASSUME NEW t, IsTree(t), NEW p \in Paths, t[p] # None
  PROVE  IsTree([t EXCEPT ![p].mode = "new"])
<1> DEFINE n == [t[p] EXCEPT !.mode = "new"]
<1>1. p \in Strings BY PathStrings
<1>2. n \in Nodes /\ n.is = t[p].is BY NodeIs DEF IsTree
<1>3. [t EXCEPT ![p].mode = "new"] = [t EXCEPT ![p] = n] BY DEF IsTree
<1> HIDE DEF n
<1>4. p # <<>> => t[Parent(p)].is = "dir"
  <2>1. p # <<>> => Parent(p) \in Strings /\ Under(Parent(p), p) /\ Parent(p) # p
    BY <1>1, ParentOf
  <2> QED BY <2>1, DirsAbove
<1>5. \A r \in Paths : Under(p, r) /\ p # r /\ t[r] # None => n.is = "dir"
  BY <1>2 DEF IsTree
<1>6. IsTree([t EXCEPT ![p] = n]) BY <1>2, <1>4, <1>5, TreeWith
<1> QED BY <1>3, <1>6

\* What has no entries has nothing below it.
LEMMA NothingBelow ==
  ASSUME IsTree(tree), NEW p \in Strings, Children(p) = {},
         NEW r \in Paths, Under(p, r), p # r
  PROVE  tree[r] = None
BY TowardChild

LEMMA RemoveTypes == ASSUME Types, Remove PROVE Types' /\ Agenda'
<1>1. \/ Fails("noent") \/ Fails("other") \/ Fails("not empty")
      \/ /\ Exists(job.p) /\ Children(job.p) = {}
         /\ Succeeds([tree EXCEPT ![job.p] = None])
  BY DEF Remove
<1>2. CASE /\ Exists(job.p) /\ Children(job.p) = {}
           /\ Succeeds([tree EXCEPT ![job.p] = None])
  <2>1. job.p \in Paths /\ job.p \in Strings BY <1>2, Existing DEF Types, IsJob
  <2>2. \A r \in Paths : Under(job.p, r) /\ job.p # r => tree[r] = None
    BY <1>2, <2>1, NothingBelow DEF Types
  <2>3. None \in Nodes BY DEF Nodes
  <2>4. IsTree([tree EXCEPT ![job.p] = None]) BY <2>1, <2>2, <2>3, TreeWith DEF Types
  <2> QED BY <1>2, <2>4, SucceedsTypes
<1> QED BY <1>1, <1>2, FailsTypes DEF Errors

LEMMA MvTypes == ASSUME Types, Mv PROVE Types' /\ Agenda'
<1> DEFINE p == job.p
           q == job.q
<1>1. \/ \E e \in {"noent", "exists", "other", "invalid", "not a directory", "too long"} :
              Fails(e)
      \/ Room(q) /\ ~(Under(p, q) /\ p # q) /\ Succeeds(Moved(p, q))
  BY DEF Mv, Moved
<1>2. CASE Room(q) /\ ~(Under(p, q) /\ p # q) /\ Succeeds(Moved(p, q))
  <2>1. p \in Strings /\ q \in Strings BY DEF Types, IsJob, Mv, Doing
  <2>2. IsTree(Moved(p, q)) BY <1>2, <2>1, TreeMoved DEF Types
  <2> QED BY <1>2, <2>2, SucceedsTypes
<1> QED BY <1>1, <1>2, FailsTypes DEF Errors

LEMMA ChmodTypes == ASSUME Types, Chmod PROVE Types' /\ Agenda'
<1>1. \/ Fails("noent")
      \/ Exists(job.p) /\ Succeeds([tree EXCEPT ![job.p].mode = "new"])
  BY DEF Chmod
<1>2. CASE Exists(job.p) /\ Succeeds([tree EXCEPT ![job.p].mode = "new"])
  <2>1. job.p \in Paths /\ tree[job.p] # None BY <1>2, Existing DEF Types
  <2>2. IsTree([tree EXCEPT ![job.p].mode = "new"]) BY <2>1, TreeChanged DEF Types
  <2> QED BY <1>2, <2>2, SucceedsTypes
<1> QED BY <1>1, <1>2, FailsTypes DEF Errors

LEMMA ChmodStepTypes == ASSUME Types, Agenda, ChmodStep PROVE Types' /\ Agenda'
<1> DEFINE p == Head(agenda)
           a == InOrder(Children(p)) \o Tail(agenda)
<1>0. Doing("chmod") BY DEF ChmodStep
<1>1. /\ agenda \in Seq(Strings) /\ agenda # <<>>
      /\ \A e \in Items(agenda) : Under(job.p, e)
  BY <1>0 DEF Types, Agenda, IsAgenda, Doing
<1>2. p \in Strings /\ p \in Items(agenda) /\ Tail(agenda) \in Seq(Strings)
      /\ Items(Tail(agenda)) \subseteq Items(agenda)
  BY <1>1, HeadAndTail
<1>3. CASE ~Exists(p)
  <2>1. Fails("noent") BY <1>3 DEF ChmodStep
  <2> QED BY <2>1, FailsTypes DEF Errors
<1>4. CASE Exists(p)
  <2>0. IsTree(tree) BY DEF Types
  <2>1. p \in Paths /\ tree[p] # None BY <1>4, <2>0, Existing
  <2>2. /\ tree' = [tree EXCEPT ![p].mode = "new"] /\ Goes(a)
        /\ UNCHANGED <<wd, job, err, shown, historyVars, count, edits>>
    BY <1>4 DEF ChmodStep
  <2>3. IsTree(tree') BY <2>0, <2>1, <2>2, TreeChanged
  <2>4. /\ IsFiniteSet(Children(p)) /\ Children(p) \subseteq Strings
        /\ \A c \in Children(p) : Under(p, c)
    BY <1>2, <2>0, ChildrenAre
  <2>5. InOrder(Children(p)) \in Seq(Strings) /\ Items(InOrder(Children(p))) = Children(p)
    BY <2>4, InOrderItems, SeqMonotonic
  <2>6. a \in Seq(Strings) /\ Items(a) = Children(p) \union Items(Tail(agenda))
    <3> DEFINE s == InOrder(Children(p))
               t == Tail(agenda)
    <3>1. s \in Seq(Strings) /\ t \in Seq(Strings) BY <1>2, <2>5
    <3>2. Items(s) = Children(p) BY <2>5
    <3> HIDE DEF s, t
    <3>3. s \o t \in Seq(Strings) /\ Items(s \o t) = Items(s) \union Items(t)
      BY <3>1, ItemsOf
    <3> QED BY <3>2, <3>3 DEF s, t
  <2>7. ASSUME NEW e \in Items(a) PROVE Under(job.p, e)
    <3>1. CASE e \in Items(Tail(agenda)) BY <1>1, <1>2, <3>1
    <3>2. CASE e \in Children(p)
      <4>1. job.p \in Strings /\ Under(job.p, p) BY <1>1, <1>2 DEF Types, IsJob
      <4> QED BY <1>2, <2>4, <3>2, <4>1, UnderBoth
    <3> QED BY <2>6, <3>1, <3>2
  <2> HIDE DEF a, p
  <2>8. job.op = "chmod" BY <1>0 DEF Doing
  <2>9. Types' BY <2>2, <2>3 DEF Types, Goes, historyVars
  <2>10. IsAgenda(job, a) BY <2>6, <2>7, <2>8 DEF IsAgenda
  <2>11. Agenda' BY <2>2, <2>10 DEF Agenda, Goes
  <2> QED BY <2>9, <2>11
<1> QED BY <1>3, <1>4

LEMMA RmdBeginsTypes == ASSUME Types, RmdBegins PROVE Types' /\ Agenda'
<1>0. job.op = "rmd" /\ job.rec /\ pc = "work" BY DEF RmdBegins, Doing
<1>1. CASE Fails("noent") BY <1>1, FailsTypes DEF Errors
<1>2. CASE /\ agenda' = Tail(agenda)
           /\ UNCHANGED <<tree, pc, wd, job, err, shown, historyVars, count, edits>>
  <2> DEFINE p == job.p
  <2>1. p \in Strings /\ agenda = <<p, p>> BY <1>0 DEF RmdBegins, First, Types, IsJob
  <2> HIDE DEF p
  <2>2. Tail(<<p, p>>) = <<p>> BY <2>1
  <2>3. agenda' \in Seq(Strings) /\ agenda' # <<>> BY <1>2, <2>1, <2>2, OneItem
  <2>4. Types' BY <1>0, <1>2, <2>3 DEF Types, historyVars
  <2>5. Agenda' BY <1>0, <1>2, <2>3 DEF Agenda, IsAgenda
  <2> QED BY <2>4, <2>5
<1> QED BY <1>1, <1>2 DEF RmdBegins

LEMMA RmdStepTypes == ASSUME Types, Agenda, RmdStep PROVE Types' /\ Agenda'
<1>1. \/ Fails("other") \/ Succeeds(tree)
      \/ \E q \in Paths : /\ Under(job.p, q) /\ Exists(q) /\ Children(q) = {}
                          /\ tree' = [tree EXCEPT ![q] = None]
                          /\ UNCHANGED <<pc, wd, workVars, historyVars, count, edits>>
  BY DEF RmdStep
<1>2. ASSUME NEW q \in Paths, Children(q) = {}, tree' = [tree EXCEPT ![q] = None],
             UNCHANGED <<pc, wd, workVars, historyVars, count, edits>>
      PROVE  Types' /\ Agenda'
  <2>1. \A r \in Paths : Under(q, r) /\ q # r => tree[r] = None
    BY <1>2, PathStrings, NothingBelow DEF Types
  <2>2. None \in Nodes BY DEF Nodes
  <2>3. IsTree(tree') BY <1>2, <2>1, <2>2, TreeWith DEF Types
  <2>4. Types' BY <1>2, <2>3 DEF Types, workVars, historyVars
  <2>5. Agenda' BY <1>2 DEF Agenda, workVars
  <2> QED BY <2>4, <2>5
<1>3. CASE Succeeds(tree) BY <1>3, SucceedsTypes DEF Types
<1> QED BY <1>1, <1>2, <1>3, FailsTypes DEF Errors

\* The entries that CopyDir returns to are those of its source.
LEMMA EntriesAre ==
  ASSUME IsTree(tree), NEW src \in Strings, NEW dst \in Strings
  PROVE  /\ Entries(src, dst) \in Seq([src : Strings, dst : Strings])
         /\ \A e \in Items(Entries(src, dst)) :
              e.src \in Children(src) /\ e.dst = Append(dst, Base(e.src))
         /\ \A c \in Children(src) : \E e \in Items(Entries(src, dst)) : e.src = c
<1> DEFINE C == Children(src)
           g == InOrder(C)
           E == Entries(src, dst)
           Pair(c) == [src |-> c, dst |-> Append(dst, Base(c))]
<1>1. IsFiniteSet(C) /\ \A c \in C : c \in Strings /\ Base(c) \in Names
  BY ChildrenAre
<1>2. \A c \in C : Pair(c) \in [src : Strings, dst : Strings]
  BY <1>1, Longer
<1>3. g \in Seq(C) /\ Items(g) = C BY <1>1, InOrderItems
<1>4. E = [i \in DOMAIN g |-> Pair(g[i])] BY DEF Entries
<1> HIDE DEF C, g, E, Pair
<1>5. Len(g) \in Nat /\ DOMAIN g = 1 .. Len(g) /\ \A i \in 1 .. Len(g) : g[i] \in C
  BY <1>3, LenProperties
<1>6. E \in [1 .. Len(g) -> [src : Strings, dst : Strings]]
  BY <1>2, <1>4, <1>5
<1>7. E \in Seq([src : Strings, dst : Strings]) /\ Len(E) = Len(g)
  <2> DEFINE T == [src : Strings, dst : Strings]
  <2>1. E \in [1 .. Len(g) -> T] BY <1>6
  <2> HIDE DEF T
  <2>2. E \in Seq(T) /\ Len(E) = Len(g) BY <1>5, <2>1
  <2> QED BY <2>2 DEF T
<1>8. Items(E) = {Pair(c) : c \in C}
  <2>1. \A i \in 1 .. Len(g) : E[i] = Pair(g[i]) BY <1>4, <1>5
  <2>2. \A c \in C : \E i \in 1 .. Len(g) : g[i] = c BY <1>3 DEF Items
  <2> QED BY <1>5, <1>7, <2>1, <2>2 DEF Items
<1>9. \A c \in C : Pair(c).src = c /\ Pair(c).dst = Append(dst, Base(c)) BY DEF Pair
<1>10. ASSUME NEW e \in Items(E) PROVE e.src \in C /\ e.dst = Append(dst, Base(e.src))
  <2>1. PICK c \in C : e = Pair(c) BY <1>8
  <2> QED BY <1>9, <2>1
<1>11. ASSUME NEW c \in C PROVE \E e \in Items(E) : e.src = c
  BY <1>8, <1>9
<1> QED BY <1>7, <1>10, <1>11 DEF C, E

\* The next entry of a copy, and the ones after it.
LEMMA CopyHead ==
  ASSUME IsJob(job), job.op = "cp", agenda # <<>>, IsCopyAgenda(job, agenda)
  PROVE  LET src == Head(agenda).src
             dst == Head(agenda).dst
         IN /\ src \in Strings /\ dst \in Strings /\ Head(agenda) \in Items(agenda)
            /\ Under(job.p, src) /\ dst = Along(src, job.p, job.q) /\ Under(job.q, dst)
            /\ src = job.p \/ ~Under(job.p, job.q)
            /\ IsCopyAgenda(job, Tail(agenda))
            /\ Items(agenda) = {Head(agenda)} \union Items(Tail(agenda))
<1> DEFINE h == Head(agenda)
           t == Tail(agenda)
           T == [src : Strings, dst : Strings]
<1>1. job.p \in Strings /\ job.q \in Strings BY DEF IsJob
<1>2. /\ agenda \in Seq(T)
      /\ \A e \in Items(agenda) : /\ Under(job.p, e.src) /\ e.dst = Along(e.src, job.p, job.q)
                                  /\ e.src = job.p \/ ~Under(job.p, job.q)
  BY DEF IsCopyAgenda
<1>3. /\ h \in T /\ t \in Seq(T) /\ h \in Items(agenda)
      /\ Items(agenda) = {h} \union Items(t)
  BY <1>2, HeadAndTail
<1>4. h.src \in Strings /\ h.dst \in Strings BY <1>3
<1> HIDE DEF h, t
<1>5. /\ Under(job.p, h.src) /\ h.dst = Along(h.src, job.p, job.q)
      /\ h.src = job.p \/ ~Under(job.p, job.q)
  BY <1>2, <1>3
<1>6. Under(job.q, h.dst) BY <1>1, <1>4, <1>5, AlongUnder
<1>7. IsCopyAgenda(job, t) BY <1>2, <1>3 DEF IsCopyAgenda
<1> QED BY <1>3, <1>4, <1>5, <1>6, <1>7 DEF h, t

\* The agenda of a copy after a directory.
LEMMA EntriesAgenda ==
  ASSUME IsTree(tree), IsJob(job), job.op = "cp", agenda # <<>>, IsCopyAgenda(job, agenda),
         ~Under(job.p, job.q)
  PROVE  LET E == Entries(Head(agenda).src, Head(agenda).dst)
         IN /\ IsCopyAgenda(job, E \o Tail(agenda))
            /\ Items(E \o Tail(agenda)) = Items(E) \union Items(Tail(agenda))
<1> DEFINE src == Head(agenda).src
           dst == Head(agenda).dst
           E == Entries(src, dst)
           t == Tail(agenda)
           T == [src : Strings, dst : Strings]
<1>1. job.p \in Strings /\ job.q \in Strings BY DEF IsJob
<1>2. /\ src \in Strings /\ dst \in Strings /\ Under(job.p, src)
      /\ dst = Along(src, job.p, job.q) /\ IsCopyAgenda(job, t)
  BY CopyHead
<1>3. t \in Seq(T) BY <1>2 DEF IsCopyAgenda
<1>4. /\ E \in Seq(T)
      /\ \A e \in Items(E) : e.src \in Children(src) /\ e.dst = Append(dst, Base(e.src))
  BY <1>2, EntriesAre
<1> HIDE DEF src, dst, E, t, T
<1>5. E \o t \in Seq(T) /\ Items(E \o t) = Items(E) \union Items(t)
  BY <1>3, <1>4, ItemsOf
<1>6. ASSUME NEW e \in Items(E)
      PROVE  Under(job.p, e.src) /\ e.dst = Along(e.src, job.p, job.q)
  <2> DEFINE c == e.src
             x == Base(c)
  <2>1. c \in Strings /\ Under(src, c) /\ x \in Names /\ c = Append(src, x)
    BY <1>2, <1>4, ChildrenAre
  <2>2. e.dst = Append(dst, x) BY <1>4
  <2> HIDE DEF c, x
  <2>3. Under(job.p, c) BY <1>1, <1>2, <2>1, UnderBoth
  <2>4. Along(c, job.p, job.q) = Append(dst, x)
    BY <1>1, <1>2, <2>1, AlongLonger, SMTT(30)
  <2> QED BY <2>2, <2>3, <2>4 DEF c
<1>7. IsCopyAgenda(job, E \o t)
  BY <1>2, <1>5, <1>6 DEF IsCopyAgenda, T
<1> QED BY <1>5, <1>7 DEF src, dst, E, t

\* What is inside the source begins with its name.
LEMMA InsideBegins ==
  ASSUME NEW src \in Strings, NEW dst \in Strings, Under(src, dst)
  PROVE  InsideItself(src, dst)
<1> SUFFICES ASSUME src # <<>> PROVE InsideItself(src, dst) BY DEF InsideItself, HasPrefix
<1>1. Len(src) \in Nat /\ Len(dst) \in Nat /\ Len(src) # 0 BY StringType, EmptySeq DEF Strings
<1>2. Len(src) <= Len(dst) /\ \A i \in 1 .. Len(src) : src[i] = dst[i] BY UnderNames
<1>3. /\ Parent(src) \in Strings /\ Len(Parent(src)) = Len(src) - 1
      /\ \A i \in 1 .. Len(src) - 1 : Parent(src)[i] = src[i]
  BY ParentOf
<1>4. Len(src) - 1 \in 0 .. Len(dst) BY <1>1, <1>2
<1>5. /\ SubSeq(dst, 1, Len(src) - 1) \in Strings
      /\ Len(SubSeq(dst, 1, Len(src) - 1)) = Len(src) - 1
      /\ \A i \in 1 .. Len(src) - 1 : SubSeq(dst, 1, Len(src) - 1)[i] = dst[i]
  BY <1>4, FirstNames
<1>6. \A i \in 1 .. Len(src) - 1 : src[i] = dst[i] BY <1>1, <1>2
<1>7. Parent(src) = SubSeq(dst, 1, Len(src) - 1) BY <1>3, <1>5, <1>6, SameNames
<1>8. dst[Len(src)] = Base(src) BY <1>1, <1>2 DEF Base
<1> QED BY <1>2, <1>7, <1>8 DEF InsideItself, HasPrefix

\* A copied directory: what CpStep does when it goes on from one.
DirCopied(src, dst) ==
  /\ IsDir(src) /\ dst \in Paths /\ ~InsideItself(src, dst)
  /\ \A r \in Paths : Under(r, dst) /\ Exists(r) => IsDir(r)
  /\ tree' = WithDirs(dst, At(src).mode)
  /\ Goes(Entries(src, dst) \o Tail(agenda))
  /\ UNCHANGED <<wd, job, err, shown, historyVars, count, edits>>

\* A copied file.
FileCopied(src, dst) ==
  /\ Exists(src) /\ ~IsDir(src) /\ dst \in Paths /\ ~IsDir(dst) /\ Room(dst)
  /\ tree' = [tree EXCEPT ![dst] =
                File(IF src = dst THEN Empty ELSE At(src).content, At(src).mode)]
  /\ Goes(Tail(agenda))
  /\ UNCHANGED <<wd, job, err, shown, historyVars, count, edits>>

\* A directory is not copied into itself, and nothing is copied into a file.
LEMMA DirNotInside ==
  ASSUME IsJob(job), job.op = "cp", agenda # <<>>, IsCopyAgenda(job, agenda),
         DirCopied(Head(agenda).src, Head(agenda).dst)
  PROVE  ~Under(job.p, job.q)
<1> DEFINE src == Head(agenda).src
           dst == Head(agenda).dst
<1>1. src = job.p \/ ~Under(job.p, job.q) BY CopyHead
<1>2. CASE src = job.p
  <2>1. job.p \in Strings /\ job.q \in Strings BY DEF IsJob
  <2>2. dst = Along(src, job.p, job.q) BY CopyHead
  <2>3. dst = job.q BY <1>2, <2>1, <2>2, AlongItself
  <2> QED BY <1>2, <2>1, <2>3, InsideBegins DEF DirCopied
<1> QED BY <1>1, <1>2

LEMMA FileNotInside ==
  ASSUME IsTree(tree), IsJob(job), job.op = "cp", agenda # <<>>, IsCopyAgenda(job, agenda),
         Exists(Head(agenda).src), ~IsDir(Head(agenda).src), Room(Head(agenda).dst)
  PROVE  ~Under(job.p, job.q) \/ job.p = job.q
<1> DEFINE src == Head(agenda).src
           dst == Head(agenda).dst
           up == Parent(dst)
<1>0. job.p \in Strings /\ job.q \in Strings BY DEF IsJob
<1>1. src = job.p \/ ~Under(job.p, job.q) BY CopyHead
<1> SUFFICES ASSUME src = job.p, Under(job.p, job.q), job.p # job.q PROVE FALSE
  BY <1>1
<1>2. dst = Along(src, job.p, job.q) BY CopyHead
<1>3. dst = job.q BY <1>0, <1>2, AlongItself
<1>4. Under(src, up) BY <1>0, <1>3, AboveParent
<1>5. IsDir(up) /\ ~IsDir(src) /\ src \in Strings BY <1>0 DEF Room
<1> HIDE DEF src, dst, up
<1>6. up \in Paths /\ tree[up] # None /\ tree[up].is = "dir" BY <1>5, Existing
<1>7. src \in Paths /\ tree[src].is = "dir" BY <1>4, <1>5, <1>6, DirsAbove
<1> QED BY <1>5, <1>7, Existing

LEMMA CpStepIs ==
  ASSUME CpStep
  PROVE  \/ \E e \in {"inside itself", "too long", "not a directory", "other", "noent"} :
              Fails(e)
         \/ DirCopied(Head(agenda).src, Head(agenda).dst)
         \/ FileCopied(Head(agenda).src, Head(agenda).dst)
BY DEF CpStep, CopyDir, CopyFile, DirCopied, FileCopied

\* A new file in the place of none, or of another.
LEMMA TreeWithFile ==
  ASSUME IsTree(tree), NEW dst \in Paths, ~IsDir(dst), Room(dst),
         NEW c \in Paths, NEW m \in Modes
  PROVE  IsTree([tree EXCEPT ![dst] = File(c, m)])
<1>1. File(c, m) \in Nodes BY NewNodes
<1>2. tree[Parent(dst)].is = "dir" BY Existing DEF Room
<1>3. tree[dst].is # "dir" BY Existing
<1>4. \A r \in Paths : Under(dst, r) /\ dst # r => tree[r] = None BY <1>3 DEF IsTree
<1> QED BY <1>1, <1>2, <1>4, TreeWith

LEMMA CpStepTypes == ASSUME Types, Agenda, CpStep PROVE Types' /\ Agenda'
<1> DEFINE src == Head(agenda).src
           dst == Head(agenda).dst
<1>0. job.op = "cp" /\ pc = "work" /\ IsJob(job) /\ agenda # <<>> /\ IsTree(tree)
  BY DEF CpStep, Doing, Types
<1>1. IsCopyAgenda(job, agenda) BY <1>0 DEF Agenda, IsAgenda
<1>2. /\ src \in Strings /\ dst \in Strings /\ dst = Along(src, job.p, job.q)
      /\ src = job.p \/ ~Under(job.p, job.q)
      /\ IsCopyAgenda(job, Tail(agenda))
  BY <1>0, <1>1, CopyHead
<1>3. CASE DirCopied(src, dst)
  <2>1. At(src).mode \in Modes BY <1>0, <1>3, Existing, NodeIs DEF DirCopied, IsDir
  <2>2. IsTree(tree') BY <1>0, <1>3, <2>1, TreeWithDirs DEF DirCopied
  <2>3. ~Under(job.p, job.q) BY <1>0, <1>1, <1>3, DirNotInside
  <2>4. IsCopyAgenda(job, Entries(src, dst) \o Tail(agenda))
    BY <1>0, <1>1, <2>3, EntriesAgenda
  <2>5. Types' BY <1>3, <2>2 DEF Types, DirCopied, Goes, historyVars
  <2>6. Agenda' BY <1>0, <1>3, <2>4 DEF Agenda, IsAgenda, DirCopied, Goes
  <2> QED BY <2>5, <2>6
<1>4. CASE FileCopied(src, dst)
  <2> DEFINE c == IF src = dst THEN Empty ELSE At(src).content
             m == At(src).mode
  <2>1. At(src) \in Nodes /\ At(src).is = "file"
    BY <1>0, <1>4, Existing, NodeIs DEF FileCopied, IsDir, Exists
  <2>2. c \in Paths /\ m \in Modes BY <2>1, NodeIs, EmptyIsPath
  <2>3. tree' = [tree EXCEPT ![dst] = File(c, m)] BY <1>4 DEF FileCopied
  <2> HIDE DEF c, m, src, dst
  <2>4. IsTree(tree')
    <3>1. dst \in Paths /\ ~IsDir(dst) /\ Room(dst) BY <1>4 DEF FileCopied
    <3> QED BY <1>0, <2>2, <2>3, <3>1, TreeWithFile
  <2>5. Types' BY <1>4, <2>4 DEF Types, FileCopied, Goes, historyVars
  <2>6. Agenda' BY <1>0, <1>2, <1>4 DEF Agenda, IsAgenda, FileCopied, Goes
  <2> QED BY <2>5, <2>6
<1> QED BY <1>3, <1>4, CpStepIs, FailsTypes DEF Errors

LEMMA CopyFileFailsTypes == ASSUME Types, CopyFileFails PROVE Types' /\ Agenda'
<1> DEFINE dst == Head(agenda).dst
<1> DEFINE m == IF Exists(dst) THEN At(dst).mode ELSE "old"
<1>1. /\ Room(dst) /\ ~IsDir(dst) /\ tree' = [tree EXCEPT ![dst] = File(Empty, m)]
      /\ Finish("other") /\ UNCHANGED <<wd, job, shown, historyVars, count, edits>>
  BY DEF CopyFileFails
<1>2. dst \in Paths /\ m \in Modes
  <2>1. Exists(dst) => At(dst) \in Nodes /\ At(dst).is = "file"
    BY <1>1, Existing, NodeIs DEF Types, IsDir, Exists
  <2>2. "old" \in Modes BY DEF Modes
  <2> QED BY <1>1, <2>1, <2>2, NodeIs DEF Room
<1> HIDE DEF dst, m
<1>3. IsTree(tree') BY <1>1, <1>2, EmptyIsPath, TreeWithFile DEF Types
<1>4. Types' BY <1>1, <1>3 DEF Types, Finish, historyVars, Errors
<1>5. Agenda' BY <1>1 DEF Agenda, Finish
<1> QED BY <1>4, <1>5

Listings == [path : Strings, current : Nat, read : BOOLEAN]

\* A row of directories to be listed.
LEMMA RowAgenda ==
  ASSUME NEW S, IsFiniteSet(S), S \subseteq Strings, NEW k \in Nat
  PROVE  LET row == [i \in 1 .. Cardinality(S) |->
                       [path |-> InOrder(S)[i], current |-> k, read |-> FALSE]]
         IN /\ row \in Seq(Listings)
            /\ Items(row) = {[path |-> c, current |-> k, read |-> FALSE] : c \in S}
<1> DEFINE n == Cardinality(S)
           g == InOrder(S)
           Item(c) == [path |-> c, current |-> k, read |-> FALSE]
           row == [i \in 1 .. n |-> Item(g[i])]
<1>1. /\ n \in Nat /\ g \in [1 .. n -> S]
      /\ \A c \in S : \E i \in 1 .. n : g[i] = c
  BY InOrderIs
<1>2. \A c \in S : Item(c) \in Listings BY DEF Listings
<1> HIDE DEF n, g, Item
<1>3. row \in [1 .. n -> Listings] /\ \A i \in 1 .. n : row[i] = Item(g[i]) BY <1>1, <1>2
<1> HIDE DEF row
<1>4. row \in Seq(Listings) /\ Len(row) = n BY <1>1, <1>3
<1>5. Items(row) = {Item(c) : c \in S} BY <1>1, <1>3, <1>4 DEF Items
<1> QED BY <1>4, <1>5 DEF n, g, Item, row

\* What of a directory is to be listed as well, and what comes after it.
Deeper(p, k, bad) == {q \in Children(p) \ bad : IsDir(q) /\ Descends(k)}
Row(p, k, bad) ==
  [i \in 1 .. Cardinality(Deeper(p, k, bad)) |->
     [path |-> InOrder(Deeper(p, k, bad))[i], current |-> k + 1, read |-> FALSE]]
Last(p, k) == <<[path |-> p, current |-> k, read |-> TRUE]>>

\* The next entry of a listing, and the ones after it.
LEMMA ListHead ==
  ASSUME IsTree(tree), IsJob(job), job.op = "list", agenda # <<>>,
         IsListAgenda(job, agenda)
  PROVE  LET p == Head(agenda).path
             k == Head(agenda).current
         IN /\ p \in Strings /\ k \in Nat /\ Head(agenda) \in Items(agenda)
            /\ Head(agenda).read \in BOOLEAN
            /\ Under(job.p, p) /\ k = Len(p) - Len(job.p)
            /\ Items(agenda) = {Head(agenda)} \union Items(Tail(agenda))
            /\ Tail(agenda) \in Seq(Listings) /\ IsListAgenda(job, Tail(agenda))
<1> DEFINE h == Head(agenda)
           t == Tail(agenda)
<1>1. /\ agenda \in Seq(Listings)
      /\ \A e \in Items(agenda) : Under(job.p, e.path) /\ e.current = Len(e.path) - Len(job.p)
  BY DEF IsListAgenda, Listings
<1>2. /\ h \in Listings /\ t \in Seq(Listings) /\ h \in Items(agenda)
      /\ Items(agenda) = {h} \union Items(t)
  BY <1>1, HeadAndTail
<1>3. h.path \in Strings /\ h.current \in Nat /\ h.read \in BOOLEAN
  BY <1>2 DEF Listings
<1> HIDE DEF h, t
<1>4. Under(job.p, h.path) /\ h.current = Len(h.path) - Len(job.p) BY <1>1, <1>2
<1>5. IsListAgenda(job, t) BY <1>1, <1>2 DEF IsListAgenda, Listings
<1> QED BY <1>2, <1>3, <1>4, <1>5 DEF h, t

LEMMA ListRest ==
  ASSUME IsTree(tree), IsJob(job), job.op = "list", agenda # <<>>,
         IsListAgenda(job, agenda), NEW bad
  PROVE  LET p == Head(agenda).path
             k == Head(agenda).current
             rest == Row(p, k, bad) \o Last(p, k) \o Tail(agenda)
         IN /\ Items(rest) = {[path |-> c, current |-> k + 1, read |-> FALSE] :
                                c \in Deeper(p, k, bad)}
                               \union {[path |-> p, current |-> k, read |-> TRUE]}
                               \union Items(Tail(agenda))
            /\ IsListAgenda(job, rest)
<1> DEFINE p == Head(agenda).path
           k == Head(agenda).current
           t == Tail(agenda)
           D == Deeper(p, k, bad)
           R == Row(p, k, bad)
           l == [path |-> p, current |-> k, read |-> TRUE]
           L == Last(p, k)
<1>1. job.p \in Strings /\ Len(job.p) \in Nat BY StringType DEF IsJob
<1>2. /\ p \in Strings /\ k \in Nat /\ Under(job.p, p) /\ k = Len(p) - Len(job.p)
      /\ t \in Seq(Listings) /\ IsListAgenda(job, t)
  BY ListHead
<1>3. l \in Listings /\ l.path = p /\ l.current = k BY <1>2 DEF Listings
<1> HIDE DEF l
<1>4. L \in Seq(Listings) /\ Items(L) = {l} BY <1>3, OneItem DEF Last, l
<1> HIDE DEF p, k, t, L
<1>5. /\ IsFiniteSet(Children(p)) /\ D \subseteq Children(p)
      /\ \A c \in Children(p) : c \in Strings /\ Under(p, c) /\ Len(c) = Len(p) + 1
  BY <1>2, ChildrenAre DEF Deeper
<1>6. IsFiniteSet(D) /\ D \subseteq Strings BY <1>5, FS_Subset
<1>7. R \in Seq(Listings) /\ Items(R) = {[path |-> c, current |-> k + 1, read |-> FALSE] : c \in D}
  <2> DEFINE n == k + 1
  <2>1. n \in Nat BY <1>2
  <2>2. R = [i \in 1 .. Cardinality(D) |-> [path |-> InOrder(D)[i], current |-> n, read |-> FALSE]]
    BY DEF Row
  <2> HIDE DEF n, D, R
  <2>3. R \in Seq(Listings) /\ Items(R) = {[path |-> c, current |-> n, read |-> FALSE] : c \in D}
    BY <1>6, <2>1, <2>2, RowAgenda
  <2> QED BY <2>3 DEF n
<1> HIDE DEF D, R
<1>8. R \o L \in Seq(Listings) /\ Items(R \o L) = Items(R) \union Items(L)
  BY <1>4, <1>7, ItemsOf
<1> DEFINE S == R \o L
<1> HIDE DEF S
<1>9. S \o t \in Seq(Listings) /\ Items(S \o t) = Items(S) \union Items(t)
  <2>1. S \in Seq(Listings) /\ t \in Seq(Listings) BY <1>2, <1>8 DEF S
  <2> QED BY <2>1, ItemsOf
<1>10. ASSUME NEW e \in Items(R)
       PROVE  Under(job.p, e.path) /\ e.current = Len(e.path) - Len(job.p)
  <2>1. PICK c \in D : e = [path |-> c, current |-> k + 1, read |-> FALSE] BY <1>7
  <2>2. e.path = c /\ e.current = k + 1 BY <2>1
  <2>3. c \in Strings /\ Under(p, c) /\ Len(c) = Len(p) + 1 BY <1>5, <2>1
  <2>4. Under(job.p, c) BY <1>1, <1>2, <2>3, UnderBoth
  <2>5. Len(p) \in Nat BY <1>2, StringType
  <2> QED BY <1>1, <1>2, <2>2, <2>3, <2>4, <2>5
<1>11. IsListAgenda(job, S \o t)
  <2>1. \A e \in Items(S \o t) : e \in Items(R) \/ e = l \/ e \in Items(t)
    BY <1>4, <1>8, <1>9 DEF S
  <2>2. \A e \in Items(t) : Under(job.p, e.path) /\ e.current = Len(e.path) - Len(job.p)
    BY <1>2 DEF IsListAgenda
  <2>3. \A e \in Items(S \o t) : Under(job.p, e.path) /\ e.current = Len(e.path) - Len(job.p)
    BY <1>2, <1>3, <1>10, <2>1, <2>2
  <2> QED BY <1>9, <2>3 DEF IsListAgenda, Listings
<1>12. Items(S \o t) = Items(R) \union {l} \union Items(t) BY <1>4, <1>8, <1>9 DEF S
<1> QED BY <1>7, <1>11, <1>12 DEF p, k, t, D, R, L, S, l

LEMMA ListStepIs ==
  ASSUME ListStep
  PROVE  LET h == Head(agenda)
             p == h.path
             k == h.current
         IN \/ Fails("too deep")
            \/ /\ UNCHANGED <<tree, wd, job, err, historyVars, count, edits>>
               /\ \/ /\ h.read /\ shown' = shown \union {Show(p, Exists(p))}
                     /\ Goes(Tail(agenda))
                  \/ /\ ~h.read /\ shown' = shown \union {Show(p, FALSE)}
                     /\ Goes(Tail(agenda))
                  \/ /\ ~h.read /\ IsDir(p)
                     /\ \E bad \in SUBSET Children(p) :
                          /\ shown' = shown \union {Show(q, q \notin bad) :
                                                    q \in Children(p) \ Deeper(p, k, bad)}
                          /\ Goes(Row(p, k, bad) \o Last(p, k) \o Tail(agenda))
BY DEF ListStep, ListDirectory, Row, Last, Deeper

LEMMA ListStepTypes == ASSUME Types, Agenda, ListStep PROVE Types' /\ Agenda'
<1> DEFINE h == Head(agenda)
           p == h.path
           k == h.current
           Shows == [path : Strings, ok : BOOLEAN]
           Rest(bad) == Row(p, k, bad) \o Last(p, k) \o Tail(agenda)
           Rows(bad) == {Show(q, q \notin bad) : q \in Children(p) \ Deeper(p, k, bad)}
<1>0. /\ job.op = "list" /\ pc = "work" /\ IsJob(job) /\ agenda # <<>> /\ IsTree(tree)
      /\ IsListAgenda(job, agenda) /\ shown \subseteq Shows
  BY DEF ListStep, Doing, Types, Agenda, IsAgenda
<1>1. p \in Strings /\ IsListAgenda(job, Tail(agenda)) /\ \A bad : IsListAgenda(job, Rest(bad))
  BY <1>0, ListHead, ListRest
<1>2. \A q \in Strings, ok \in BOOLEAN : Show(q, ok) \in Shows BY DEF Show
<1>3. Exists(p) \in BOOLEAN BY DEF Exists
<1>4. \A bad : Rows(bad) \subseteq Shows
  <2>1. \A c \in Children(p) : c \in Strings BY <1>0, <1>1, ChildrenAre
  <2>2. \A c, bad : (c \notin bad) \in BOOLEAN OBVIOUS
  <2> HIDE DEF Shows, p
  <2> QED BY <1>2, <2>1, <2>2
<1>5. ASSUME NEW rest, IsListAgenda(job, rest), Goes(rest), shown' \subseteq Shows,
             UNCHANGED <<tree, wd, job, err, historyVars, count, edits>>
      PROVE  Types' /\ Agenda'
  <2>1. Types' BY <1>5 DEF Types, Goes, historyVars
  <2>2. Agenda' BY <1>0, <1>5 DEF Agenda, IsAgenda, Goes
  <2> QED BY <2>1, <2>2
<1> HIDE DEF Shows, Rest, Rows, h, p, k
<1>6. \/ Fails("too deep")
      \/ /\ UNCHANGED <<tree, wd, job, err, historyVars, count, edits>>
         /\ \/ \E ok \in BOOLEAN : shown' = shown \union {Show(p, ok)} /\ Goes(Tail(agenda))
            \/ \E bad : shown' = shown \union Rows(bad) /\ Goes(Rest(bad))
  BY <1>3, ListStepIs DEF h, p, k, Rest, Rows
<1>7. CASE Fails("too deep") BY <1>7, FailsTypes DEF Errors
<1>8. ASSUME UNCHANGED <<tree, wd, job, err, historyVars, count, edits>>,
             NEW ok \in BOOLEAN, shown' = shown \union {Show(p, ok)}, Goes(Tail(agenda))
      PROVE  Types' /\ Agenda'
  <2>1. shown' \subseteq Shows BY <1>0, <1>1, <1>2, <1>8
  <2> QED BY <1>1, <1>5, <1>8, <2>1
<1>9. ASSUME UNCHANGED <<tree, wd, job, err, historyVars, count, edits>>,
             NEW bad, shown' = shown \union Rows(bad), Goes(Rest(bad))
      PROVE  Types' /\ Agenda'
  <2>1. shown' \subseteq Shows BY <1>0, <1>4, <1>9
  <2> QED BY <1>1, <1>5, <1>9, <2>1
<1> QED BY <1>6, <1>7, <1>8, <1>9

LEMMA EditTypes == ASSUME Types, Agenda, Edit PROVE Types' /\ Agenda'
<1>1. PICK p \in Paths \ {<<>>} :
        \/ /\ Exists(p)
           /\ tree' = [r \in Paths |-> IF Under(p, r) THEN None ELSE tree[r]]
        \/ /\ ~Exists(p) /\ Room(p)
           /\ \E node \in {Dir("old"), File(p, "old")} : tree' = [tree EXCEPT ![p] = node]
  BY DEF Edit
<1>2. IsTree(tree')
  <2>0. IsTree(tree) BY DEF Types
  <2>1. CASE tree' = [r \in Paths |-> IF Under(p, r) THEN None ELSE tree[r]]
    BY <2>0, <2>1, PathStrings, TreeWithout
  <2>2. ASSUME ~Exists(p), Room(p), NEW node \in {Dir("old"), File(p, "old")},
               tree' = [tree EXCEPT ![p] = node]
        PROVE  IsTree(tree')
    <3>1. node \in Nodes BY NewNodes DEF Modes
    <3>2. tree[Parent(p)].is = "dir" BY <2>0, <2>2, Existing DEF Room
    <3>3. tree[p] = None BY <2>0, <2>2, Existing
    <3>4. \A r \in Paths : Under(p, r) /\ p # r => tree[r] = None
      BY <2>0, <3>3, DirsAbove, PathStrings
    <3> QED BY <2>0, <2>2, <3>1, <3>2, <3>4, TreeWith
  <2> QED BY <1>1, <2>1, <2>2
<1>3. edits' \in 0 .. MaxEdits BY BoundsNat DEF Types, Edit
<1>4. Types' BY <1>2, <1>3 DEF Types, Edit, workVars
<1>5. Agenda' BY DEF Agenda, Edit, workVars
<1> QED BY <1>4, <1>5

LEMMA NextTypes ==
  Types /\ Agenda /\ [Next]_vars => Types' /\ Agenda'
<1> SUFFICES ASSUME Types, Agenda, [Next]_vars PROVE Types' /\ Agenda' OBVIOUS
<1>1. CASE \E r \in Requests : ReadCommand(r) BY <1>1, ReadTypes
<1>2. CASE Work
  <2>1. CASE Denied \/ BadMode BY <2>1, FailsTypes DEF Denied, BadMode, Errors
  <2>2. CASE Pwd BY <2>2, SucceedsTypes DEF Pwd, Types
  <2> QED BY <1>2, <2>1, <2>2, MkdTypes, CwdTypes, RemoveTypes, MvTypes, ChmodTypes,
             ChmodStepTypes, RmdBeginsTypes, RmdStepTypes, CpStepTypes, CopyFileFailsTypes,
             ListStepTypes
          DEF Work
<1>3. CASE Answer \/ End
  BY <1>3 DEF Types, Agenda, Answer, End, workVars, historyVars
<1>4. CASE Edit BY <1>4, EditTypes
<1>5. CASE UNCHANGED vars
  BY <1>5 DEF Types, Agenda, vars, workVars, historyVars
<1> QED BY <1>1, <1>2, <1>3, <1>4, <1>5 DEF Next

LEMMA TypesInvariant == Spec => [](Types /\ Agenda)
<1>1. Init => Types /\ Agenda BY InitTypes
<1>2. Types /\ Agenda /\ [Next]_vars => (Types /\ Agenda)' BY NextTypes
<1> QED BY <1>1, <1>2, PTL DEF Spec

\* Every variable has its type, the agenda is that of the command and is empty when the
\* command has ended, and whatever exists is in a directory, whatever the commands and
\* the other processes do: no call leaves a file with something in it, or something in a
\* directory that is gone.
THEOREM TypeTheorem == Spec => []TypeOK
<1>1. ASSUME Types, Agenda PROVE TypeOK
  <2>1. IsTree(tree) /\ IsTree(before) BY <1>1 DEF Types
  <2>2. ASSUME NEW p \in Paths, p # <<>>, Exists(p) PROVE IsDir(Parent(p))
    <3>1. p \in Strings BY PathStrings
    <3>2. Parent(p) \in Strings /\ Under(Parent(p), p) /\ Parent(p) # p
      BY <2>2, <3>1, ParentOf
    <3>3. tree[p] # None BY <2>1, <2>2, Existing
    <3>4. Parent(p) \in Paths /\ tree[Parent(p)].is = "dir"
      BY <2>1, <3>2, <3>3, DirsAbove
    <3> QED BY <2>1, <3>4, Existing
  <2>3. agenda \in Seq(Entry(job.op))
    <3>1. CASE pc = "work" BY <1>1, <3>1 DEF Agenda, IsAgenda, IsCopyAgenda, IsListAgenda,
                                             Entry, Strings
    <3>2. CASE pc # "work"
      <4>1. agenda = <<>> BY <1>1, <3>2 DEF Types
      <4> QED BY <4>1, EmptySeq
    <3> QED BY <3>1, <3>2
  <2>4. job \in Jobs /\ wd \in Seq(Names) BY <1>1 DEF Types, IsJob, Strings
  <2>5. err \in Errors /\ shown \subseteq [path : Seq(Names), ok : BOOLEAN]
    BY <1>1 DEF Types, Strings
  <2>6. tree \in [Paths -> Nodes] /\ before \in [Paths -> Nodes] BY <2>1 DEF IsTree
  <2>7. /\ pc \in {"read", "work", "answer", "over"} /\ (pc = "work" <=> agenda # <<>>)
        /\ count \in 0 .. MaxCommands /\ edits \in 0 .. MaxEdits
    BY <1>1 DEF Types
  <2>8. alone \in BOOLEAN BY <1>1 DEF Types
  <2> QED BY <2>2, <2>3, <2>4, <2>5, <2>6, <2>7, <2>8 DEF TypeOK
<1> QED BY <1>1, TypesInvariant, PTL

-----------------------------------------------------------------------------
(* Where a command changes the tree. *)

LEMMA ContainedStep ==
  ASSUME FailureIsContained, pc = "work", alone' => alone, job' = job, before' = before,
         job.op \in {"cp", "rmd", "chmod"}, job.op # "cp" => job.rec,
         \A r \in Paths : tree'[r] # tree[r] => Touches(r)
  PROVE  FailureIsContained'
<1>1. \A r \in Paths : Touches(r)' <=> Touches(r) BY DEF Touches
<1> QED BY <1>1 DEF FailureIsContained

LEMMA ContainedSame ==
  ASSUME FailureIsContained, pc = "work", alone' => alone, job' = job, before' = before,
         tree' = tree
  PROVE  FailureIsContained'
<1>1. \A r \in Paths : Touches(r)' <=> Touches(r) BY DEF Touches
<1> QED BY <1>1 DEF FailureIsContained

\* What a step of a copy changes is its next place, or a directory above it.
LEMMA CopyTouches ==
  ASSUME IsJob(job), job.op = "cp", agenda # <<>>, IsCopyAgenda(job, agenda),
         NEW r \in Paths, Under(r, Head(agenda).dst)
  PROVE  Touches(r)
<1>1. /\ job.q \in Strings /\ Head(agenda).dst \in Strings
      /\ Under(job.q, Head(agenda).dst) /\ r \in Strings
  BY CopyHead, PathStrings DEF IsJob
<1>2. Under(job.q, r) \/ Under(r, job.q) BY <1>1, AboveTheSame
<1> QED BY <1>2 DEF Touches

LEMMA CopyChanges ==
  ASSUME IsTree(tree), NEW src, NEW dst,
         \/ DirCopied(src, dst) \/ FileCopied(src, dst)
         \/ \E n : dst \in Paths /\ tree' = [tree EXCEPT ![dst] = n],
         NEW r \in Paths, tree'[r] # tree[r]
  PROVE  Under(r, dst) /\ dst \in Paths
<1>1. CASE DirCopied(src, dst) BY <1>1 DEF DirCopied, WithDirs
<1>2. CASE \E n : dst \in Paths /\ tree' = [tree EXCEPT ![dst] = n]
  BY <1>2, UnderItself, PathStrings DEF IsTree
<1>3. CASE FileCopied(src, dst)
  BY <1>2, <1>3 DEF FileCopied
<1> QED BY <1>1, <1>2, <1>3

LEMMA ContainedWork ==
  ASSUME Types, Agenda, FailureIsContained, Work
  PROVE  FailureIsContained'
<1>0. pc = "work" /\ IsTree(tree) /\ IsJob(job) /\ agenda # <<>> /\ IsAgenda(job, agenda)
  BY DEF Work, Denied, Mkd, Cwd, Pwd, Remove, Mv, Chmod, BadMode, ChmodStep, RmdBegins,
         RmdStep, CpStep, CopyFileFails, ListStep, Doing, Types, Agenda
<1>1. ASSUME NEW e, Fails(e) PROVE FailureIsContained'
  BY <1>0, <1>1, ContainedSame DEF Fails, historyVars
<1>2. ASSUME NEW t, Succeeds(t) PROVE FailureIsContained'
  BY <1>2 DEF Succeeds, Finish, FailureIsContained
<1>3. CASE Denied \/ BadMode BY <1>1, <1>3 DEF Denied, BadMode
<1>4. CASE Mkd BY <1>1, <1>2, <1>4 DEF Mkd
<1>5. CASE Cwd
  <2>1. CASE Finish("none") BY <2>1 DEF Finish, FailureIsContained
  <2> QED BY <1>1, <1>5, <2>1 DEF Cwd
<1>6. CASE Pwd BY <1>2, <1>6 DEF Pwd
<1>7. CASE Remove BY <1>1, <1>2, <1>7 DEF Remove
<1>8. CASE Mv
  <2>1. (\E e : Fails(e)) \/ (\E t : Succeeds(t))
    BY <1>8 DEF Mv
  <2> QED BY <1>1, <1>2, <2>1
<1>9. CASE Chmod BY <1>1, <1>2, <1>9 DEF Chmod
<1>10. CASE ChmodStep
  <2> DEFINE p == Head(agenda)
  <2>1. job.op = "chmod" /\ job.rec BY <1>10 DEF ChmodStep, Doing
  <2>2. p \in Items(agenda) BY <1>0, <2>1, HeadAndTail DEF IsAgenda
  <2>3. Under(job.p, p) BY <1>0, <2>1, <2>2 DEF IsAgenda
  <2>4. CASE Fails("noent") BY <1>1, <2>4
  <2>5. CASE /\ tree' = [tree EXCEPT ![p].mode = "new"]
             /\ UNCHANGED <<wd, job, err, shown, historyVars, count, edits>>
    <3>1. \A r \in Paths : tree'[r] # tree[r] => r = p BY <1>0, <2>5 DEF IsTree
    <3>2. \A r \in Paths : tree'[r] # tree[r] => Touches(r)
      BY <2>1, <2>3, <3>1 DEF Touches
    <3> QED BY <1>0, <2>1, <2>5, <3>2, ContainedStep DEF historyVars
  <2> QED BY <1>10, <2>4, <2>5 DEF ChmodStep
<1>11. CASE RmdStep
  <2>1. job.op = "rmd" /\ job.rec BY <1>11 DEF RmdStep, Doing
  <2>2. ASSUME NEW q \in Paths, Under(job.p, q), tree' = [tree EXCEPT ![q] = None],
               UNCHANGED <<pc, wd, workVars, historyVars, count, edits>>
        PROVE  FailureIsContained'
    <3>1. \A r \in Paths : tree'[r] # tree[r] => r = q BY <1>0, <2>2 DEF IsTree
    <3>2. \A r \in Paths : tree'[r] # tree[r] => Touches(r)
      BY <2>1, <2>2, <3>1 DEF Touches
    <3> QED BY <1>0, <2>1, <2>2, <3>2, ContainedStep DEF workVars, historyVars
  <2> QED BY <1>1, <1>2, <1>11, <2>2 DEF RmdStep
<1>12. CASE CpStep
  <2> DEFINE src == Head(agenda).src
             dst == Head(agenda).dst
  <2>1. job.op = "cp" /\ IsCopyAgenda(job, agenda) BY <1>0, <1>12 DEF CpStep, Doing, IsAgenda
  <2>2. CASE DirCopied(src, dst) \/ FileCopied(src, dst)
    <3>1. \A r \in Paths : tree'[r] # tree[r] => Under(r, dst)
      BY <1>0, <2>2, CopyChanges
    <3>2. \A r \in Paths : tree'[r] # tree[r] => Touches(r)
      BY <1>0, <2>1, <3>1, CopyTouches
    <3>3. UNCHANGED <<job, before, alone>> BY <2>2 DEF DirCopied, FileCopied, historyVars
    <3> QED BY <1>0, <2>1, <3>2, <3>3, ContainedStep
  <2> QED BY <1>1, <1>12, <2>2, CpStepIs
<1>13. CASE CopyFileFails
  <2> DEFINE dst == Head(agenda).dst
  <2>1. job.op = "cp" /\ IsCopyAgenda(job, agenda)
    BY <1>0, <1>13 DEF CopyFileFails, Doing, IsAgenda
  <2>2. /\ \E n : tree' = [tree EXCEPT ![dst] = n]
        /\ dst \in Paths /\ UNCHANGED <<job, historyVars>>
    BY <1>13 DEF CopyFileFails, Room
  <2>3. \A r \in Paths : tree'[r] # tree[r] => Under(r, dst)
    BY <1>0, <2>2, CopyChanges
  <2>4. \A r \in Paths : tree'[r] # tree[r] => Touches(r)
    BY <1>0, <2>1, <2>3, CopyTouches
  <2> QED BY <1>0, <2>1, <2>2, <2>4, ContainedStep DEF historyVars
<1>14. CASE ListStep
  <2>1. Fails("too deep") \/ UNCHANGED <<tree, job, before, alone>>
    BY <1>14, ListStepIs DEF historyVars
  <2>2. CASE UNCHANGED <<tree, job, before, alone>> BY <1>0, <2>2, ContainedSame
  <2> QED BY <1>1, <2>1, <2>2
<1>15. CASE RmdBegins
  <2>1. CASE UNCHANGED <<tree, pc, wd, job, err, shown, historyVars, count, edits>>
    BY <1>0, <2>1, ContainedSame DEF historyVars
  <2> QED BY <1>1, <1>15, <2>1 DEF RmdBegins
<1> QED BY <1>3, <1>4, <1>5, <1>6, <1>7, <1>8, <1>9, <1>10, <1>11, <1>12, <1>13, <1>14,
           <1>15 DEF Work

LEMMA ContainedNext ==
  Types /\ Agenda /\ FailureIsContained /\ [Next]_vars => FailureIsContained'
<1> SUFFICES ASSUME Types, Agenda, FailureIsContained, [Next]_vars
             PROVE  FailureIsContained'
  OBVIOUS
<1>1. CASE \E r \in Requests : ReadCommand(r)
  <2>1. before' = tree /\ tree' = tree BY <1>1 DEF ReadCommand
  <2> QED BY <2>1 DEF FailureIsContained
<1>2. CASE Work BY <1>2, ContainedWork
<1>3. CASE Answer \/ End BY <1>3 DEF Answer, End, FailureIsContained
<1>4. CASE Edit BY <1>4 DEF Edit, FailureIsContained
<1>5. CASE UNCHANGED vars
  <2>1. \A r \in Paths : Touches(r)' <=> Touches(r)
    BY <1>5 DEF Touches, vars, workVars
  <2> QED BY <1>5, <2>1 DEF FailureIsContained, vars, workVars, historyVars
<1> QED BY <1>1, <1>2, <1>3, <1>4, <1>5 DEF Next

\* A command that fails in the middle, or is still under way, has changed nothing but
\* at its target, and one of a single step nothing at all: every entry of an agenda
\* is where it belongs, so that no step of a copy, a removal or a change of mode
\* strays from the place that the command names.
THEOREM FailureTheorem == Spec => []FailureIsContained
<1>1. Init => FailureIsContained BY DEF Init, FailureIsContained
<1>2. Types /\ Agenda /\ FailureIsContained /\ [Next]_vars => FailureIsContained'
  BY ContainedNext
<1> QED BY <1>1, <1>2, TypesInvariant, PTL DEF Spec

LEMMA SourceSafe ==
  ASSUME Types, Agenda, [Next]_vars, pc = "work", job.op = "cp", edits' = edits,
         ~CopyUpwards, NEW r \in Paths, Under(job.p, r)
  PROVE  tree'[r] = tree[r]
<1> DEFINE src == Head(agenda).src
           dst == Head(agenda).dst
<1>0. /\ IsTree(tree) /\ IsJob(job) /\ agenda # <<>> /\ IsCopyAgenda(job, agenda)
      /\ ~Under(job.q, job.p)
  BY DEF Types, Agenda, IsAgenda, CopyUpwards
<1>1. /\ job.p \in Strings /\ job.q \in Strings /\ r \in Strings
      /\ dst \in Strings /\ Under(job.q, dst)
  BY <1>0, CopyHead, PathStrings DEF IsJob
<1>2. ASSUME ~Under(job.p, job.q), Under(r, dst) PROVE FALSE
  <2>1. Under(job.p, dst) BY <1>1, <1>2, UnderBoth
  <2> QED BY <1>0, <1>1, <1>2, <2>1, AboveTheSame
<1>3. ASSUME NEW e, Fails(e) PROVE tree'[r] = tree[r] BY <1>3 DEF Fails
<1>4. CASE DirCopied(src, dst)
  <2>1. ~Under(job.p, job.q) BY <1>0, <1>4, DirNotInside
  <2> QED BY <1>0, <1>2, <1>4, <2>1, CopyChanges
<1>5. CASE FileCopied(src, dst) \/ CopyFileFails
  <2>1. Exists(src) /\ ~IsDir(src) /\ Room(dst)
    BY <1>5 DEF FileCopied, CopyFileFails
  <2>2. job.p # job.q BY <1>0, <1>1, UnderItself
  <2>3. ~Under(job.p, job.q) BY <1>0, <2>1, <2>2, FileNotInside
  <2>4. \E n : dst \in Paths /\ tree' = [tree EXCEPT ![dst] = n]
    BY <1>5 DEF FileCopied, CopyFileFails, Room
  <2> QED BY <1>0, <1>2, <2>3, <2>4, CopyChanges
<1>6. CASE CpStep BY <1>3, <1>4, <1>5, <1>6, CpStepIs
<1>7. CASE Edit
  <2>1. edits \in Nat /\ edits' = edits + 1 BY <1>7, BoundsNat DEF Edit, Types
  <2> QED BY <2>1
<1>8. CASE Denied BY <1>3, <1>8 DEF Denied
<1>9. CASE UNCHANGED vars BY <1>9 DEF vars
<1>10. CASE \E q \in Requests : ReadCommand(q) BY <1>10 DEF ReadCommand
<1>11. CASE Answer \/ End BY <1>11 DEF Answer, End
<1> QED BY <1>5, <1>6, <1>7, <1>8, <1>9, <1>10, <1>11
        DEF Next, Work, Mkd, Cwd, Pwd, Remove, Mv, Chmod, BadMode, ChmodStep, RmdBegins,
            RmdStep, ListStep, Doing

\* Whatever others do meanwhile, a copy leaves its source as it finds it, but for a copy
\* to where it is or above: a directory is not copied into itself, nothing is copied
\* into a file, and every other place of an agenda is below the destination.
THEOREM SourceTheorem == Spec => SourceKept
<1> DEFINE Kept == pc = "work" /\ job.op = "cp" /\ edits' = edits /\ ~CopyUpwards =>
                     \A r \in Paths : Under(job.p, r) => tree'[r] = tree[r]
<1>1. Types /\ Agenda /\ [Next]_vars => [Kept]_vars BY SourceSafe
<1> HIDE DEF Kept
<1>2. Spec => [][Kept]_vars BY <1>1, TypesInvariant, PTL DEF Spec
<1> QED BY <1>2 DEF SourceKept, Kept

-----------------------------------------------------------------------------
(* Commands of one step, and those that take away. *)

\* A step of a command that ends it has done what it means, or fails.
LEMMA DoneIf ==
  ASSUME UNCHANGED <<job, before>>,
         pc' = "answer" /\ alone' /\ err' = "none" /\ ~CopyOntoItself =>
           tree' = Meaning(job, before)
  PROVE  SuccessIsComplete'
<1>1. CopyOntoItself' <=> CopyOntoItself BY DEF CopyOntoItself, CopyUpwards
<1> QED BY <1>1 DEF SuccessIsComplete

LEMMA FailsDone == ASSUME NEW e, e # "none", Fails(e) PROVE SuccessIsComplete'
BY DEF Fails, Finish, SuccessIsComplete

LEMMA SucceedsDone ==
  ASSUME NEW t, Succeeds(t), alone => t = Meaning(job, before)
  PROVE  SuccessIsComplete'
<1>1. UNCHANGED <<job, before, alone>> /\ tree' = t BY DEF Succeeds, historyVars
<1> QED BY <1>1, DoneIf

\* Until a command of one step ends, the tree is what it was.
LEMMA NotYet ==
  ASSUME Types, FailureIsContained, pc = "work", alone,
         job.op \in {"cp", "rmd", "chmod"} => job.op # "cp" /\ ~job.rec
  PROVE  tree = before
<1>1. \A r \in Paths : tree[r] = before[r] BY DEF FailureIsContained
<1>2. tree \in [Paths -> Nodes] /\ before \in [Paths -> Nodes] BY DEF Types, IsTree
<1> QED BY <1>1, <1>2

LEMMA MkdDone == ASSUME Types, FailureIsContained, Mkd PROVE SuccessIsComplete'
<1>1. job.op = "mkd" /\ pc = "work" BY DEF Mkd, Doing
<1>2. alone => tree = before BY <1>1, NotYet
<1>3. alone => [tree EXCEPT ![job.p] = Dir(Umasked["old"])] = Meaning(job, before)
  BY <1>1, <1>2 DEF Meaning
<1> QED BY <1>3, FailsDone, SucceedsDone DEF Mkd

LEMMA CwdDone == ASSUME Types, FailureIsContained, Cwd PROVE SuccessIsComplete'
<1>1. job.op = "cwd" /\ pc = "work" BY DEF Cwd, Doing
<1>2. alone => tree = before BY <1>1, NotYet
<1>3. Meaning(job, before) = before BY <1>1 DEF Meaning
<1>4. CASE UNCHANGED <<tree, job, shown, historyVars, count, edits>>
  BY <1>2, <1>3, <1>4, DoneIf DEF historyVars
<1> QED BY <1>4, FailsDone DEF Cwd

LEMMA PwdDone == ASSUME Types, FailureIsContained, Pwd PROVE SuccessIsComplete'
<1>1. job.op = "pwd" /\ pc = "work" BY DEF Pwd, Doing
<1>2. alone => tree = before BY <1>1, NotYet
<1>3. Meaning(job, before) = before BY <1>1 DEF Meaning
<1> QED BY <1>2, <1>3, SucceedsDone DEF Pwd

LEMMA RemoveDone == ASSUME Types, FailureIsContained, Remove PROVE SuccessIsComplete'
<1> DEFINE p == job.p
           t == [tree EXCEPT ![p] = None]
           M == Meaning(job, before)
<1>1. job.op \in {"dele", "rmd"} /\ (job.op = "rmd" => ~job.rec) /\ pc = "work"
  BY DEF Remove, Doing
<1>2. \/ Fails("noent") \/ Fails("other") \/ Fails("not empty")
      \/ Exists(p) /\ Children(p) = {} /\ Succeeds(t)
  BY DEF Remove
<1>3. ASSUME alone, Exists(p), Children(p) = {} PROVE t = M
  <2>1. tree = before /\ IsTree(tree) /\ p \in Strings BY <1>1, <1>3, NotYet DEF Types, IsJob
  <2>2. \A r \in Paths : Under(p, r) /\ p # r => tree[r] = None
    BY <1>3, <2>1, NothingBelow
  <2>3. Under(p, p) BY <2>1, UnderItself
  <2>4. M = [r \in Paths |-> IF Under(p, r) THEN None ELSE before[r]]
    BY <1>1 DEF Meaning
  <2> HIDE DEF M, p
  <2>5. \A r \in Paths : t[r] = M[r]
    BY <2>1, <2>2, <2>3, <2>4 DEF IsTree
  <2>6. t \in [Paths -> Nodes \union {None}] BY <2>1 DEF IsTree
  <2> QED BY <2>4, <2>5, <2>6
<1> QED BY <1>2, <1>3, FailsDone, SucceedsDone

LEMMA MvDone == ASSUME Types, FailureIsContained, Mv PROVE SuccessIsComplete'
<1> DEFINE p == job.p
           q == job.q
<1>1. job.op = "mv" /\ pc = "work" BY DEF Mv, Doing
<1>2. alone => tree = before BY <1>1, NotYet
<1>3. Meaning(job, before) =
        [r \in Paths |-> IF Under(q, r) THEN In(before, Along(r, q, p))
                         ELSE IF Under(p, r) THEN None ELSE before[r]]
  BY <1>1 DEF Meaning
<1>4. alone => Moved(p, q) = Meaning(job, before) BY <1>2, <1>3 DEF Moved, At
<1>5. \/ \E e \in {"noent", "exists", "other", "invalid", "not a directory", "too long"} :
              Fails(e)
      \/ Succeeds(Moved(p, q))
  BY DEF Mv, Moved
<1> QED BY <1>4, <1>5, FailsDone, SucceedsDone

\* What a change of mode means for each path.
LEMMA ChmodMeans ==
  ASSUME NEW j, j.op = "chmod", NEW t
  PROVE  Meaning(j, t) =
           [r \in Paths |->
              IF t[r] # None /\ (r = j.p \/ (j.rec /\ Under(j.p, r)))
                THEN [t[r] EXCEPT !.mode = "new"] ELSE t[r]]
BY DEF Meaning

LEMMA ChmodDone == ASSUME Types, FailureIsContained, Chmod PROVE SuccessIsComplete'
<1> DEFINE p == job.p
           t == [tree EXCEPT ![p].mode = "new"]
           M == Meaning(job, before)
<1>1. job.op = "chmod" /\ ~job.rec /\ pc = "work" BY DEF Chmod, Doing
<1>2. Fails("noent") \/ (Exists(p) /\ Succeeds(t)) BY DEF Chmod
<1>3. ASSUME alone, Exists(p) PROVE t = M
  <2>1. tree = before /\ IsTree(tree) BY <1>1, <1>3, NotYet DEF Types
  <2>2. p \in Paths /\ tree[p] # None BY <1>3, <2>1, Existing
  <2>3. M = [r \in Paths |-> IF before[r] # None /\ (r = p \/ (job.rec /\ Under(p, r)))
                               THEN [before[r] EXCEPT !.mode = "new"] ELSE before[r]]
    BY <1>1, ChmodMeans
  <2>4. t = [r \in Paths |-> IF r = p THEN [tree[p] EXCEPT !.mode = "new"] ELSE tree[r]]
    BY <2>1 DEF IsTree
  <2> HIDE DEF t, M, p
  <2>5. \A r \in Paths : t[r] = M[r] BY <1>1, <2>1, <2>2, <2>3, <2>4
  <2> QED BY <2>3, <2>4, <2>5
<1> QED BY <1>2, <1>3, FailsDone, SucceedsDone

LEMMA RmdStepDone == ASSUME Types, FailureIsContained, RmdStep PROVE SuccessIsComplete'
<1> DEFINE p == job.p
           M == Meaning(job, before)
<1>1. job.op = "rmd" /\ pc = "work" BY DEF RmdStep, Doing
<1>2. ASSUME alone, ~Exists(p) PROVE tree = M
  <2>1. IsTree(tree) /\ p \in Strings /\ tree \in [Paths -> Nodes]
    BY DEF Types, IsJob, IsTree
  <2>2. M = [r \in Paths |-> IF Under(p, r) THEN None ELSE before[r]]
    BY <1>1 DEF Meaning
  <2>3. ASSUME NEW r \in Paths, Under(p, r) PROVE tree[r] = None
    <3>1. tree[r] # None => p \in Paths /\ tree[p] # None BY <2>1, <2>3, DirsAbove
    <3> QED BY <1>2, <2>1, <3>1, Existing
  <2>4. ASSUME NEW r \in Paths, ~Under(p, r) PROVE tree[r] = before[r]
    BY <1>1, <1>2, <2>4 DEF FailureIsContained, Touches
  <2> QED BY <2>1, <2>2, <2>3, <2>4
<1>3. CASE ~Exists(p) /\ Succeeds(tree) BY <1>2, <1>3, SucceedsDone
<1>4. CASE UNCHANGED pc BY <1>1, <1>4 DEF SuccessIsComplete
<1> QED BY <1>3, <1>4, FailsDone DEF RmdStep

LEMMA RmdBeginsDone == ASSUME RmdBegins PROVE SuccessIsComplete'
<1>1. pc = "work" BY DEF RmdBegins, Doing
<1>2. CASE UNCHANGED pc BY <1>1, <1>2 DEF SuccessIsComplete
<1> QED BY <1>2, FailsDone DEF RmdBegins

-----------------------------------------------------------------------------
(* A change of mode. *)

LEMMA ChangedTwice ==
  ASSUME NEW n \in Nodes, n # None
  PROVE  LET m == [n EXCEPT !.mode = "new"]
         IN m # None /\ [m EXCEPT !.mode = "new"] = m
<1>1. CASE n.is = "dir"
  <2>1. n = Dir(n.mode) BY <1>1, NodeIs
  <2> QED BY <2>1 DEF Dir, None
<1>2. CASE n.is = "file"
  <2>1. n = File(n.content, n.mode) BY <1>2, NodeIs
  <2> QED BY <2>1 DEF File, None
<1> QED BY <1>1, <1>2, NodeIs

LEMMA ChmodGoesOn ==
  ASSUME Types, Agenda, ChmodSoFar, ChmodStep, alone, Exists(Head(agenda)),
         NEW r \in Paths
  PROVE  LET M == Meaning(job, before)
             rest == InOrder(Children(Head(agenda))) \o Tail(agenda)
         IN /\ tree'[r] \in {before[r], M[r]}
            /\ (\A e \in Items(rest) : ~Under(e, r)) => tree'[r] = M[r]
<1> DEFINE M == Meaning(job, before)
           p == Head(agenda)
           C == Children(p)
           rest == InOrder(C) \o Tail(agenda)
           new(n) == [n EXCEPT !.mode = "new"]
<1>1. /\ job.op = "chmod" /\ job.rec /\ pc = "work" /\ agenda # <<>> /\ IsJob(job)
      /\ IsTree(tree) /\ IsTree(before)
      /\ agenda \in Seq(Strings) /\ \A e \in Items(agenda) : Under(job.p, e)
  BY DEF ChmodStep, Doing, Types, Agenda, IsAgenda
<1>2. /\ p \in Strings /\ Tail(agenda) \in Seq(Strings) /\ p \in Items(agenda)
      /\ Items(agenda) = {p} \union Items(Tail(agenda))
  BY <1>1, HeadAndTail
<1>3. /\ p \in Paths /\ tree[p] # None BY <1>1, Existing
<1>4. tree' = [tree EXCEPT ![p] = new(tree[p])]
  BY <1>1 DEF ChmodStep
<1>5. Items(rest) = C \union Items(Tail(agenda))
  <2>1. IsFiniteSet(C) /\ C \subseteq Strings BY <1>1, <1>2, ChildrenAre
  <2>2. InOrder(C) \in Seq(Strings) /\ Items(InOrder(C)) = C
    BY <2>1, InOrderItems, SeqMonotonic
  <2> DEFINE s == InOrder(C)
             t == Tail(agenda)
  <2>3. s \in Seq(Strings) /\ t \in Seq(Strings) /\ Items(s) = C BY <1>2, <2>2
  <2> HIDE DEF s, t, C
  <2>4. Items(s \o t) = Items(s) \union Items(t) BY <2>3, ItemsOf
  <2> QED BY <2>3, <2>4 DEF s, t
<1>6. \A x \in Paths : M[x] = IF before[x] # None /\ Under(job.p, x)
                               THEN new(before[x]) ELSE before[x]
  <2>1. job.p \in Strings /\ Under(job.p, job.p) BY <1>1, UnderItself DEF IsJob
  <2> QED BY <1>1, <2>1, ChmodMeans
<1>7. \A x \in Paths : /\ tree[x] \in {before[x], M[x]}
                       /\ (\A e \in Items(agenda) : ~Under(e, x)) => tree[x] = M[x]
  BY <1>1 DEF ChmodSoFar
<1>8. \A x \in Paths : before[x] \in Nodes /\ tree[x] \in Nodes BY <1>1 DEF IsTree
<1>9. \A n \in Nodes : n # None => new(n) # None /\ new(new(n)) = new(n)
  BY ChangedTwice
<1>10. \A x \in Paths : x # p => tree'[x] = tree[x] BY <1>1, <1>3, <1>4 DEF IsTree
<1>11. tree'[p] = new(tree[p]) BY <1>1, <1>3, <1>4 DEF IsTree
<1> HIDE DEF M, p, C, rest, new
<1>12. Under(job.p, p) BY <1>1, <1>2
<1>13. tree'[p] = M[p]
  <2>1. before[p] # None BY <1>3, <1>6, <1>7
  <2>2. M[p] = new(before[p]) BY <1>3, <1>6, <1>12, <2>1
  <2>3. new(new(before[p])) = new(before[p]) BY <1>3, <1>8, <1>9, <2>1
  <2>4. tree[p] = before[p] \/ tree[p] = new(before[p]) BY <1>3, <1>7, <2>2
  <2> QED BY <1>11, <2>2, <2>3, <2>4
<1>14. tree'[r] \in {before[r], M[r]} BY <1>7, <1>10, <1>13
<1>15. ASSUME \A e \in Items(rest) : ~Under(e, r), r # p PROVE tree'[r] = M[r]
  <2>1. tree'[r] = tree[r] BY <1>10, <1>15
  <2>2. \A e \in Items(Tail(agenda)) : ~Under(e, r) BY <1>5, <1>15
  <2>3. CASE ~Under(p, r)
    <3>1. \A e \in Items(agenda) : ~Under(e, r) BY <1>2, <2>2, <2>3
    <3> QED BY <1>7, <2>1, <3>1
  <2>4. CASE Under(p, r)
    <3>1. \A c \in C : ~Under(c, r) BY <1>5, <1>15
    <3>2. tree[r] = None BY <1>1, <1>2, <1>15, <2>4, <3>1, TowardChild DEF C
    <3>3. before[r] = None
      BY <1>6, <1>7, <1>8, <1>9, <3>2
    <3>4. M[r] = before[r] BY <1>6, <3>3
    <3> QED BY <2>1, <3>2, <3>3, <3>4
  <2> QED BY <2>3, <2>4
<1> QED BY <1>13, <1>14, <1>15 DEF M, p, C, rest

LEMMA ChmodStepDone ==
  ASSUME Types, Agenda, ChmodSoFar, ChmodStep
  PROVE  ChmodSoFar' /\ SuccessIsComplete'
<1> DEFINE M == Meaning(job, before)
           p == Head(agenda)
           rest == InOrder(Children(p)) \o Tail(agenda)
<1>1. CASE Fails("noent")
  <2>1. ChmodSoFar' BY <1>1 DEF Fails, Finish, ChmodSoFar
  <2> QED BY <1>1, <2>1, FailsDone
<1>2. CASE Exists(p) /\ Goes(rest) /\ UNCHANGED <<wd, job, err, shown, historyVars, count, edits>>
  <2>1. UNCHANGED <<job, before, alone>> BY <1>2 DEF historyVars
  <2>2. ASSUME alone
        PROVE  \A r \in Paths : /\ tree'[r] \in {before[r], M[r]}
                                /\ (\A e \in Items(rest) : ~Under(e, r)) => tree'[r] = M[r]
    BY <1>2, <2>2, ChmodGoesOn
  <2>3. ASSUME alone, rest = <<>> PROVE tree' = M
    <3> HIDE DEF rest
    <3>1. Items(rest) = {} BY <2>3, NoItems
    <3>2. \A r \in Paths : tree'[r] = M[r] BY <2>2, <2>3, <3>1
    <3>3. tree' \in [Paths -> Nodes] BY ChmodStepTypes DEF Types, IsTree
    <3>4. job.op = "chmod" BY DEF ChmodStep, Doing
    <3>5. M = [r \in Paths |-> M[r]] BY <3>4, ChmodMeans
    <3> HIDE DEF M, rest
    <3> QED BY <3>2, <3>3, <3>5
  <2>4. /\ pc' = "answer" => rest = <<>>
        /\ pc' = "work" => agenda' = rest
    BY <1>2 DEF Goes
  <2> HIDE DEF M, rest, p
  <2>5. SuccessIsComplete' BY <2>1, <2>3, <2>4, DoneIf DEF M
  <2>6. ChmodSoFar' BY <2>1, <2>2, <2>4 DEF ChmodSoFar, M
  <2> QED BY <2>5, <2>6
<1> QED BY <1>1, <1>2 DEF ChmodStep

-----------------------------------------------------------------------------
(* A copy. *)

\* A copy on its way, nobody else interfering, that does not meet its source.
Copying ==
  /\ Types /\ Agenda /\ CopySoFar /\ pc = "work" /\ job.op = "cp" /\ alone
  /\ ~CopyOntoItself /\ Exists(Head(agenda).src)

LEMMA CopiedIs ==
  ASSUME NEW t, NEW p, NEW q, NEW r \in Paths
  PROVE  Copied(t, p, q)[r] =
           IF Under(q, r) /\ In(t, Along(r, q, p)) # None
             THEN IF t[r].is = "dir" THEN t[r] ELSE Made(t[Along(r, q, p)])
           ELSE IF Under(r, q) /\ t[r] = None THEN Dir(Umasked[t[p].mode]) ELSE t[r]
BY DEF Copied

\* Of a directory the umask takes its part, of a file nothing.
LEMMA MadeIs ==
  ASSUME NEW n \in Nodes, n # None
  PROVE  /\ n.is = "dir" => Made(n) = Dir(Umasked[n.mode])
         /\ n.is # "dir" => Made(n) = n
         /\ Made(n) # None
<1>1. n.is = "dir" => Made(n) = Dir(Umasked[n.mode]) BY DEF Made
<1>2. n.is # "dir" => Made(n) = n BY DEF Made
<1>3. Dir(Umasked[n.mode]) # None BY DEF Dir, None
<1> QED BY <1>1, <1>2, <1>3

\* What is known of the next entry.
LEMMA CopyFacts ==
  ASSUME Copying
  PROVE  LET src == Head(agenda).src
             dst == Head(agenda).dst
             M == Copied(before, job.p, job.q)
         IN /\ IsTree(tree) /\ IsTree(before) /\ IsJob(job) /\ IsCopyAgenda(job, agenda)
            /\ job.p \in Strings /\ job.q \in Strings /\ agenda # <<>>
            /\ src \in Paths /\ src \in Strings /\ dst \in Strings /\ Under(job.p, src)
            /\ dst = Along(src, job.p, job.q) /\ Under(job.q, dst)
            /\ Along(dst, job.q, job.p) = src
            /\ Items(agenda) = {Head(agenda)} \union Items(Tail(agenda))
            /\ \A x \in Paths : Under(job.p, x) => tree[x] = before[x]
            /\ \A e \in Items(agenda) :
                 e.src # job.p => In(before, e.src) # None /\ IsDir(Parent(e.dst))
            /\ tree[src] = before[src] /\ before[src] # None /\ At(src) = tree[src]
            /\ job.p \in Paths /\ before[job.p] # None /\ tree[job.p] = before[job.p]
            /\ \A x \in Paths :
                 /\ tree[x] \in {before[x], M[x]}
                 /\ (\A e \in Items(agenda) : e.src # job.p /\ ~Under(e.dst, x)) =>
                      tree[x] = M[x]
<1> DEFINE src == Head(agenda).src
           dst == Head(agenda).dst
           M == Copied(before, job.p, job.q)
<1>1. /\ IsTree(tree) /\ IsTree(before) /\ IsJob(job) /\ IsCopyAgenda(job, agenda)
      /\ job.p \in Strings /\ job.q \in Strings /\ agenda # <<>>
  BY DEF Copying, Types, Agenda, IsAgenda, IsJob
<1>2. /\ src \in Strings /\ dst \in Strings /\ Under(job.p, src)
      /\ dst = Along(src, job.p, job.q) /\ Under(job.q, dst)
      /\ Items(agenda) = {Head(agenda)} \union Items(Tail(agenda))
  BY <1>1, CopyHead DEF Copying
<1>3. /\ \A x \in Paths : Under(job.p, x) => tree[x] = before[x]
      /\ \A e \in Items(agenda) :
           e.src # job.p => In(before, e.src) # None /\ IsDir(Parent(e.dst))
      /\ In(before, job.p) # None => \A x \in Paths :
           /\ tree[x] \in {before[x], M[x]}
           /\ (\A e \in Items(agenda) : e.src # job.p /\ ~Under(e.dst, x)) =>
                tree[x] = M[x]
  BY DEF Copying, CopySoFar
<1>4. Exists(src) BY DEF Copying
<1> HIDE DEF src, dst, M
<1>5. Along(dst, job.q, job.p) = src BY <1>1, <1>2, AlongBack
<1>6. src \in Paths /\ tree[src] # None /\ At(src) = tree[src] BY <1>1, <1>4, Existing
<1>7. tree[src] = before[src] BY <1>2, <1>3, <1>6
<1>8. job.p \in Paths /\ before[job.p] # None BY <1>1, <1>2, <1>6, <1>7, DirsAbove
<1>9. tree[job.p] = before[job.p] BY <1>1, <1>3, <1>8, UnderItself
<1>10. In(before, job.p) # None BY <1>8 DEF In
<1> QED BY <1>1, <1>2, <1>3, <1>5, <1>6, <1>7, <1>8, <1>9, <1>10 DEF src, dst, M

\* What the copy means for the place of the next entry.
LEMMA CopyPlace ==
  ASSUME Copying, Head(agenda).dst \in Paths
  PROVE  LET src == Head(agenda).src
             dst == Head(agenda).dst
         IN Copied(before, job.p, job.q)[dst] =
              IF before[dst].is = "dir" THEN before[dst] ELSE Made(tree[src])
<1> DEFINE src == Head(agenda).src
           dst == Head(agenda).dst
<1>1. /\ Under(job.q, dst) /\ Along(dst, job.q, job.p) = src /\ src \in Paths
      /\ tree[src] = before[src] /\ before[src] # None
  BY CopyFacts
<1> HIDE DEF src, dst
<1>2. In(before, Along(dst, job.q, job.p)) # None BY <1>1 DEF In
<1> QED BY <1>1, <1>2, CopiedIs DEF src, dst

\* A step does not change the source.
LEMMA CopySafe ==
  ASSUME Copying, [Next]_vars, edits' = edits,
         \/ DirCopied(Head(agenda).src, Head(agenda).dst)
         \/ FileCopied(Head(agenda).src, Head(agenda).dst),
         NEW r \in Paths, Under(job.p, r)
  PROVE  tree'[r] = tree[r]
<1> DEFINE src == Head(agenda).src
           dst == Head(agenda).dst
<1>0. Types /\ Agenda /\ pc = "work" /\ job.op = "cp" /\ ~CopyOntoItself BY DEF Copying
<1>1. CASE ~CopyUpwards BY <1>0, <1>1, SourceSafe
<1>2. CASE CopyUpwards
  <2> SUFFICES ASSUME tree'[r] # tree[r] PROVE FALSE OBVIOUS
  <2>1. /\ job.p \in Strings /\ job.q \in Strings /\ src \in Strings /\ dst \in Strings
        /\ r \in Strings /\ Under(job.p, src) /\ dst = Along(src, job.p, job.q)
        /\ Under(job.q, job.p) /\ In(before, Along(job.p, job.q, job.p)) = None
        /\ IsTree(tree) /\ IsTree(before) /\ src \in Paths /\ before[src] # None
    BY <1>0, <1>2, CopyFacts, PathStrings DEF CopyUpwards, CopyOntoItself
  <2>2. Under(r, dst) BY <2>1, CopyChanges
  <2>3. CASE src # job.p
    <3> DEFINE m == Along(job.p, job.q, job.p)
    <3>1. Under(job.p, dst) BY <2>1, <2>2, UnderBoth
    <3>2. Under(m, src) /\ m \in Strings BY <2>1, <3>1, AlongMeets, AlongUnder
    <3>3. In(before, m) = None BY <2>1
    <3> HIDE DEF m, src, dst
    <3>4. m \in Paths /\ before[m] # None BY <2>1, <3>2, DirsAbove
    <3> QED BY <3>3, <3>4 DEF In
  <2>4. CASE src = job.p
    <3>1. dst = job.q BY <2>1, <2>4, AlongItself
    <3>2. Under(r, job.p) BY <2>1, <2>2, <3>1, UnderBoth
    <3>3. r = job.p BY <2>1, <3>2, UnderEachOther
    <3>4. Exists(r) BY <2>4, <3>3 DEF Copying
    <3>5. CASE DirCopied(src, dst) BY <3>4, <3>5 DEF DirCopied, WithDirs
    <3>6. CASE FileCopied(src, dst)
      <4>1. job.q = job.p BY <2>1, <2>2, <3>1, <3>3, UnderEachOther
      <4>2. Along(job.p, job.q, job.p) = job.p BY <2>1, <4>1, AlongItself
      <4>3. In(before, job.p) = before[job.p] /\ before[job.p] # None
        BY <2>1, <2>4 DEF In
      <4> QED BY <2>1, <4>2, <4>3
    <3> QED BY <3>5, <3>6
  <2> QED BY <2>3, <2>4
<1> QED BY <1>1, <1>2

\* What is beside the next entry's place, and was there, has been done when it is not
\* below another.
LEMMA CopyBeside ==
  ASSUME Copying, NEW r \in Paths, ~Under(Head(agenda).dst, r),
         Under(r, Head(agenda).dst) => tree[r] # None \/ Head(agenda).src # job.p,
         \A e \in Items(Tail(agenda)) : e.src # job.p /\ ~Under(e.dst, r)
  PROVE  tree[r] = Copied(before, job.p, job.q)[r]
<1> DEFINE src == Head(agenda).src
           dst == Head(agenda).dst
           M == Copied(before, job.p, job.q)
<1>1. /\ job.p \in Strings /\ job.q \in Strings /\ dst = Along(src, job.p, job.q)
      /\ tree[r] \in {before[r], M[r]}
      /\ (\A e \in Items(agenda) : e.src # job.p /\ ~Under(e.dst, r)) => tree[r] = M[r]
      /\ Items(agenda) = {Head(agenda)} \union Items(Tail(agenda))
  BY CopyFacts
<1>2. CASE src # job.p BY <1>1, <1>2
<1>3. CASE src = job.p
  <2>1. dst = job.q BY <1>1, <1>3, AlongItself
  <2>2. M[r] = IF Under(r, job.q) /\ before[r] = None
                 THEN Dir(Umasked[before[job.p].mode]) ELSE before[r]
    BY <2>1, CopiedIs
  <2>3. Under(r, job.q) => tree[r] # None BY <1>3, <2>1
  <2> HIDE DEF M, src, dst
  <2> QED BY <1>1, <2>2, <2>3 DEF M
<1> QED BY <1>2, <1>3

\* Below the next entry's place: what belongs there is below the entry.
LEMMA CopyBelow ==
  ASSUME Copying, Head(agenda).dst \in Paths,
         NEW r \in Paths, Under(Head(agenda).dst, r), Head(agenda).dst # r
  PROVE  LET src == Head(agenda).src
             dst == Head(agenda).dst
             a == Along(r, dst, src)
         IN /\ a \in Strings /\ Under(src, a) /\ src # a /\ Along(a, src, dst) = r
            /\ In(before, a) = None => Copied(before, job.p, job.q)[r] = before[r]
<1> DEFINE src == Head(agenda).src
           dst == Head(agenda).dst
           a == Along(r, dst, src)
<1>1. /\ job.p \in Strings /\ job.q \in Strings /\ src \in Strings /\ dst \in Strings
      /\ Under(job.p, src) /\ dst = Along(src, job.p, job.q) /\ Under(job.q, dst)
      /\ r \in Strings
  BY CopyFacts, PathStrings
<1>2. Along(r, job.q, job.p) = a BY <1>1, AlongFurther
<1>3. a \in Strings /\ Under(src, a) /\ Along(a, src, dst) = r
  BY <1>1, AlongUnder, AlongBack
<1>4. src # a BY <1>1, <1>3, AlongItself
<1>5. ~Under(r, job.q) BY <1>1, UnderBoth, UnderEachOther
<1> HIDE DEF a, src, dst
<1>6. In(before, a) = None => Copied(before, job.p, job.q)[r] = before[r]
  BY <1>2, <1>5, CopiedIs
<1> QED BY <1>3, <1>4, <1>6 DEF a, src, dst

\* A directory goes to its place: what it changes is what the copy means.
LEMMA DirGoesOn ==
  ASSUME Copying, DirCopied(Head(agenda).src, Head(agenda).dst), NEW r \in Paths
  PROVE  LET M == Copied(before, job.p, job.q)
             E == Entries(Head(agenda).src, Head(agenda).dst)
         IN /\ tree'[r] \in {before[r], M[r]}
            /\ (/\ \A e \in Items(E) : e.src # job.p /\ ~Under(e.dst, r)
                /\ \A e \in Items(Tail(agenda)) : e.src # job.p /\ ~Under(e.dst, r)) =>
                 tree'[r] = M[r]
<1> DEFINE src == Head(agenda).src
           dst == Head(agenda).dst
           M == Copied(before, job.p, job.q)
           E == Entries(src, dst)
           up == Parent(dst)
<1>1. /\ IsTree(tree) /\ IsTree(before) /\ job.p \in Strings /\ job.q \in Strings
      /\ src \in Strings /\ dst \in Strings /\ src \in Paths /\ Under(job.p, src)
      /\ dst = Along(src, job.p, job.q) /\ Under(job.q, dst)
      /\ tree[src] = before[src] /\ At(src) = tree[src] /\ r \in Strings
      /\ tree[r] \in {before[r], M[r]}
  BY CopyFacts, PathStrings
<1>2. src # job.p => IsDir(up)
  <2>1. Head(agenda) \in Items(agenda) BY CopyFacts
  <2> QED BY <2>1, CopyFacts
<1>3. /\ IsDir(src) /\ dst \in Paths
      /\ \A x \in Paths : Under(x, dst) /\ Exists(x) => IsDir(x)
      /\ \A x \in Paths : tree'[x] = IF Under(x, dst) /\ ~Exists(x)
                                      THEN Dir(Umasked[At(src).mode]) ELSE tree[x]
  BY DEF DirCopied, WithDirs
<1>4. M[dst] = IF before[dst].is = "dir" THEN before[dst] ELSE Made(tree[src])
  BY <1>3, CopyPlace
<1>5. /\ tree[src].is = "dir" /\ Made(tree[src]) = Dir(Umasked[At(src).mode])
      /\ tree[src] # None /\ Made(tree[src]) # None
  <2>1. tree[src] \in Nodes /\ tree[src].is = "dir" /\ tree[src] # None
    BY <1>1, <1>3, Existing DEF None
  <2> QED BY <1>1, <2>1, MadeIs
<1>6. CASE r = dst
  <2>1. M[dst] # None BY <1>4, <1>5 DEF None
  <2>2. CASE tree[dst] = None
    <3>1. tree'[dst] = Made(tree[src]) BY <1>1, <1>3, <1>5, <2>2, Existing, UnderItself
    <3>2. before[dst] = None BY <1>1, <1>6, <2>1, <2>2
    <3>3. None.is # "dir" BY DEF None
    <3> QED BY <1>4, <1>6, <3>1, <3>2, <3>3
  <2>3. CASE tree[dst] # None
    <3>1. Exists(dst) /\ tree[dst].is = "dir"
      BY <1>1, <1>3, <2>3, Existing, UnderItself
    <3>2. tree'[dst] = tree[dst] BY <1>3, <3>1
    <3> QED BY <1>1, <1>4, <1>6, <3>1, <3>2
  <2> QED BY <2>2, <2>3
<1>7. CASE r # dst /\ Under(dst, r)
  <2> DEFINE a == Along(r, dst, src)
  <2>1. ~Under(r, dst) BY <1>1, <1>7, UnderEachOther
  <2>2. tree'[r] = tree[r] BY <1>3, <2>1
  <2>3. /\ a \in Strings /\ Under(src, a) /\ src # a /\ Along(a, src, dst) = r
        /\ In(before, a) = None => M[r] = before[r]
    BY <1>3, <1>7, CopyBelow
  <2>4. ASSUME In(before, a) # None
        PROVE  \E e \in Items(E) : Under(e.dst, r)
    <3> DEFINE c == Toward(src, a)
               x == Base(c)
    <3> HIDE DEF a
    <3>1. a \in Paths /\ before[a] # None BY <2>4 DEF In
    <3>2. Under(job.p, a) BY <1>1, <2>3, UnderBoth
    <3>3. tree[a] # None BY <3>1, <3>2, CopyFacts
    <3>4. c \in Children(src) /\ Under(c, a) BY <1>1, <2>3, <3>1, <3>3, TowardChild
    <3> HIDE DEF c
    <3>5. /\ c \in Strings /\ Under(src, c) /\ x \in Names /\ c = Append(src, x)
      BY <1>1, <3>4, ChildrenAre
    <3>6. /\ \A e \in Items(E) : e.dst = Append(dst, Base(e.src))
          /\ \E e \in Items(E) : e.src = c
      <4>1. IsTree(tree) /\ src \in Strings /\ dst \in Strings BY <1>1
      <4>2. \A e \in Items(E) : e.dst = Append(dst, Base(e.src)) BY <4>1, EntriesAre
      <4>3. \E e \in Items(E) : e.src = c BY <3>4, <4>1, EntriesAre
      <4>4. QED BY <4>2, <4>3
    <3> HIDE DEF E, src, dst
    <3>7. PICK e \in Items(E) : e.src = c /\ e.dst = Append(dst, x) BY <3>6
    <3> HIDE DEF x
    <3>8. Along(c, src, dst) = Append(dst, x)
      <4>1. Along(src, src, dst) = dst /\ Under(src, src) BY <1>1, AlongItself, UnderItself
      <4>2. src \in Strings /\ dst \in Strings /\ x \in Names BY <1>1, <3>5
      <4>3. Along(Append(src, x), src, dst) = Append(Along(src, src, dst), x)
        BY <4>1, <4>2, AlongLonger, Zenon
      <4> QED BY <3>5, <4>1, <4>3
    <3>9. Under(Along(c, src, dst), Along(a, src, dst))
      BY <1>1, <2>3, <3>4, <3>5, AlongBoth
    <3> QED BY <2>3, <3>7, <3>8, <3>9
  <2> HIDE DEF a, E, M
  <2> QED BY <1>1, <2>2, <2>3, <2>4 DEF E, M
<1>8. CASE ~Under(dst, r) /\ (Under(r, dst) => tree[r] # None)
  <2>1. tree'[r] = tree[r] BY <1>1, <1>3, <1>8, Existing
  <2> HIDE DEF E
  <2>2. (\A e \in Items(Tail(agenda)) : e.src # job.p /\ ~Under(e.dst, r)) => tree[r] = M[r]
    BY <1>8, CopyBeside
  <2> QED BY <1>1, <2>1, <2>2 DEF E
<1>9. CASE ~Under(dst, r) /\ Under(r, dst) /\ tree[r] = None
  <2>1. src = job.p
    <3>1. ASSUME IsDir(up) PROVE FALSE
      <4>1. dst # r BY <1>1, <1>9
      <4>2. Under(r, up) BY <1>1, <1>9, <4>1, AboveParent
      <4>3. up \in Paths /\ tree[up] # None BY <1>1, <3>1, Existing
      <4> QED BY <1>1, <1>9, <4>2, <4>3, DirsAbove
    <3> QED BY <1>2, <3>1
  <2>2. dst = job.q BY <1>1, <2>1, AlongItself
  <2>3. M[r] = IF before[r] = None THEN Dir(Umasked[before[job.p].mode]) ELSE before[r]
    BY <1>9, <2>2, CopiedIs
  <2>4. tree'[r] = Dir(Umasked[before[job.p].mode])
    BY <1>1, <1>3, <1>9, <2>1, Existing
  <2>5. before[r] = None BY <1>1, <1>9, <2>3
  <2> QED BY <2>3, <2>4, <2>5
<1>10. r = dst => Under(dst, r) BY <1>1, UnderItself
<1> QED BY <1>6, <1>7, <1>8, <1>9, <1>10

\* So does a file.
LEMMA FileGoesOn ==
  ASSUME Copying, FileCopied(Head(agenda).src, Head(agenda).dst), NEW r \in Paths
  PROVE  LET M == Copied(before, job.p, job.q)
         IN /\ tree'[r] \in {before[r], M[r]}
            /\ (\A e \in Items(Tail(agenda)) : e.src # job.p /\ ~Under(e.dst, r)) =>
                 tree'[r] = M[r]
<1> DEFINE src == Head(agenda).src
           dst == Head(agenda).dst
           M == Copied(before, job.p, job.q)
           up == Parent(dst)
<1>1. /\ IsTree(tree) /\ IsTree(before) /\ job.p \in Strings /\ job.q \in Strings
      /\ src \in Strings /\ dst \in Strings /\ src \in Paths /\ Under(job.p, src)
      /\ dst = Along(src, job.p, job.q) /\ Under(job.q, dst)
      /\ tree[src] = before[src] /\ At(src) = tree[src] /\ before[src] # None
      /\ r \in Strings /\ tree[r] \in {before[r], M[r]}
  BY CopyFacts, PathStrings
<1>2. /\ Exists(src) /\ ~IsDir(src) /\ dst \in Paths /\ ~IsDir(dst) /\ IsDir(up) /\ dst # <<>>
  BY DEF FileCopied, Room
<1>3. /\ tree'[dst] = File(IF src = dst THEN Empty ELSE At(src).content, At(src).mode)
      /\ \A x \in Paths : x # dst => tree'[x] = tree[x]
  BY <1>1, <1>2 DEF FileCopied, IsTree
<1>4. M[dst] = IF before[dst].is = "dir" THEN before[dst] ELSE Made(tree[src])
  BY <1>2, CopyPlace
<1>5. /\ tree[src].is = "file" /\ tree[src] = File(At(src).content, At(src).mode)
      /\ Made(tree[src]) = tree[src]
  <2>1. tree[src] \in Nodes /\ tree[src].is = "file" /\ tree[src] # None
    BY <1>1, <1>2, Existing, NodeIs DEF Exists
  <2> QED BY <1>1, <2>1, NodeIs, MadeIs
<1>6. src # dst
  <2> HIDE DEF src, dst
  <2> SUFFICES ASSUME src = dst PROVE FALSE OBVIOUS
  <2> DEFINE p == job.p
             q == job.q
  <2>1. p \in Strings /\ q \in Strings /\ src \in Strings /\ Under(p, src) /\ src = Along(src, p, q)
    BY <1>1
  <2> HIDE DEF p, q
  <2>2. Len(Along(src, p, q)) = Len(q) + (Len(src) - Len(p)) BY <2>1, AlongNames
  <2>3. Len(p) \in Nat /\ Len(q) \in Nat /\ Len(src) \in Nat BY <2>1, StringType
  <2>4. Len(src) = Len(q) + (Len(src) - Len(p)) BY <2>1, <2>2
  <2>5. Len(p) = Len(q) BY <2>3, <2>4
  <2>6. p = q BY <1>1, <2>5, AboveTheSame, SameLength DEF p, q
  <2>7. Along(p, q, p) = p /\ Under(q, p) BY <2>1, <2>6, AlongItself, UnderItself
  <2>8. In(before, p) # None BY CopyFacts DEF In, p
  <2> QED BY <2>7, <2>8 DEF Copying, CopyOntoItself, CopyUpwards, p, q
<1>7. CASE r = dst
  <2>1. tree'[dst] = tree[src] BY <1>3, <1>5, <1>6
  <2>2. tree[dst].is # "dir" BY <1>1, <1>2, Existing
  <2>3. before[dst].is # "dir" BY <1>1, <1>4, <1>7, <2>2
  <2> QED BY <1>4, <1>5, <1>7, <2>1, <2>3
<1>8. CASE r # dst /\ Under(dst, r)
  <2> DEFINE a == Along(r, dst, src)
  <2>1. /\ a \in Strings /\ Under(src, a) /\ src # a
        /\ In(before, a) = None => M[r] = before[r]
    BY <1>2, <1>8, CopyBelow
  <2> HIDE DEF a
  <2>2. In(before, a) = None
    <3>1. a \in Paths => before[a] = None BY <1>1, <1>5, <2>1, DirsAbove
    <3> QED BY <3>1 DEF In
  <2>3. tree'[r] = tree[r] BY <1>3, <1>8
  <2> QED BY <1>1, <2>1, <2>2, <2>3
<1>9. CASE ~Under(dst, r)
  <2>1. r # dst BY <1>1, <1>9, UnderItself
  <2>2. tree'[r] = tree[r] BY <1>3, <2>1
  <2>3. ASSUME Under(r, dst) PROVE tree[r] # None
    <3>1. Under(r, up) BY <1>1, <2>1, <2>3, AboveParent
    <3>2. up \in Paths /\ tree[up] # None BY <1>1, <1>2, Existing
    <3> QED BY <1>1, <3>1, <3>2, DirsAbove
  <2>4. (\A e \in Items(Tail(agenda)) : e.src # job.p /\ ~Under(e.dst, r)) => tree[r] = M[r]
    BY <1>9, <2>3, CopyBeside
  <2> QED BY <1>1, <2>2, <2>4
<1> QED BY <1>7, <1>8, <1>9

\* A directory stays one.
LEMMA DirsStay ==
  ASSUME IsTree(tree), NEW src, NEW dst, DirCopied(src, dst) \/ FileCopied(src, dst),
         NEW x, IsDir(x)
  PROVE  x \in Paths /\ tree'[x].is = "dir" /\ IsDir(x)'
<1>1. x \in Paths /\ tree[x].is = "dir" /\ Exists(x) BY Existing
<1>2. tree'[x] = tree[x]
  BY <1>1 DEF DirCopied, FileCopied, WithDirs, IsTree
<1> QED BY <1>1, <1>2 DEF IsDir, At, In

LEMMA CpStepDone ==
  ASSUME Types, Agenda, CopySoFar, CpStep
  PROVE  CopySoFar' /\ SuccessIsComplete'
<1> DEFINE src == Head(agenda).src
           dst == Head(agenda).dst
           M == Copied(before, job.p, job.q)
           E == Entries(src, dst)
           t == Tail(agenda)
<1>0. job.op = "cp" /\ pc = "work" /\ [Next]_vars /\ IsTree(tree) /\ IsJob(job)
  BY DEF CpStep, Doing, Next, Work, Types
<1>1. ASSUME NEW e, e # "none", Fails(e) PROVE CopySoFar' /\ SuccessIsComplete'
  <2>1. CopySoFar' BY <1>1 DEF Fails, Finish, CopySoFar
  <2> QED BY <1>1, <2>1, FailsDone
<1>2. ASSUME DirCopied(src, dst) \/ FileCopied(src, dst)
      PROVE  CopySoFar' /\ SuccessIsComplete'
  <2> DEFINE rest == IF DirCopied(src, dst) THEN E \o t ELSE t
  <2>1. /\ UNCHANGED <<job, before, alone, edits>> /\ Exists(src)
        /\ pc' = "answer" => rest = <<>>
        /\ pc' = "work" => agenda' = rest
    <3>1. DirCopied(src, dst) => Goes(E \o t) BY DEF DirCopied
    <3>2. FileCopied(src, dst) => Goes(t) BY DEF FileCopied
    <3>3. UNCHANGED <<job, before, alone, edits>> /\ Exists(src)
      BY <1>2 DEF DirCopied, FileCopied, historyVars, IsDir, Exists
    <3> QED BY <1>2, <3>1, <3>2, <3>3 DEF Goes
  <2>2. CopyOntoItself' <=> CopyOntoItself BY <2>1 DEF CopyOntoItself, CopyUpwards
  <2>3. ASSUME alone, ~CopyOntoItself
        PROVE  /\ \A r \in Paths : Under(job.p, r) => tree'[r] = before[r]
               /\ \A e \in Items(rest) :
                    e.src # job.p => In(before, e.src) # None /\ IsDir(Parent(e.dst))'
               /\ \A r \in Paths :
                    /\ tree'[r] \in {before[r], M[r]}
                    /\ (\A e \in Items(rest) : e.src # job.p /\ ~Under(e.dst, r)) =>
                         tree'[r] = M[r]
    <3>0. Copying BY <1>0, <2>1, <2>3 DEF Copying
    <3>1. ASSUME NEW r \in Paths, Under(job.p, r) PROVE tree'[r] = before[r]
      <4>1. tree'[r] = tree[r] BY <1>0, <1>2, <2>1, <3>0, <3>1, CopySafe
      <4> QED BY <3>0, <3>1, <4>1, CopyFacts
    <3>2. DirCopied(src, dst) => Items(rest) = Items(E) \union Items(t)
      <4> SUFFICES ASSUME DirCopied(src, dst) PROVE Items(E \o t) = Items(E) \union Items(t)
        OBVIOUS
      <4>1. IsCopyAgenda(job, agenda) /\ agenda # <<>> BY <3>0, CopyFacts
      <4>2. ~Under(job.p, job.q) BY <1>0, <4>1, DirNotInside
      <4> QED BY <1>0, <4>1, <4>2, EntriesAgenda
    <3>3. ~DirCopied(src, dst) => Items(rest) = Items(t) OBVIOUS
    <3>4. ASSUME NEW e \in Items(t), e.src # job.p
          PROVE  In(before, e.src) # None /\ IsDir(Parent(e.dst))'
      <4>1. e \in Items(agenda) BY <3>0, CopyFacts
      <4>2. In(before, e.src) # None /\ IsDir(Parent(e.dst)) BY <3>0, <3>4, <4>1, CopyFacts
      <4> DEFINE x == Parent(e.dst)
      <4> HIDE DEF x
      <4>3. IsDir(x) BY <4>2 DEF x
      <4>4. IsDir(x)' BY <1>0, <1>2, <4>3, DirsStay
      <4> QED BY <4>2, <4>4 DEF x
    <3>5. ASSUME DirCopied(src, dst), NEW e \in Items(E)
          PROVE  In(before, e.src) # None /\ IsDir(Parent(e.dst))'
      <4>1. src \in Strings /\ dst \in Strings /\ job.p \in Strings /\ Under(job.p, src)
        BY <3>0, CopyFacts
      <4>2. e.src \in Children(src) /\ e.dst = Append(dst, Base(e.src))
        <5>1. \A d \in Items(E) : d.src \in Children(src) /\ d.dst = Append(dst, Base(d.src))
          BY <1>0, <4>1, EntriesAre
        <5> HIDE DEF E, src, dst
        <5> QED BY <3>5, <5>1
      <4>3. /\ e.src \in Paths /\ e.src \in Strings /\ tree[e.src] # None
            /\ Under(src, e.src) /\ Base(e.src) \in Names
        BY <1>0, <4>1, <4>2, ChildrenAre
      <4>4. Under(job.p, e.src) BY <4>1, <4>3, UnderBoth
      <4>5. before[e.src] # None BY <3>0, <4>3, <4>4, CopyFacts
      <4>6. Parent(e.dst) = dst BY <4>1, <4>2, <4>3, Longer
      <4>7. dst \in Paths /\ tree'[dst].is = "dir"
        <5>1. /\ dst \in Paths /\ Under(dst, dst) /\ IsDir(src)
              /\ tree'[dst] = IF ~Exists(dst) THEN Dir(Umasked[At(src).mode])
                              ELSE tree[dst]
          BY <3>5, <4>1, UnderItself DEF DirCopied, WithDirs
        <5>2. Exists(dst) => IsDir(dst) BY <3>5, <5>1 DEF DirCopied
        <5>3. IsDir(dst) => tree[dst].is = "dir" BY <1>0, Existing
        <5>4. Dir(Umasked[At(src).mode]).is = "dir" BY DEF Dir
        <5> QED BY <5>1, <5>2, <5>3, <5>4
      <4> HIDE DEF dst
      <4>8. IsDir(Parent(e.dst))' BY <4>6, <4>7 DEF IsDir, At, In
      <4> QED BY <4>3, <4>5, <4>8 DEF In
    <3>6. ASSUME NEW r \in Paths
          PROVE  /\ tree'[r] \in {before[r], M[r]}
                 /\ (\A e \in Items(rest) : e.src # job.p /\ ~Under(e.dst, r)) =>
                      tree'[r] = M[r]
      <4>1. CASE DirCopied(src, dst)
        <5>1. /\ tree'[r] \in {before[r], M[r]}
              /\ (/\ \A e \in Items(E) : e.src # job.p /\ ~Under(e.dst, r)
                  /\ \A e \in Items(t) : e.src # job.p /\ ~Under(e.dst, r)) =>
                   tree'[r] = M[r]
          BY <3>0, <4>1, DirGoesOn
        <5> HIDE DEF M, E, t, rest
        <5> QED BY <3>2, <4>1, <5>1
      <4>2. CASE ~DirCopied(src, dst)
        <5>1. FileCopied(src, dst) BY <1>2, <4>2
        <5>2. /\ tree'[r] \in {before[r], M[r]}
              /\ (\A e \in Items(t) : e.src # job.p /\ ~Under(e.dst, r)) => tree'[r] = M[r]
          BY <3>0, <5>1, FileGoesOn
        <5> HIDE DEF M, t, rest
        <5> QED BY <3>3, <4>2, <5>2
      <4> QED BY <4>1, <4>2
    <3>7. ASSUME NEW e \in Items(rest), e.src # job.p
          PROVE  In(before, e.src) # None /\ IsDir(Parent(e.dst))'
      <4>1. CASE DirCopied(src, dst)
        <5>1. e \in Items(E) \/ e \in Items(t) BY <3>2, <4>1
        <5> QED BY <3>4, <3>5, <3>7, <4>1, <5>1
      <4>2. CASE ~DirCopied(src, dst)
        <5>1. e \in Items(t) BY <3>3, <4>2
        <5> QED BY <3>4, <3>7, <5>1
      <4> QED BY <4>1, <4>2
    <3> HIDE DEF M, rest
    <3> QED BY <3>1, <3>6, <3>7
  <2>4. ASSUME alone, ~CopyOntoItself, rest = <<>> PROVE tree' = M
    <3> HIDE DEF rest
    <3>1. Items(rest) = {} BY <2>4, NoItems
    <3>2. \A r \in Paths : tree'[r] = M[r] BY <2>3, <2>4, <3>1
    <3>3. tree' \in [Paths -> Nodes] BY CpStepTypes DEF Types, IsTree
    <3>4. M = [r \in Paths |-> M[r]] BY DEF Copied
    <3> HIDE DEF M
    <3> QED BY <3>2, <3>3, <3>4
  <2>5. M = Meaning(job, before) BY <1>0 DEF Meaning
  <2> HIDE DEF M, rest
  <2>6. SuccessIsComplete' BY <2>1, <2>4, <2>5, DoneIf
  <2>7. CopySoFar' BY <2>1, <2>2, <2>3 DEF CopySoFar, M
  <2> QED BY <2>6, <2>7
<1> QED BY <1>1, <1>2, CpStepIs

LEMMA WorkKeeps ==
  ASSUME Work
  PROVE  pc = "work" /\ job' = job /\ before' = before /\ (alone' => alone)
BY DEF Work, Denied, Mkd, Cwd, Pwd, Remove, Mv, Chmod, BadMode, ChmodStep, RmdBegins,
       RmdStep, CpStep, CopyDir, CopyFile, CopyFileFails, ListStep, Doing, Fails, Succeeds,
       Finish, historyVars, workVars

LEMMA ReadSoFar ==
  ASSUME Types, NEW q \in Requests, ReadCommand(q)
  PROVE  ChmodSoFar' /\ CopySoFar' /\ ListSoFar'
<1> DEFINE j == JobOf(q)
<1>1. IsJob(j) BY JobOfIs DEF Types, ReadCommand
<1>2. job' = j /\ agenda' = First(j) /\ tree' = tree /\ before' = tree /\ shown' = {}
  BY DEF ReadCommand
<1> HIDE DEF j
<1>3. ChmodSoFar'
  <2> SUFFICES ASSUME j.op = "chmod", NEW r \in Paths, \A e \in Items(First(j)) : ~Under(e, r)
               PROVE  Meaning(j, tree)[r] = tree[r]
    BY <1>2 DEF ChmodSoFar
  <2>1. Items(First(j)) = {j.p} /\ j.p \in Strings /\ r \in Strings
    BY <1>1, FirstIs, PathStrings DEF IsJob
  <2>2. ~Under(j.p, r) /\ r # j.p BY <2>1, UnderItself
  <2> QED BY <2>2, ChmodMeans
<1>4. CopySoFar'
  <2> SUFFICES ASSUME j.op = "cp"
               PROVE  /\ \E e \in Items(First(j)) : e.src = j.p
                      /\ \A e \in Items(First(j)) : e.src = j.p
    BY <1>2 DEF CopySoFar
  <2>1. Items(First(j)) = {[src |-> j.p, dst |-> j.q]} BY <1>1, FirstIs
  <2> QED BY <2>1
<1>5. ListSoFar' BY <1>2 DEF ListSoFar
<1> QED BY <1>3, <1>4, <1>5

LEMMA SuccessNext ==
  ASSUME Types, Agenda, FailureIsContained, ChmodSoFar, CopySoFar, SuccessIsComplete,
         [Next]_vars
  PROVE  ChmodSoFar' /\ CopySoFar' /\ SuccessIsComplete'
<1>1. CASE \E q \in Requests : ReadCommand(q)
  <2>1. SuccessIsComplete' BY <1>1 DEF ReadCommand, SuccessIsComplete
  <2> QED BY <1>1, <2>1, ReadSoFar
<1>2. CASE Work
  <2>1. pc = "work" /\ job' = job BY <1>2, WorkKeeps
  <2>2. CASE ChmodStep
    <3>1. job.op = "chmod" BY <2>2 DEF ChmodStep, Doing
    <3>2. CopySoFar' BY <2>1, <3>1 DEF CopySoFar
    <3> QED BY <2>2, <3>2, ChmodStepDone
  <2>3. CASE CpStep
    <3>1. job.op = "cp" BY <2>3 DEF CpStep, Doing
    <3>2. ChmodSoFar' BY <2>1, <3>1 DEF ChmodSoFar
    <3> QED BY <2>3, <3>2, CpStepDone
  <2>4. CASE Denied \/ BadMode \/ CopyFileFails
    <3>1. pc' = "answer" /\ err' # "none"
      BY <2>4 DEF Denied, BadMode, CopyFileFails, Fails, Finish
    <3> QED BY <3>1 DEF ChmodSoFar, CopySoFar, SuccessIsComplete
  <2>5. CASE Mkd \/ Cwd \/ Pwd \/ Remove \/ Mv \/ Chmod \/ RmdBegins \/ RmdStep \/ ListStep
    <3>1. job.op # "cp" /\ (job.op = "chmod" => ~job.rec)
      BY <2>5 DEF Mkd, Cwd, Pwd, Remove, Mv, Chmod, RmdBegins, RmdStep, ListStep, Doing
    <3>2. ChmodSoFar' /\ CopySoFar' BY <2>1, <3>1 DEF ChmodSoFar, CopySoFar
    <3>3. CASE ListStep
      <4>1. job.op = "list" BY <3>3 DEF ListStep, Doing
      <4>2. Fails("too deep") \/ UNCHANGED <<tree, job, before, alone>>
        BY <3>3, ListStepIs DEF historyVars
      <4>3. alone => tree = before BY <2>1, <4>1, NotYet
      <4>4. Meaning(job, before) = before BY <4>1 DEF Meaning
      <4>5. CASE Fails("too deep") BY <3>2, <4>5, FailsDone
      <4>6. CASE UNCHANGED <<tree, job, before, alone>>
        <5>1. SuccessIsComplete' BY <4>3, <4>4, <4>6, DoneIf
        <5> QED BY <3>2, <5>1
      <4> QED BY <4>2, <4>5, <4>6
    <3> QED BY <2>5, <3>2, <3>3, MkdDone, CwdDone, PwdDone, RemoveDone, MvDone, ChmodDone,
               RmdBeginsDone, RmdStepDone
  <2> QED BY <1>2, <2>2, <2>3, <2>4, <2>5 DEF Work
<1>3. CASE Answer \/ End
  BY <1>3 DEF Answer, End, ChmodSoFar, CopySoFar, SuccessIsComplete
<1>4. CASE Edit
  BY <1>4 DEF Edit, ChmodSoFar, CopySoFar, SuccessIsComplete
<1>5. CASE UNCHANGED vars
  <2>1. CopyOntoItself' <=> CopyOntoItself
    BY <1>5 DEF CopyOntoItself, CopyUpwards, vars, workVars, historyVars
  <2>2. \A x : IsDir(x)' <=> IsDir(x) BY <1>5 DEF IsDir, At, vars
  <2>3. UNCHANGED <<tree, pc, job, agenda, err, before, alone>>
    BY <1>5 DEF vars, workVars, historyVars
  <2>4. ChmodSoFar' BY <2>3 DEF ChmodSoFar
  <2>5. CopySoFar' BY <2>1, <2>2, <2>3 DEF CopySoFar, IsDir, At
  <2>6. SuccessIsComplete' BY <2>1, <2>3 DEF SuccessIsComplete
  <2> QED BY <2>4, <2>5, <2>6
<1> QED BY <1>1, <1>2, <1>3, <1>4, <1>5 DEF Next

\* A success, when nobody else interfered, has done what the command means, all of it
\* and nothing else: the recursive commands do of each path what the command means for
\* it, once, and an empty agenda leaves no path out.  A copied file gets the mode of its
\* source, a copied directory what the umask leaves of it.  But for a copy that meets its
\* source above it (CopyOntoItself), which may end well and not have made the copy.
THEOREM SuccessTheorem == Spec => []SuccessIsComplete
<1>1. Init => ChmodSoFar /\ CopySoFar /\ SuccessIsComplete
  BY DEF Init, ChmodSoFar, CopySoFar, SuccessIsComplete
<1>2. Types /\ Agenda /\ FailureIsContained /\ [Next]_vars
        /\ (ChmodSoFar /\ CopySoFar /\ SuccessIsComplete) =>
          (ChmodSoFar /\ CopySoFar /\ SuccessIsComplete)'
  BY SuccessNext
<1> QED BY <1>1, <1>2, TypesInvariant, FailureTheorem, PTL DEF Spec

-----------------------------------------------------------------------------
(* A listing. *)

\* An entry of a listing is in it.
LEMMA ListPlace ==
  ASSUME IsTree(before), IsJob(job), job.op = "list", agenda # <<>>, IsTree(tree),
         IsListAgenda(job, agenda), Listed(agenda, shown)
  PROVE  Head(agenda).path \in InDepth /\ In(before, Head(agenda).path).is = "dir"
<1> DEFINE p == Head(agenda).path
           k == Head(agenda).current
<1>1. /\ p \in Strings /\ k \in Nat /\ Head(agenda) \in Items(agenda)
      /\ Under(job.p, p) /\ k = Len(p) - Len(job.p)
  BY ListHead
<1>2. In(before, p).is = "dir" /\ (k = 0 \/ k < job.depth) BY <1>1 DEF Listed
<1>3. job.depth \in Nat BY DEF IsJob
<1> HIDE DEF p, k
<1>4. p \in Paths /\ before[p] # None BY <1>2, InTree DEF None
<1>5. k <= IF job.depth > 1 THEN job.depth ELSE 1 BY <1>1, <1>2, <1>3
<1> QED BY <1>1, <1>2, <1>4, <1>5 DEF InDepth, p

LEMMA ListGoesOn ==
  ASSUME IsTree(tree), IsJob(job), job.op = "list", agenda # <<>>, tree = before,
         IsListAgenda(job, agenda), Listed(agenda, shown), IsDir(Head(agenda).path),
         ~Head(agenda).read, NEW bad
  PROVE  LET p == Head(agenda).path
             k == Head(agenda).current
         IN Listed(Row(p, k, bad) \o Last(p, k) \o Tail(agenda),
                   shown \union {Show(q, q \notin bad) :
                                   q \in Children(p) \ Deeper(p, k, bad)})
<1> DEFINE p == Head(agenda).path
           k == Head(agenda).current
           D == Deeper(p, k, bad)
           l == [path |-> p, current |-> k, read |-> TRUE]
           rest == Row(p, k, bad) \o Last(p, k) \o Tail(agenda)
           s == shown \union {Show(q, q \notin bad) : q \in Children(p) \ D}
           h == Head(agenda)
           t == Tail(agenda)
<1>1. /\ p \in Strings /\ k \in Nat /\ h \in Items(agenda)
      /\ Under(job.p, p) /\ k = Len(p) - Len(job.p)
      /\ Items(agenda) = {h} \union Items(t)
  BY ListHead
<1>2. Items(rest) = {[path |-> c, current |-> k + 1, read |-> FALSE] : c \in D}
                      \union {l} \union Items(t)
  BY ListRest
<1>3. /\ job.p \in Strings /\ Len(job.p) \in Nat /\ Len(p) \in Nat /\ job.depth \in Nat
  BY <1>1, StringType DEF IsJob
<1>4. \A c \in Children(p) :
        /\ c \in Paths /\ c \in Strings /\ tree[c] # None /\ Under(p, c) /\ Len(c) = Len(p) + 1
  BY <1>1, ChildrenAre
<1>5. \A c : c \in D <=> c \in Children(p) /\ c \notin bad /\ IsDir(c) /\ k < job.depth - 1
  BY DEF Deeper, Descends
<1>6. /\ In(before, job.p).is = "dir"
      /\ \A e \in Items(agenda) : /\ In(before, e.path).is = "dir"
                                  /\ (e.current = 0 \/ e.current < job.depth)
      /\ \A x \in shown : x.path \in InDepth
      /\ \A r \in InDepth : Shown(r, shown) \/ \E e \in Items(agenda) : Awaits(e, r)
  BY DEF Listed
<1>7. \A r : r \in InDepth <=> /\ r \in Paths /\ Under(job.p, r) /\ tree[r] # None
                               /\ Len(r) - Len(job.p) <= Levels
  BY DEF InDepth, Levels
<1>8. Levels \in Nat /\ Levels >= 1 /\ Levels >= job.depth /\ (Levels > 1 => Levels = job.depth)
  BY <1>3 DEF Levels
<1>9. h.path = p /\ h.current = k /\ ~h.read OBVIOUS
<1>10. l.path = p /\ l.current = k /\ l.read OBVIOUS
<1>11. \A q : Show(q, q \notin bad).path = q /\ (Show(q, q \notin bad).ok <=> q \notin bad)
  BY DEF Show
<1>12. \A c \in Children(p) \ D : Show(c, c \notin bad) \in s OBVIOUS
<1>13. \A x \in s : x \in shown \/ \E c \in Children(p) : x.path = c BY <1>11
<1>14. shown \subseteq s OBVIOUS
<1>15. k = 0 \/ k < job.depth BY <1>1, <1>6
<1> HIDE DEF p, k, D, rest, h, t, s, l
<1>16. ASSUME NEW e \in Items(rest)
       PROVE  In(before, e.path).is = "dir" /\ (e.current = 0 \/ e.current < job.depth)
  <2>1. CASE e \in Items(t) BY <1>1, <1>6, <2>1
  <2>2. CASE e = l BY <1>1, <1>6, <1>9, <1>10, <2>2
  <2>3. ASSUME NEW c \in D, e = [path |-> c, current |-> k + 1, read |-> FALSE]
        PROVE  In(before, e.path).is = "dir" /\ (e.current = 0 \/ e.current < job.depth)
    <3>1. e.path = c /\ e.current = k + 1 /\ IsDir(c) /\ k < job.depth - 1
      BY <1>5, <2>3
    <3>2. In(before, c).is = "dir" BY <3>1 DEF IsDir, At
    <3>3. k + 1 < job.depth
      <4> DEFINE d == job.depth
      <4>1. k \in Nat /\ d \in Nat /\ k < d - 1 BY <1>1, <1>3, <3>1
      <4> HIDE DEF d
      <4>2. k + 1 < d BY <4>1
      <4> QED BY <4>2 DEF d
    <3> QED BY <3>1, <3>2, <3>3
  <2> QED BY <1>2, <2>1, <2>2, <2>3
<1>17. ASSUME NEW c \in Children(p) PROVE c \in InDepth
  <2>1. Under(job.p, c) BY <1>1, <1>3, <1>4, UnderBoth
  <2>2. Len(c) - Len(job.p) = k + 1 BY <1>1, <1>3, <1>4
  <2>3. k + 1 <= Levels BY <1>1, <1>3, <1>8, <1>15
  <2> QED BY <1>4, <1>7, <2>1, <2>2, <2>3
<1>18. \A x \in s : x.path \in InDepth BY <1>6, <1>13, <1>17
<1>19. ASSUME NEW r \in InDepth PROVE Shown(r, s) \/ \E e \in Items(rest) : Awaits(e, r)
  <2>0. r \in Paths /\ r \in Strings /\ tree[r] # None BY <1>7, PathStrings
  <2>1. CASE Shown(r, shown) BY <1>14, <2>1 DEF Shown
  <2>2. ASSUME NEW e \in Items(t), Awaits(e, r) PROVE \E d \in Items(rest) : Awaits(d, r)
    BY <1>2, <2>2
  <2>3. CASE r = p
    <3>1. Awaits(l, r) /\ l \in Items(rest) BY <1>2, <1>10, <2>3 DEF Awaits
    <3> QED BY <3>1
  <2>4. CASE Under(p, r) /\ r # p
    <3> DEFINE c == Toward(p, r)
    <3>1. c \in Children(p) /\ Under(c, r) /\ (c # r => IsDir(c))
      BY <1>1, <2>0, <2>4, TowardChild
    <3> HIDE DEF c
    <3>2. CASE c \in D
      <4> DEFINE d == [path |-> c, current |-> k + 1, read |-> FALSE]
      <4>1. d \in Items(rest) BY <1>2, <3>2
      <4>2. d.path = c /\ ~d.read OBVIOUS
      <4> HIDE DEF d
      <4>3. Awaits(d, r) BY <3>1, <4>2 DEF Awaits
      <4> QED BY <4>1, <4>3
    <3>3. CASE c \notin D /\ (c \in bad \/ c = r)
      <4> DEFINE x == Show(c, c \notin bad)
      <4>1. x \in s /\ x.path = c /\ (x.ok <=> c \notin bad) BY <1>11, <1>12, <3>1, <3>3
      <4> HIDE DEF x
      <4>2. Shown(r, s) BY <3>1, <3>3, <4>1 DEF Shown
      <4> QED BY <4>2
    <3>4. CASE c \notin D /\ c \notin bad /\ c # r
      <4>1. c \in Strings /\ Len(c) = Len(p) + 1 BY <1>4, <3>1
      <4>2. Len(c) < Len(r) /\ Len(r) \in Nat
        BY <2>0, <3>1, <3>4, <4>1, UnderNames, SameLength, StringType
      <4>3. Len(r) - Len(job.p) <= Levels BY <1>7
      <4>4. k + 2 <= Levels BY <1>1, <1>3, <1>8, <4>1, <4>2, <4>3
      <4>5. k < job.depth - 1 BY <1>1, <1>3, <1>8, <4>4
      <4>6. c \in D BY <1>5, <3>1, <3>4, <4>5
      <4> QED BY <3>4, <4>6
    <3> QED BY <3>2, <3>3, <3>4
  <2>5. ASSUME NEW e \in Items(agenda), Awaits(e, r)
        PROVE  e \in Items(t) \/ Under(p, r)
    BY <1>1, <1>9, <2>5 DEF Awaits
  <2> QED BY <1>6, <2>1, <2>2, <2>3, <2>4, <2>5
<1>20. Listed(rest, s) BY <1>6, <1>16, <1>18, <1>19 DEF Listed
<1> QED BY <1>20 DEF rest, s, p, k, D

\* An entry that is shown itself, after its own or as an error, leaves nothing out.
LEMMA ListShows ==
  ASSUME IsTree(tree), IsTree(before), IsJob(job), job.op = "list", agenda # <<>>,
         IsListAgenda(job, agenda), Listed(agenda, shown), NEW ok \in BOOLEAN,
         ok => Head(agenda).read
  PROVE  Listed(Tail(agenda), shown \union {Show(Head(agenda).path, ok)})
<1> DEFINE h == Head(agenda)
           t == Tail(agenda)
           x == Show(h.path, ok)
           s == shown \union {x}
<1>1. Items(agenda) = {h} \union Items(t) BY ListHead
<1>2. h.path \in InDepth BY ListPlace
<1>3. /\ In(before, job.p).is = "dir"
      /\ \A e \in Items(agenda) : /\ In(before, e.path).is = "dir"
                                  /\ (e.current = 0 \/ e.current < job.depth)
      /\ \A y \in shown : y.path \in InDepth
      /\ \A r \in InDepth : Shown(r, shown) \/ \E e \in Items(agenda) : Awaits(e, r)
  BY DEF Listed
<1>4. x.path = h.path /\ x.ok = ok BY DEF Show
<1>5. h.path \in Strings BY ListHead
<1>6. ok => h.read OBVIOUS
<1>7. x \in s /\ shown \subseteq s /\ \A y \in s : y \in shown \/ y = x OBVIOUS
<1> HIDE DEF h, t, x, s
<1>8. ASSUME NEW r \in InDepth PROVE Shown(r, s) \/ \E e \in Items(t) : Awaits(e, r)
  <2>1. CASE Shown(r, shown) BY <1>7, <2>1 DEF Shown
  <2>2. CASE Awaits(h, r)
    <3>1. Under(h.path, h.path) BY <1>5, UnderItself
    <3>2. h.read => r = h.path BY <2>2 DEF Awaits
    <3>3. ~h.read => Under(h.path, r) BY <2>2 DEF Awaits
    <3>4. x.path = r \/ (~x.ok /\ Under(x.path, r)) BY <1>4, <1>6, <3>1, <3>2, <3>3
    <3>5. Shown(r, s) BY <1>7, <3>4 DEF Shown
    <3> QED BY <3>5
  <2> QED BY <1>1, <1>3, <2>1, <2>2
<1>9. \A y \in s : y.path \in InDepth BY <1>2, <1>3, <1>4, <1>7
<1>10. Listed(t, s) BY <1>1, <1>3, <1>8, <1>9 DEF Listed
<1> QED BY <1>10 DEF t, s, x, h

\* To begin with, all that is to be shown is below the one entry.
LEMMA ListBegins ==
  ASSUME IsJob(job), job.op = "list", agenda = First(job), shown = {},
         In(before, job.p).is = "dir"
  PROVE  Listed(agenda, shown)
<1>1. Items(agenda) = {[path |-> job.p, current |-> 0, read |-> FALSE]} BY FirstIs
<1>2. \A e \in Items(agenda) : e.path = job.p /\ e.current = 0 /\ ~e.read BY <1>1
<1>3. \E e \in Items(agenda) : e.path = job.p BY <1>1
<1>4. \A r \in InDepth : Under(job.p, r) BY DEF InDepth
<1>5. \A r \in InDepth : \E e \in Items(agenda) : Awaits(e, r) BY <1>2, <1>3, <1>4 DEF Awaits
<1> QED BY <1>2, <1>5 DEF Listed

\* What a listing is to be.
Listing(s) ==
  /\ \A x \in s : x.path \in InDepth \/ x = Show(job.p, FALSE)
  /\ \A q \in InDepth \union {job.p} : Shown(q, s)

\* In the end, nothing is left out.
LEMMA ListEnds ==
  ASSUME IsTree(before), IsJob(job), job.op = "list", NEW s, Listed(<<>>, s)
  PROVE  Listing(s)
<1>1. \A r \in InDepth : Shown(r, s) BY NoItems DEF Listed
<1>2. job.p \in Strings /\ Under(job.p, job.p) /\ Len(job.p) \in Nat /\ job.depth \in Nat
  BY UnderItself, StringType DEF IsJob
<1>3. job.p \in Paths /\ before[job.p] # None BY InTree DEF Listed, None
<1>4. Len(job.p) - Len(job.p) <= IF job.depth > 1 THEN job.depth ELSE 1 BY <1>2
<1>5. job.p \in InDepth BY <1>2, <1>3, <1>4 DEF InDepth
<1>6. \A x \in s : x.path \in InDepth BY DEF Listed
<1> QED BY <1>1, <1>5, <1>6 DEF Listing

LEMMA ListingIs ==
  ASSUME UNCHANGED <<job, before>>, pc' = "answer" => Listing(shown')
  PROVE  ListingIsExact'
<1>1. InDepth' = InDepth BY DEF InDepth
<1> QED BY <1>1 DEF ListingIsExact, Listing, Shown

LEMMA ListStepDone ==
  ASSUME Types, Agenda, FailureIsContained, ListSoFar, ListStep
  PROVE  ListSoFar' /\ ListingIsExact'
<1> DEFINE h == Head(agenda)
           p == h.path
           k == h.current
<1>1. /\ job.op = "list" /\ pc = "work" /\ IsJob(job) /\ agenda # <<>> /\ IsTree(tree)
      /\ IsListAgenda(job, agenda) /\ h \in Items(agenda) /\ IsTree(before)
      /\ h.read \in BOOLEAN
  BY ListHead DEF ListStep, Doing, Types, Agenda, IsAgenda
<1>2. CASE Fails("too deep")
  BY <1>2 DEF Fails, Finish, ListSoFar, ListingIsExact
<1>3. CASE ~alone /\ ~Fails("too deep")
  <2>1. alone' = alone BY <1>3, ListStepIs DEF historyVars
  <2> QED BY <1>3, <2>1 DEF ListSoFar, ListingIsExact
<1>4. CASE alone /\ ~Fails("too deep")
  <2>0. UNCHANGED <<tree, job, before, alone>> BY <1>4, ListStepIs DEF historyVars
  <2>1. tree = before BY <1>1, <1>4, NotYet
  <2>2. IsDir(p) <=> In(before, p).is = "dir" BY <2>1 DEF IsDir, At
  <2>3. (agenda = First(job) /\ shown = {}) \/ Listed(agenda, shown)
    BY <1>1, <1>4 DEF ListSoFar
  <2>4. agenda = First(job) => p = job.p /\ ~h.read /\ Tail(agenda) = <<>>
    <3> SUFFICES ASSUME agenda = First(job) PROVE p = job.p /\ ~h.read /\ Tail(agenda) = <<>>
      OBVIOUS
    <3> DEFINE x == [path |-> job.p, current |-> 0, read |-> FALSE]
    <3>1. x.path = job.p /\ ~x.read OBVIOUS
    <3>2. agenda = <<x>> BY <1>1, FirstIs
    <3> HIDE DEF x
    <3>3. h = x /\ Tail(agenda) = <<>> BY <3>2
    <3> QED BY <3>1, <3>3
  <2>5. Listed(agenda, shown) \/ (agenda = First(job) /\ shown = {} /\ ~IsDir(p))
    BY <1>1, <2>2, <2>3, <2>4, ListBegins
  <2>6. ASSUME NEW rest, Goes(rest), Listed(rest, shown')
        PROVE  ListSoFar' /\ ListingIsExact'
    <3>1. ListSoFar'
      <4>1. InDepth' = InDepth BY <2>0 DEF InDepth
      <4> QED BY <1>1, <2>0, <2>6, <4>1 DEF ListSoFar, Listed, Goes, Shown
    <3>2. rest = <<>> => Listing(shown') BY <1>1, <2>6, ListEnds
    <3>3. pc' = "answer" => rest = <<>> BY <2>6 DEF Goes
    <3>4. ListingIsExact' BY <2>0, <3>2, <3>3, ListingIs
    <3> QED BY <3>1, <3>4
  <2>7. ASSUME NEW bad, ~h.read, IsDir(p),
               shown' = shown \union {Show(q, q \notin bad) :
                                       q \in Children(p) \ Deeper(p, k, bad)},
               Goes(Row(p, k, bad) \o Last(p, k) \o Tail(agenda))
        PROVE  ListSoFar' /\ ListingIsExact'
    <3>1. Listed(Row(p, k, bad) \o Last(p, k) \o Tail(agenda), shown')
      BY <1>1, <2>1, <2>5, <2>7, ListGoesOn
    <3> QED BY <2>6, <2>7, <3>1
  <2>8. ASSUME NEW ok \in BOOLEAN, ok => h.read, Listed(agenda, shown),
               shown' = shown \union {Show(p, ok)}, Goes(Tail(agenda))
        PROVE  ListSoFar' /\ ListingIsExact'
    <3>1. Listed(Tail(agenda), shown')
      BY <1>1, <2>8, ListShows
    <3> QED BY <2>6, <2>8, <3>1
  <2>9. ASSUME agenda = First(job), shown = {}, shown' = {Show(p, FALSE)}, Goes(Tail(agenda))
        PROVE  ListSoFar' /\ ListingIsExact'
    <3>1. pc' = "answer" /\ p = job.p BY <2>4, <2>9 DEF Goes
    <3> DEFINE x == Show(job.p, FALSE)
    <3>2. x.path = job.p /\ ~x.ok BY DEF Show
    <3>3. shown' = {x} BY <2>9, <3>1
    <3> HIDE DEF x
    <3>4. \A q \in InDepth \union {job.p} : Under(job.p, q)
      BY <1>1, UnderItself DEF InDepth, IsJob
    <3>5. Listing(shown') BY <3>2, <3>3, <3>4 DEF Listing, Shown, x
    <3>6. ListingIsExact' BY <2>0, <3>5, ListingIs
    <3> QED BY <3>1, <3>6 DEF ListSoFar
  <2>10. CASE ~h.read /\ shown' = shown \union {Show(p, FALSE)} /\ Goes(Tail(agenda))
    <3>1. CASE Listed(agenda, shown) BY <2>8, <2>10, <3>1
    <3>2. CASE agenda = First(job) /\ shown = {} BY <2>9, <2>10, <3>2
    <3> QED BY <2>3, <3>1, <3>2
  <2>11. CASE h.read /\ shown' = shown \union {Show(p, Exists(p))} /\ Goes(Tail(agenda))
    <3>1. Listed(agenda, shown) BY <2>3, <2>4, <2>11
    <3>2. Exists(p) \in BOOLEAN BY DEF Exists
    <3> QED BY <2>8, <2>11, <3>1, <3>2
  <2> QED BY <1>4, <2>7, <2>10, <2>11, ListStepIs
<1> QED BY <1>2, <1>3, <1>4

LEMMA ListNext ==
  ASSUME Types, Agenda, FailureIsContained, ListSoFar, ListingIsExact, [Next]_vars
  PROVE  ListSoFar' /\ ListingIsExact'
<1>1. CASE \E q \in Requests : ReadCommand(q)
  <2>1. ListingIsExact' BY <1>1 DEF ReadCommand, ListingIsExact
  <2> QED BY <1>1, <2>1, ReadSoFar
<1>2. CASE ListStep
  BY <1>2, ListStepDone
<1>3. CASE Work /\ job.op # "list"
  <2>1. job' = job BY <1>3, WorkKeeps
  <2> QED BY <1>3, <2>1 DEF ListSoFar, ListingIsExact
<1>4. CASE Work /\ job.op = "list" /\ ~ListStep
  BY <1>4 DEF Work, Denied, Mkd, Cwd, Pwd, Remove, Mv, Chmod, BadMode, ChmodStep, RmdBegins,
              RmdStep, CpStep, CopyFileFails, Doing
<1>5. CASE Answer \/ End
  BY <1>5 DEF Answer, End, ListSoFar, ListingIsExact
<1>6. CASE Edit
  BY <1>6 DEF Edit, ListSoFar, ListingIsExact
<1>7. CASE UNCHANGED vars
  <2>1. UNCHANGED <<pc, job, agenda, err, shown, before, alone>>
    BY <1>7 DEF vars, workVars, historyVars
  <2>2. InDepth' = InDepth BY <2>1 DEF InDepth
  <2>3. ListSoFar' BY <2>1, <2>2 DEF ListSoFar, Listed, Shown
  <2>4. ListingIsExact' BY <2>1, <2>2 DEF ListingIsExact
  <2> QED BY <2>3, <2>4
<1> QED BY <1>1, <1>2, <1>3, <1>4, <1>5, <1>6, <1>7 DEF Next

\* A listing, when nobody else interfered, shows nothing but what there is down to the
\* depth that was asked for, one level even for a depth of zero, and leaves nothing of it
\* out that is not below something it shows as an error: a directory awaits its entries
\* and is shown after them, and an agenda that is empty leaves nothing out.
THEOREM ListingTheorem == Spec => []ListingIsExact
<1>1. Init => ListSoFar /\ ListingIsExact
  BY DEF Init, ListSoFar, ListingIsExact
<1>2. Types /\ Agenda /\ FailureIsContained /\ [Next]_vars /\ (ListSoFar /\ ListingIsExact) =>
        (ListSoFar /\ ListingIsExact)'
  BY ListNext
<1> QED BY <1>1, <1>2, TypesInvariant, FailureTheorem, PTL DEF Spec
=============================================================================
