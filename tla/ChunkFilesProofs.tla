-------------------------- MODULE ChunkFilesProofs --------------------------
(***************************************************************************)
(* Theorems about ChunkFiles, for all diffs and any number of them.        *)
(*                                                                         *)
(* The files of the diff written last are in front, and behind them older  *)
(* and older ones: each diff begins with the first file again, so that     *)
(* what it does not reach is older than what it does (StackInv).  How far  *)
(* the writer has come, and what stands in each file until there, says     *)
(* WritingInv.                                                             *)
(*                                                                         *)
(* What is read begins, then, with the records of that diff; and the queue *)
(* of the content pass has, after any number of them, exactly the changes  *)
(* whose content is still to come, in their order (InStep).  So each       *)
(* content meets its own change, and what is read behind cannot take back  *)
(* what is stored.                                                         *)
(*                                                                         *)
(* FlattenSeq and StreamAll are recursive functions.  What they compute is *)
(* proved by counting up to their argument (CountUp), which the well-      *)
(* foundedness of < on numbers gives without an operator as parameter.     *)
(***************************************************************************)
EXTENDS ChunkFiles, TLAPS, WellFoundedInduction

----------------------------------------------------------------------------
(* Numbers.                                                                *)

Smaller == {pair \in Nat \X Nat : pair[1] < pair[2]}

LEMMA SmallerIsWellFounded == IsWellFoundedOn(Smaller, Nat)
<1>1. OpToRel(<, Nat) = Smaller
  BY Zenon DEF OpToRel, Smaller
<1>2. IsWellFoundedOn(OpToRel(<, Nat), Nat)
  BY NatLessThanWellFounded, Zenon
<1> QED
  BY <1>1, <1>2, Zenon

\* A set of numbers with a member has a least one.
LEMMA HasLeast ==
    ASSUME NEW S, S \subseteq Nat, S # {}
    PROVE  \E n \in S : \A m \in S : n <= m
<1>1. PICK n \in S : \A m \in S : ~ (<<m, n>> \in Smaller)
  BY SmallerIsWellFounded, WFMin, Zenon
<1>2. \A m \in S : ~ (m < n)
  BY <1>1 DEF Smaller
<1> QED
  BY <1>2

\* What is true of 0, and of a number with the one before it, is true of all.
LEMMA CountUp ==
    ASSUME NEW N \in Nat, NEW P, 0 \in P, \A n \in 1 .. N : n - 1 \in P => n \in P
    PROVE  0 .. N \subseteq P
<1> DEFINE Bad == (0 .. N) \ P
<1> SUFFICES ASSUME Bad # {} PROVE FALSE
  OBVIOUS
<1>1. PICK n \in Bad : \A m \in Bad : n <= m
  <2>1. Bad \subseteq Nat
    OBVIOUS
  <2> HIDE DEF Bad
  <2> QED
    BY <2>1, HasLeast
<1>2. n \in 1 .. N /\ n - 1 \in 0 .. N
  OBVIOUS
<1>3. n - 1 \in P
  BY <1>1, <1>2
<1> QED
  BY <1>2, <1>3

----------------------------------------------------------------------------
(* Sequences of sequences, one behind the other.                           *)

\* A name for what the provers need not look into.
Behind(s, t) == s \o t

LEMMA BehindIs ==
    ASSUME NEW S, NEW s \in Seq(S), NEW t \in Seq(S)
    PROVE  /\ Behind(s, t) \in Seq(S)
           /\ Len(Behind(s, t)) = Len(s) + Len(t)
           /\ \A i \in 1 .. Len(s) : Behind(s, t)[i] = s[i]
           /\ \A i \in 1 .. Len(t) : Behind(s, t)[Len(s) + i] = t[i]
           /\ \A i \in 1 .. Len(s) + Len(t) : i > Len(s) =>
                /\ i - Len(s) \in 1 .. Len(t)
                /\ Behind(s, t)[i] = t[i - Len(s)]
  BY DEF Behind

LEMMA BehindNothing ==
    ASSUME NEW S, NEW t \in Seq(S)
    PROVE  Behind(<<>>, t) = t
  BY DEF Behind

\* f has, for every number of them, the first sequences of s as one.
Joined(f, s) ==
    /\ f[0] = <<>>
    /\ \A i \in 1 .. Len(s) : f[i] = Behind(f[i - 1], s[i])
Joins(f, s, S) == Joined(f, s) /\ \A i \in 0 .. Len(s) : f[i] \in Seq(S)

JoinsFirst(f, s, n) ==
    f = [i \in 1 .. n |-> IF i = 1 THEN s[i] ELSE Behind(f[i - 1], s[i])]

LEMMA JoinExists ==
    ASSUME NEW s, Len(s) \in Nat
    PROVE  \E f : JoinsFirst(f, s, Len(s))
<1> DEFINE P == {n \in 0 .. Len(s) : \E f : JoinsFirst(f, s, n)}
<1>1. 0 \in P
  <2>1. JoinsFirst([i \in {} |-> s], s, 0)
    BY DEF JoinsFirst
  <2> QED
    BY <2>1
<1>2. ASSUME NEW n \in 1 .. Len(s), n - 1 \in P
      PROVE  n \in P
  <2>1. PICK f : JoinsFirst(f, s, n - 1)
    BY <1>2
  <2>2. PICK g : g = [i \in 1 .. n |-> IF i = 1 THEN s[i] ELSE Behind(f[i - 1], s[i])]
    OBVIOUS
  <2>3. \A i \in 1 .. n - 1 : f[i] = IF i = 1 THEN s[i] ELSE Behind(f[i - 1], s[i])
    BY <2>1, Zenon DEF JoinsFirst
  <2>4. \A i \in 1 .. n : i # 1 => g[i - 1] = f[i - 1]
    BY <2>2, <2>3
  <2>5. \A i \in 1 .. n : (IF i = 1 THEN s[i] ELSE Behind(f[i - 1], s[i]))
                          = (IF i = 1 THEN s[i] ELSE Behind(g[i - 1], s[i]))
    BY <2>4
  <2>6. JoinsFirst(g, s, n)
    BY <2>2, <2>5, Zenon DEF JoinsFirst
  <2> QED
    BY <2>6
<1>3. 0 .. Len(s) \subseteq P
  <2> HIDE DEF P
  <2> QED
    BY <1>1, <1>2, CountUp
<1> QED
  BY <1>3

LEMMA FlattenJoins ==
    ASSUME NEW S, NEW s \in Seq(Seq(S))
    PROVE  \E f : Joins(f, s, S) /\ FlattenSeq(s) = f[Len(s)]
<1>1. PICK g : JoinsFirst(g, s, Len(s)) /\ (Len(s) # 0 => FlattenSeq(s) = g[Len(s)])
  <2>1. JoinsFirst(CHOOSE f : JoinsFirst(f, s, Len(s)), s, Len(s))
    <3>1. Len(s) \in Nat
      OBVIOUS
    <3> QED
      BY <3>1, JoinExists, Zenon
  <2>2. Len(s) # 0 => FlattenSeq(s) = (CHOOSE f : JoinsFirst(f, s, Len(s)))[Len(s)]
    BY Zenon DEF FlattenSeq, JoinsFirst, Behind
  <2> QED
    BY <2>1, <2>2
<1>2. PICK f : f = [i \in 0 .. Len(s) |-> IF i = 0 THEN <<>> ELSE g[i]]
  OBVIOUS
<1>3. \A i \in 1 .. Len(s) : s[i] \in Seq(S)
  OBVIOUS
<1>4. \A i \in 1 .. Len(s) : g[i] = IF i = 1 THEN s[i] ELSE Behind(g[i - 1], s[i])
  BY <1>1, Zenon DEF JoinsFirst
<1>5. Joined(f, s)
  <2>1. \A i \in 1 .. Len(s) : i = 1 => f[i] = Behind(f[i - 1], s[i])
    BY <1>2, <1>3, <1>4, BehindNothing
  <2>2. \A i \in 1 .. Len(s) : i # 1 => f[i] = Behind(f[i - 1], s[i])
    BY <1>2, <1>4
  <2>3. f[0] = <<>>
    BY <1>2
  <2>4. \A i \in 1 .. Len(s) : f[i] = Behind(f[i - 1], s[i])
    BY <2>1, <2>2, Zenon
  <2> QED
    BY <2>3, <2>4 DEF Joined
<1>6. FlattenSeq(s) = f[Len(s)]
  <2>1. CASE Len(s) = 0
    BY <1>2, <2>1 DEF FlattenSeq
  <2>2. CASE Len(s) # 0
    BY <1>1, <1>2, <2>2
  <2> QED
    BY <2>1, <2>2
<1> DEFINE P == {i \in 0 .. Len(s) : f[i] \in Seq(S)}
<1>7. 0 \in P
  BY <1>2
<1>8. ASSUME NEW n \in 1 .. Len(s), n - 1 \in P
      PROVE  n \in P
  <2>1. f[n - 1] \in Seq(S) /\ s[n] \in Seq(S) /\ f[n] = Behind(f[n - 1], s[n])
    BY <1>3, <1>5, <1>8 DEF Joined
  <2>2. f[n] \in Seq(S)
    <3>1. PICK a \in Seq(S), b \in Seq(S) : a = f[n - 1] /\ b = s[n]
      BY <2>1
    <3>2. Behind(a, b) \in Seq(S)
      BY BehindIs
    <3>3. f[n] = Behind(a, b)
      BY <2>1, <3>1, Zenon
    <3> QED
      BY <3>2, <3>3
  <2> QED
    BY <2>2
<1>9. 0 .. Len(s) \subseteq P
  <2>1. Len(s) \in Nat
    OBVIOUS
  <2> HIDE DEF P
  <2> QED
    BY <1>7, <1>8, <2>1, CountUp
<1> QED
  BY <1>5, <1>6, <1>9 DEF Joins

\* c is a, and then b.
Appended(c, a, b) ==
    /\ Len(c) = Len(a) + Len(b)
    /\ \A i \in 1 .. Len(a) : c[i] = a[i]
    /\ \A i \in 1 .. Len(c) : i > Len(a) =>
         i - Len(a) \in 1 .. Len(b) /\ c[i] = b[i - Len(a)]

LEMMA BehindAppended ==
    ASSUME NEW S, NEW a \in Seq(S), NEW b \in Seq(S), NEW c, c = Behind(a, b)
    PROVE  c \in Seq(S) /\ Appended(c, a, b)
<1>1. c \in Seq(S) /\ Len(c) = Len(a) + Len(b)
  BY BehindIs
<1>2. \A i \in 1 .. Len(a) : c[i] = a[i]
  BY BehindIs
<1>3. \A i \in 1 .. Len(a) + Len(b) : i > Len(a) =>
        i - Len(a) \in 1 .. Len(b) /\ c[i] = b[i - Len(a)]
  BY BehindIs
<1> QED
  BY <1>1, <1>2, <1>3 DEF Appended

LEMMA JoinStep ==
    ASSUME NEW S, NEW s \in Seq(Seq(S)), NEW f, Joins(f, s, S),
           NEW n \in 1 .. Len(s)
    PROVE  \E a \in Seq(S), b \in Seq(S), c \in Seq(S) :
                a = f[n - 1] /\ b = s[n] /\ c = f[n] /\ Appended(c, a, b)
<1>1. n - 1 \in 0 .. Len(s) /\ n \in 0 .. Len(s)
  OBVIOUS
<1>2. PICK a \in Seq(S) : a = f[n - 1]
  BY <1>1 DEF Joins
<1>3. PICK b \in Seq(S) : b = s[n]
  OBVIOUS
<1>4. PICK c \in Seq(S) : c = f[n]
  BY <1>1 DEF Joins
<1>5. c = Behind(a, b)
  BY <1>2, <1>3, <1>4 DEF Joins, Joined
<1>6. Appended(c, a, b)
  BY <1>5, BehindAppended
<1> QED
  BY <1>2, <1>3, <1>4, <1>6

\* b begins with a.
Begins(a, b) == Len(a) <= Len(b) /\ \A k \in 1 .. Len(a) : b[k] = a[k]

LEMMA JoinGrows ==
    ASSUME NEW S, NEW s \in Seq(Seq(S)), NEW f, Joins(f, s, S),
           NEW m \in 0 .. Len(s), NEW n \in m .. Len(s)
    PROVE  Begins(f[m], f[n])
<1> DEFINE P == {i \in 0 .. Len(s) : m <= i => Begins(f[m], f[i])}
<1>1. PICK d \in Seq(S) : d = f[m]
  BY DEF Joins
<1>2. Begins(d, d)
  BY DEF Begins
<1>3. 0 \in P
  BY <1>1, <1>2, m <= 0 => m = 0
<1>4. ASSUME NEW i \in 1 .. Len(s), i - 1 \in P
      PROVE  i \in P
  <2>1. CASE m < i
    <3>1. PICK a \in Seq(S), b \in Seq(S), c \in Seq(S) :
            a = f[i - 1] /\ b = s[i] /\ c = f[i] /\ Appended(c, a, b)
      BY JoinStep
    <3>2. Begins(d, a)
      BY <1>1, <1>4, <2>1, <3>1
    <3>3. Begins(d, c)
      <4>1. Len(a) \in Nat /\ Len(b) \in Nat /\ Len(d) \in Nat
        OBVIOUS
      <4>2. Len(d) <= Len(c)
        <5>1. Len(d) <= Len(a)
          BY <3>2 DEF Begins
        <5>2. Len(c) = Len(a) + Len(b)
          BY <3>1 DEF Appended
        <5> QED
          BY <4>1, <5>1, <5>2
      <4>3. \A k \in 1 .. Len(d) : c[k] = a[k]
        BY <3>1, <3>2, <4>1 DEF Appended, Begins
      <4>4. \A k \in 1 .. Len(d) : a[k] = d[k]
        BY <3>2 DEF Begins
      <4> QED
        BY <4>2, <4>3, <4>4 DEF Begins
    <3> QED
      BY <1>1, <3>1, <3>3
  <2>2. CASE m = i
    BY <1>1, <1>2, <2>2
  <2> QED
    BY <2>1, <2>2
<1>5. 0 .. Len(s) \subseteq P
  <2>1. Len(s) \in Nat
    OBVIOUS
  <2> HIDE DEF P
  <2> QED
    BY <1>3, <1>4, <2>1, CountUp
<1>6. n \in 0 .. Len(s) /\ m <= n
  OBVIOUS
<1>7. n \in P
  BY <1>5, <1>6, Zenon
<1> QED
  BY <1>6, <1>7

\* Lists that begin alike are prefixes, joined as well.
LEMMA FlattenPrefix ==
    ASSUME NEW S, NEW s \in Seq(Seq(S)), NEW t \in Seq(Seq(S)), Len(s) <= Len(t),
           \A i \in 1 .. Len(s) : s[i] = t[i]
    PROVE  IsPrefix(FlattenSeq(s), FlattenSeq(t))
<1>1. PICK f : Joins(f, s, S) /\ FlattenSeq(s) = f[Len(s)]
  BY FlattenJoins
<1>2. PICK g : Joins(g, t, S) /\ FlattenSeq(t) = g[Len(t)]
  BY FlattenJoins
<1>3. Len(s) \in Nat /\ Len(t) \in Nat
  OBVIOUS
<1> DEFINE P == {i \in 0 .. Len(s) : f[i] = g[i]}
<1>4. 0 \in P
  BY <1>1, <1>2 DEF Joins, Joined
<1>5. ASSUME NEW n \in 1 .. Len(s), n - 1 \in P
      PROVE  n \in P
  <2>1. n \in 1 .. Len(t)
    BY <1>3
  <2>2. f[n] = Behind(f[n - 1], s[n]) /\ g[n] = Behind(g[n - 1], t[n])
    BY <1>1, <1>2, <2>1 DEF Joins, Joined
  <2>3. f[n - 1] = g[n - 1] /\ s[n] = t[n]
    BY <1>5
  <2>4. f[n] = g[n] /\ n \in 0 .. Len(s)
    BY <2>2, <2>3
  <2> QED
    BY <2>4
<1>6. 0 .. Len(s) \subseteq P
  <2> HIDE DEF P
  <2> QED
    BY <1>3, <1>4, <1>5, CountUp
<1>7. /\ Len(s) \in 0 .. Len(t) /\ Len(s) \in 0 .. Len(s)
      /\ Len(t) \in 0 .. Len(t) /\ Len(t) \in Len(s) .. Len(t)
  BY <1>3
<1>8. PICK a \in Seq(S), b \in Seq(S) : a = FlattenSeq(s) /\ b = FlattenSeq(t) /\ a = g[Len(s)]
  BY <1>1, <1>2, <1>6, <1>7 DEF Joins
<1>9. Begins(g[Len(s)], g[Len(t)])
  BY <1>2, <1>7, JoinGrows
<1>10. Len(a) <= Len(b) /\ \A k \in 1 .. Len(a) : b[k] = a[k]
  BY <1>2, <1>8, <1>9 DEF Begins
<1>11. SubSeq(a, 1, Len(a)) = SubSeq(b, 1, Len(a))
  BY <1>10
<1> QED
  BY <1>8, <1>10, <1>11 DEF IsPrefix

LEMMA FlattenOne ==
    ASSUME NEW S, NEW s \in Seq(Seq(S)), Len(s) = 1
    PROVE  FlattenSeq(s) = s[1]
<1>1. PICK f : Joins(f, s, S) /\ FlattenSeq(s) = f[Len(s)]
  BY FlattenJoins
<1>2. 1 \in 1 .. Len(s) /\ f[0] = <<>> /\ 1 - 1 = 0
  BY <1>1 DEF Joins, Joined
<1>3. f[1] = Behind(<<>>, s[1])
  BY <1>1, <1>2 DEF Joins, Joined
<1>4. s[1] \in Seq(S)
  OBVIOUS
<1> QED
  BY <1>1, <1>3, <1>4, BehindNothing

\* Records that differ in nothing but their round.
Alike(a, b) ==
    /\ Len(a) = Len(b)
    /\ \A i \in 1 .. Len(a) : /\ a[i].type = b[i].type
                              /\ a[i].change = b[i].change
                              /\ a[i].has_content = b[i].has_content

PartsAlike(s, t) == Len(s) = Len(t) /\ \A i \in 1 .. Len(s) : Alike(s[i], t[i])

LEMMA FlattenAlike ==
    ASSUME NEW S, NEW s \in Seq(Seq(S)), NEW T, NEW t \in Seq(Seq(T)), PartsAlike(s, t)
    PROVE  Alike(FlattenSeq(s), FlattenSeq(t))
<1>1. PICK f : Joins(f, s, S) /\ FlattenSeq(s) = f[Len(s)]
  BY FlattenJoins
<1>2. PICK g : Joins(g, t, T) /\ FlattenSeq(t) = g[Len(t)]
  BY FlattenJoins
<1> DEFINE P == {i \in 0 .. Len(s) : Alike(f[i], g[i])}
<1>3. 0 \in P
  <2>1. f[0] = <<>> /\ g[0] = <<>> /\ Len(s) \in Nat
    BY <1>1, <1>2 DEF Joins, Joined
  <2> QED
    BY <2>1 DEF Alike
<1>4. ASSUME NEW n \in 1 .. Len(s), n - 1 \in P
      PROVE  n \in P
  <2>1. PICK a \in Seq(S), b \in Seq(S), c \in Seq(S) :
          a = f[n - 1] /\ b = s[n] /\ c = f[n] /\ Appended(c, a, b)
    BY <1>1, JoinStep
  <2>2. PICK x \in Seq(T), y \in Seq(T), z \in Seq(T) :
          x = g[n - 1] /\ y = t[n] /\ z = g[n] /\ Appended(z, x, y)
    <3>1. n \in 1 .. Len(t)
      BY DEF PartsAlike
    <3> QED
      BY <1>2, <3>1, JoinStep
  <2>3. Alike(a, x) /\ Alike(b, y)
    BY <1>4, <2>1, <2>2 DEF PartsAlike
  <2>4. Len(c) = Len(z)
    BY <2>1, <2>2, <2>3 DEF Appended, Alike
  <2>5. ASSUME NEW i \in 1 .. Len(c)
        PROVE  /\ c[i].type = z[i].type
               /\ c[i].change = z[i].change
               /\ c[i].has_content = z[i].has_content
    <3>1. CASE i \in 1 .. Len(a)
      <4>1. c[i] = a[i] /\ z[i] = x[i]
        BY <2>1, <2>2, <2>3, <3>1 DEF Appended, Alike
      <4> QED
        BY <2>3, <3>1, <4>1 DEF Alike
    <3>2. CASE i > Len(a)
      <4>1. PICK k \in 1 .. Len(b) : k = i - Len(a) /\ c[i] = b[k]
        BY <2>1, <3>2 DEF Appended
      <4>2. z[i] = y[k]
        BY <2>2, <2>3, <2>4, <3>2, <4>1 DEF Appended, Alike
      <4> QED
        BY <2>3, <4>1, <4>2 DEF Alike
    <3> QED
      BY <3>1, <3>2
  <2>6. Alike(c, z)
    BY <2>4, <2>5 DEF Alike
  <2> QED
    BY <2>1, <2>2, <2>6
<1>5. 0 .. Len(s) \subseteq P
  <2>1. Len(s) \in Nat
    OBVIOUS
  <2> HIDE DEF P
  <2> QED
    BY <1>3, <1>4, <2>1, CountUp
<1>6. Len(s) \in 0 .. Len(s)
  OBVIOUS
<1>7. Alike(f[Len(s)], g[Len(s)])
  BY <1>5, <1>6
<1> QED
  BY <1>1, <1>2, <1>7 DEF PartsAlike

----------------------------------------------------------------------------
(* Rounds.                                                                 *)

Tagged == [round : Nat, type : RecordType, change : Nat, has_content : BOOLEAN]
Read == Tagged \cup {CutOff}

OfRound(records, n) == \A i \in 1 .. Len(records) : records[i].round = n

LaterFirst(r) ==
    \A i, j \in 1 .. Len(r) :
        i < j /\ CutOff \notin {r[i], r[j]} => r[i].round >= r[j].round

\* What is read of files of rounds that go down, goes down.
ReadOfRound(r, n) == \A i \in 1 .. Len(r) : r[i] # CutOff => r[i].round = n
Ageing(s, age) ==
    /\ \A i \in 1 .. Len(s) : age[i] \in Nat /\ ReadOfRound(s[i], age[i])
    /\ \A i, j \in 1 .. Len(s) : i < j => age[i] >= age[j]
NotBefore(r, n) == \A i \in 1 .. Len(r) : r[i] # CutOff => r[i].round >= n

LEMMA AppendedLaterFirst ==
    ASSUME NEW a \in Seq(Read), NEW b \in Seq(Read), NEW c \in Seq(Read),
           Appended(c, a, b), NEW n \in Nat,
           LaterFirst(a), NotBefore(a, n), ReadOfRound(b, n)
    PROVE  LaterFirst(c) /\ NotBefore(c, n)
<1>1. ASSUME NEW i \in 1 .. Len(c)
      PROVE  \/ i \in 1 .. Len(a) /\ c[i] = a[i]
             \/ i > Len(a) /\ (c[i] # CutOff => c[i].round = n)
  <2>1. CASE i \in 1 .. Len(a)
    BY <2>1 DEF Appended
  <2>2. CASE i > Len(a)
    <3>1. PICK k \in 1 .. Len(b) : c[i] = b[k]
      BY <2>2 DEF Appended
    <3> QED
      BY <2>2, <3>1 DEF ReadOfRound
  <2> QED
    BY <2>1, <2>2
<1>2. NotBefore(c, n)
  BY <1>1 DEF NotBefore
<1>3. ASSUME NEW i \in 1 .. Len(c), NEW j \in 1 .. Len(c), i < j,
             c[i] # CutOff, c[j] # CutOff
      PROVE  c[i].round >= c[j].round
  <2>1. CASE j \in 1 .. Len(a)
    <3>1. i \in 1 .. Len(a) /\ c[i] = a[i] /\ c[j] = a[j]
      BY <1>3, <2>1 DEF Appended
    <3> QED
      BY <1>3, <2>1, <3>1 DEF LaterFirst
  <2>2. CASE j > Len(a)
    <3>1. c[j].round = n
      BY <1>1, <1>3, <2>2
    <3>2. c[i].round >= n
      BY <1>2, <1>3 DEF NotBefore
    <3> QED
      BY <3>1, <3>2
  <2> QED
    BY <2>1, <2>2
<1> QED
  BY <1>2, <1>3 DEF LaterFirst

LEMMA FlattenLaterFirst ==
    ASSUME NEW s \in Seq(Seq(Read)), NEW age, Ageing(s, age)
    PROVE  LaterFirst(FlattenSeq(s))
<1>1. PICK f : Joins(f, s, Read) /\ FlattenSeq(s) = f[Len(s)]
  BY FlattenJoins
<1> DEFINE P == {i \in 0 .. Len(s) :
                   /\ LaterFirst(f[i])
                   /\ \A k \in 1 .. Len(s) : i <= k => NotBefore(f[i], age[k])}
<1>2. 0 \in P
  <2>1. f[0] = <<>> /\ Len(s) \in Nat
    BY <1>1 DEF Joins, Joined
  <2> QED
    BY <2>1 DEF LaterFirst, NotBefore
<1>3. ASSUME NEW n \in 1 .. Len(s), n - 1 \in P
      PROVE  n \in P
  <2>1. PICK a \in Seq(Read), b \in Seq(Read), c \in Seq(Read) :
          a = f[n - 1] /\ b = s[n] /\ c = f[n] /\ Appended(c, a, b)
    BY <1>1, JoinStep
  <2>2. PICK m \in Nat : m = age[n]
    BY DEF Ageing
  <2>3. LaterFirst(a) /\ NotBefore(a, m) /\ ReadOfRound(b, m)
    BY <1>3, <2>1, <2>2 DEF Ageing
  <2>4. LaterFirst(c) /\ NotBefore(c, m)
    BY <2>1, <2>3, AppendedLaterFirst
  <2>5. ASSUME NEW k \in 1 .. Len(s), n <= k
        PROVE  NotBefore(c, age[k])
    <3>1. m >= age[k] /\ age[k] \in Nat
      <4>1. CASE n = k
        BY <2>2, <4>1
      <4>2. CASE n < k
        BY <2>2, <4>2 DEF Ageing
      <4> QED
        BY <2>5, <4>1, <4>2
    <3>2. ASSUME NEW i \in 1 .. Len(c), c[i] # CutOff
          PROVE  c[i].round >= age[k]
      <4>1. PICK x \in Nat : x = c[i].round /\ x >= m
        <5>1. PICK r \in Read : r = c[i]
          OBVIOUS
        <5>2. r.round \in Nat
          BY <3>2, <5>1 DEF Read, Tagged
        <5>3. r.round >= m
          BY <2>4, <3>2, <5>1 DEF NotBefore
        <5> QED
          BY <5>1, <5>2, <5>3
      <4>2. PICK y \in Nat : y = age[k] /\ m >= y
        BY <3>1
      <4>3. x >= y
        BY <4>1, <4>2
      <4> QED
        BY <4>1, <4>2, <4>3
    <3> QED
      BY <3>2 DEF NotBefore
  <2> QED
    BY <2>1, <2>4, <2>5
<1>4. 0 .. Len(s) \subseteq P
  <2>1. Len(s) \in Nat
    OBVIOUS
  <2> HIDE DEF P
  <2> QED
    BY <1>2, <1>3, <2>1, CountUp
<1>5. Len(s) \in 0 .. Len(s)
  OBVIOUS
<1> QED
  BY <1>1, <1>4, <1>5

----------------------------------------------------------------------------
(* The content pass.                                                       *)

Pairs == [change : Read, content : Read]
State == [queue : Seq(Read), stored : Seq(Pairs), failed : BOOLEAN]
AtFirst == [queue |-> <<>>, stored |-> <<>>, failed |-> FALSE]

StreamsFirst(f, r, n) ==
    f = [k \in 0 .. n |-> IF k = 0 THEN AtFirst ELSE StreamRecord(f[k - 1], r[k])]

Streams(f, r) ==
    /\ f[0] = AtFirst
    /\ \A k \in 1 .. Len(r) : f[k] = StreamRecord(f[k - 1], r[k])
    /\ \A k \in 0 .. Len(r) : f[k] \in State

LEMMA StreamExists ==
    ASSUME NEW r, Len(r) \in Nat
    PROVE  \E f : StreamsFirst(f, r, Len(r))
<1> DEFINE P == {n \in 0 .. Len(r) : \E f : StreamsFirst(f, r, n)}
<1>1. 0 \in P
  <2>1. PICK f : f = [k \in 0 .. 0 |-> AtFirst]
    OBVIOUS
  <2>2. \A k \in 0 .. 0 : AtFirst = IF k = 0 THEN AtFirst ELSE StreamRecord(f[k - 1], r[k])
    OBVIOUS
  <2>3. StreamsFirst(f, r, 0)
    BY <2>1, <2>2, Zenon DEF StreamsFirst
  <2> QED
    BY <2>3
<1>2. ASSUME NEW n \in 1 .. Len(r), n - 1 \in P
      PROVE  n \in P
  <2>1. PICK f : StreamsFirst(f, r, n - 1)
    BY <1>2
  <2>2. PICK g : g = [k \in 0 .. n |-> IF k = 0 THEN AtFirst ELSE StreamRecord(f[k - 1], r[k])]
    OBVIOUS
  <2>3. \A k \in 0 .. n - 1 : f[k] = IF k = 0 THEN AtFirst ELSE StreamRecord(f[k - 1], r[k])
    BY <2>1, Zenon DEF StreamsFirst
  <2>4. \A k \in 0 .. n : k # 0 => g[k - 1] = f[k - 1]
    BY <2>2, <2>3
  <2>5. \A k \in 0 .. n : (IF k = 0 THEN AtFirst ELSE StreamRecord(f[k - 1], r[k]))
                          = (IF k = 0 THEN AtFirst ELSE StreamRecord(g[k - 1], r[k]))
    BY <2>4
  <2>6. StreamsFirst(g, r, n)
    BY <2>2, <2>5, Zenon DEF StreamsFirst
  <2> QED
    BY <2>6
<1>3. 0 .. Len(r) \subseteq P
  <2> HIDE DEF P
  <2> QED
    BY <1>1, <1>2, CountUp
<1> QED
  BY <1>3

\* What is stored stays stored.
LEMMA StreamRecordIs ==
    ASSUME NEW st \in State, NEW x \in Read
    PROVE  /\ StreamRecord(st, x) \in State
           /\ Begins(st.stored, StreamRecord(st, x).stored)
           /\ x.type = "DiffChange" /\ ~ st.failed =>
                IF x.has_content
                THEN StreamRecord(st, x) = [st EXCEPT !.queue = Append(@, x)]
                ELSE StreamRecord(st, x) = st
           /\ x.type = "FileContent" /\ ~ st.failed /\ st.queue # <<>> =>
                StreamRecord(st, x) =
                  [st EXCEPT !.queue = Tail(@),
                             !.stored = Append(@, [change |-> Head(st.queue), content |-> x])]
<1>1. PICK q \in Seq(Read), d \in Seq(Pairs) : q = st.queue /\ d = st.stored
  BY DEF State
<1>2. Begins(d, d)
  BY DEF Begins
<1>3. ASSUME NEW y \in Pairs PROVE Begins(d, Append(d, y))
  BY DEF Begins
<1>4. CASE st.failed
  <2>1. StreamRecord(st, x) = st
    BY <1>4 DEF StreamRecord
  <2> QED
    BY <1>1, <1>2, <1>4, <2>1
<1>5. CASE ~ st.failed /\ x.type = "DiffChange"
  <2>1. CASE x.has_content
    <3>1. StreamRecord(st, x) = [st EXCEPT !.queue = Append(@, x)]
      BY <1>5, <2>1 DEF StreamRecord
    <3>2. Append(q, x) \in Seq(Read)
      OBVIOUS
    <3>3. [st EXCEPT !.queue = Append(@, x)] \in State
      BY <1>1, <3>2 DEF State
    <3>4. [st EXCEPT !.queue = Append(@, x)].stored = d
      BY <1>1 DEF State
    <3> QED
      BY <1>1, <1>2, <1>5, <2>1, <3>1, <3>3, <3>4
  <2>2. CASE ~ x.has_content
    <3>1. StreamRecord(st, x) = st
      BY <1>5, <2>2 DEF StreamRecord
    <3> QED
      BY <1>1, <1>2, <1>5, <2>2, <3>1 DEF State
  <2> QED
    BY <2>1, <2>2
<1>6. CASE ~ st.failed /\ x.type = "FileContent" /\ st.queue # <<>>
  <2>1. StreamRecord(st, x) =
          [st EXCEPT !.queue = Tail(@),
                     !.stored = Append(@, [change |-> Head(st.queue), content |-> x])]
    BY <1>6 DEF StreamRecord
  <2>2. PICK y \in Pairs : y = [change |-> Head(q), content |-> x]
    <3>1. Head(q) \in Read
      BY <1>1, <1>6
    <3> QED
      BY <3>1 DEF Pairs
  <2>3. Tail(q) \in Seq(Read) /\ Append(d, y) \in Seq(Pairs)
    BY <1>1, <1>6
  <2> QED
    BY <1>1, <1>3, <1>6, <2>1, <2>2, <2>3 DEF State
<1>7. CASE ~ st.failed /\ x.type # "DiffChange" /\ ~ (x.type = "FileContent" /\ st.queue # <<>>)
  <2>1. StreamRecord(st, x) = [st EXCEPT !.failed = TRUE]
    BY <1>7 DEF StreamRecord
  <2> QED
    BY <1>1, <1>2, <1>7, <2>1 DEF State
<1> QED
  BY <1>4, <1>5, <1>6, <1>7

LEMMA StreamRecordKeeps ==
    ASSUME NEW st \in State, NEW x \in Read
    PROVE  StreamRecord(st, x) \in State /\ Begins(st.stored, StreamRecord(st, x).stored)
  BY StreamRecordIs, Zenon

LEMMA StreamAllIs ==
    ASSUME NEW r \in Seq(Read)
    PROVE  \E f : Streams(f, r) /\ StreamAll(r) = f[Len(r)]
<1>1. PICK f : StreamsFirst(f, r, Len(r)) /\ StreamAll(r) = f[Len(r)]
  <2>1. Len(r) \in Nat
    OBVIOUS
  <2>2. StreamsFirst(CHOOSE f : StreamsFirst(f, r, Len(r)), r, Len(r))
    BY <2>1, StreamExists, Zenon
  <2>3. StreamAll(r) = (CHOOSE f : StreamsFirst(f, r, Len(r)))[Len(r)]
    BY Zenon DEF StreamAll, StreamsFirst, AtFirst
  <2> QED
    BY <2>2, <2>3
<1>2. \A k \in 0 .. Len(r) : f[k] = IF k = 0 THEN AtFirst ELSE StreamRecord(f[k - 1], r[k])
  BY <1>1, Zenon DEF StreamsFirst
<1>3. /\ f[0] = AtFirst
      /\ \A k \in 1 .. Len(r) : f[k] = StreamRecord(f[k - 1], r[k])
  BY <1>2
<1> DEFINE P == {k \in 0 .. Len(r) : f[k] \in State}
<1>4. 0 \in P
  <2>1. <<>> \in Seq(Read) /\ <<>> \in Seq(Pairs)
    OBVIOUS
  <2>2. AtFirst \in State
    BY <2>1 DEF State, AtFirst
  <2> QED
    BY <1>3, <2>2
<1>5. ASSUME NEW k \in 1 .. Len(r), k - 1 \in P
      PROVE  k \in P
  <2>1. PICK st \in State, x \in Read : st = f[k - 1] /\ x = r[k]
    BY <1>5
  <2>2. f[k] = StreamRecord(st, x)
    BY <1>3, <2>1
  <2>3. f[k] \in State
    BY <2>2, StreamRecordKeeps, Zenon
  <2> QED
    BY <2>3
<1>6. 0 .. Len(r) \subseteq P
  <2>1. Len(r) \in Nat
    OBVIOUS
  <2> HIDE DEF P
  <2> QED
    BY <1>4, <1>5, <2>1, CountUp
<1> QED
  BY <1>1, <1>3, <1>6 DEF Streams

\* Where the content of each change is: in the order of the changes.
Places(p, place) ==
    /\ place \in [Announcing(p) -> Sent(p)]
    /\ \A j \in Sent(p) : \E i \in Announcing(p) : place[i] = j
    /\ \A i, j \in Announcing(p) : i < j => place[i] < place[j]
    /\ \A i \in Announcing(p) : p[place[i]].change = p[i].change

\* The changes that wait for their content when n records are read, and the
\* queue that holds them.
Due(p, place, n) == {i \in Announcing(p) : i <= n /\ place[i] > n}
Lists(q, queue, p, due, L) ==
    /\ q \in [1 .. L -> due]
    /\ \A i \in due : \E m \in 1 .. L : q[m] = i
    /\ \A k, m \in 1 .. L : k < m => q[k] < q[m]
    /\ \A m \in 1 .. L : queue[m] = p[q[m]]
Queues(queue, p, due) == \E q : Lists(q, queue, p, due, Len(queue))
Holds(stored, p, place, n) ==
    \A i \in Announcing(p) : place[i] <= n =>
        \E m \in 1 .. Len(stored) : stored[m] = [change |-> p[i], content |-> p[place[i]]]
InStep(st, p, place, n) ==
    ~ st.failed /\ Queues(st.queue, p, Due(p, place, n)) /\ Holds(st.stored, p, place, n)

LEMMA QueueGrows ==
    ASSUME NEW S, NEW queue \in Seq(S), NEW p, NEW due, due \subseteq Nat,
           Queues(queue, p, due), NEW n \in Nat, \A i \in due : i < n, p[n] \in S
    PROVE  Queues(Append(queue, p[n]), p, due \cup {n})
<1>1. PICK L \in Nat : L = Len(queue)
  OBVIOUS
<1>2. PICK q : Lists(q, queue, p, due, L)
  BY <1>1 DEF Queues
<1>3. /\ q \in [1 .. L -> due]
      /\ \A i \in due : \E m \in 1 .. L : q[m] = i
      /\ \A k, m \in 1 .. L : k < m => q[k] < q[m]
      /\ \A m \in 1 .. L : queue[m] = p[q[m]]
  BY <1>2 DEF Lists
<1>4. PICK r : r = [m \in 1 .. L + 1 |-> IF m = L + 1 THEN n ELSE q[m]]
  OBVIOUS
<1>5. PICK x \in S, longer \in Seq(S) : x = p[n] /\ longer = Append(queue, x)
  <2>1. PICK x \in S : x = p[n]
    OBVIOUS
  <2>2. Append(queue, x) \in Seq(S)
    OBVIOUS
  <2> QED
    BY <2>1, <2>2
<1>6. Len(longer) = L + 1 /\ longer[L + 1] = p[n] /\ \A m \in 1 .. L : longer[m] = queue[m]
  BY <1>1, <1>5
<1>7. r[L + 1] = n /\ \A m \in 1 .. L : r[m] = q[m]
  BY <1>4
<1>8. r \in [1 .. L + 1 -> due \cup {n}]
  BY <1>3, <1>4
<1>9. \A i \in due \cup {n} : \E m \in 1 .. L + 1 : r[m] = i
  <2>1. L + 1 \in 1 .. L + 1 /\ 1 .. L \subseteq 1 .. L + 1
    OBVIOUS
  <2> QED
    BY <1>3, <1>7, <2>1
<1>10. \A k, m \in 1 .. L + 1 : k < m => r[k] < r[m]
  <2>1. ASSUME NEW k \in 1 .. L + 1, NEW m \in 1 .. L + 1, k < m
        PROVE  r[k] < r[m]
    <3>1. k \in 1 .. L /\ r[k] = q[k] /\ q[k] \in due
      BY <1>3, <1>1, <1>7, <2>1
    <3>2. CASE m = L + 1
      BY <1>7, <3>1, <3>2
    <3>3. CASE m \in 1 .. L
      BY <1>3, <1>1, <1>7, <2>1, <3>1, <3>3
    <3> QED
      BY <3>2, <3>3
  <2> QED
    BY <2>1
<1>11. \A m \in 1 .. L + 1 : longer[m] = p[r[m]]
  <2>1. ASSUME NEW m \in 1 .. L + 1
        PROVE  longer[m] = p[r[m]]
    <3>1. CASE m = L + 1
      BY <1>6, <1>7, <3>1
    <3>2. CASE m \in 1 .. L
      BY <1>3, <1>1, <1>6, <1>7, <3>2
    <3> QED
      BY <3>1, <3>2
  <2> QED
    BY <2>1
<1>12. Lists(r, longer, p, due \cup {n}, L + 1)
  BY <1>8, <1>9, <1>10, <1>11 DEF Lists
<1> QED
  BY <1>5, <1>6, <1>12 DEF Queues

LEMMA QueueShrinks ==
    ASSUME NEW S, NEW queue \in Seq(S), NEW p, NEW due, due \subseteq Nat,
           Queues(queue, p, due), NEW i \in due, \A k \in due : i <= k
    PROVE  queue # <<>> /\ Head(queue) = p[i] /\ Queues(Tail(queue), p, due \ {i})
<1>1. PICK L \in Nat : L = Len(queue)
  OBVIOUS
<1>2. PICK q : Lists(q, queue, p, due, L)
  BY <1>1 DEF Queues
<1>3. /\ q \in [1 .. L -> due]
      /\ \A k \in due : \E m \in 1 .. L : q[m] = k
      /\ \A k, m \in 1 .. L : k < m => q[k] < q[m]
      /\ \A m \in 1 .. L : queue[m] = p[q[m]]
  BY <1>2 DEF Lists
<1>4. PICK n \in 1 .. L : q[n] = i
  BY <1>3, <1>1
<1>5. 1 \in 1 .. L /\ q[1] = i
  <2>1. 1 \in 1 .. L
    OBVIOUS
  <2>2. q[1] \in due /\ i <= q[1]
    BY <1>3, <1>1, <2>1
  <2>3. 1 < n => q[1] < i
    BY <1>3, <1>1, <1>4, <2>1
  <2>4. q[1] \in Nat /\ i \in Nat
    BY <2>2
  <2>5. n = 1
    BY <2>2, <2>3, <2>4
  <2> QED
    BY <1>4, <2>1, <2>5
<1>6. queue # <<>> /\ Head(queue) = p[i]
  BY <1>3, <1>1, <1>5
<1>7. PICK shorter \in Seq(S) : shorter = Tail(queue)
  <2>1. Tail(queue) \in Seq(S)
    BY <1>6
  <2> QED
    BY <2>1
<1>8. Len(shorter) = L - 1 /\ \A m \in 1 .. L - 1 : shorter[m] = queue[m + 1]
  BY <1>1, <1>6, <1>7
<1>9. PICK r : r = [m \in 1 .. L - 1 |-> q[m + 1]]
  OBVIOUS
<1>10. \A m \in 1 .. L - 1 : m + 1 \in 1 .. L /\ r[m] = q[m + 1]
  BY <1>9
<1>11. \A m \in 1 .. L - 1 : r[m] \in due /\ r[m] # i
  <2>1. ASSUME NEW m \in 1 .. L - 1
        PROVE  r[m] \in due /\ r[m] # i
    <3>1. q[m + 1] \in due /\ q[1] < q[m + 1]
      BY <1>3, <1>1, <1>5
    <3> QED
      BY <1>5, <1>10, <3>1
  <2> QED
    BY <2>1
<1>12. r \in [1 .. L - 1 -> due \ {i}]
  BY <1>9, <1>10, <1>11
<1>13. \A k \in due \ {i} : \E m \in 1 .. L - 1 : r[m] = k
  <2>1. ASSUME NEW k \in due \ {i}
        PROVE  \E m \in 1 .. L - 1 : r[m] = k
    <3>1. PICK m \in 1 .. L : q[m] = k
      BY <1>3, <1>1
    <3>2. m # 1
      BY <1>5, <3>1
    <3>3. m - 1 \in 1 .. L - 1 /\ (m - 1) + 1 = m
      BY <3>2
    <3> QED
      BY <1>10, <3>1, <3>3
  <2> QED
    BY <2>1
<1>14. \A k, m \in 1 .. L - 1 : k < m => r[k] < r[m]
  BY <1>3, <1>1, <1>10
<1>15. \A m \in 1 .. L - 1 : shorter[m] = p[r[m]]
  BY <1>3, <1>1, <1>8, <1>10
<1>16. Lists(r, shorter, p, due \ {i}, L - 1)
  BY <1>12, <1>13, <1>14, <1>15 DEF Lists
<1> QED
  BY <1>6, <1>7, <1>8, <1>16 DEF Queues

LEMMA PlacesIs ==
    ASSUME NEW p, ContentInOrder(p), Len(p) \in Nat, NEW place, Places(p, place)
    PROVE  /\ Announcing(p) \subseteq 1 .. Len(p) /\ Sent(p) \subseteq 1 .. Len(p)
           /\ \A i \in Announcing(p) : /\ i \in Nat /\ place[i] \in Sent(p) /\ place[i] \in Nat
                                       /\ i < place[i] /\ i \notin Sent(p)
           /\ \A i, j \in Announcing(p) : place[i] = place[j] => i = j
<1>1. Announcing(p) \subseteq 1 .. Len(p) /\ Sent(p) \subseteq 1 .. Len(p)
  BY DEF Announcing, Sent
<1>2. \A i \in Announcing(p) : place[i] \in Sent(p) /\ i \notin Sent(p)
  BY DEF Places, ContentInOrder
<1>3. \A i \in Announcing(p) : i < place[i]
  BY <1>1, <1>2 DEF ContentInOrder
<1>4. \A i, j \in Announcing(p) : place[i] = place[j] => i = j
  <2>1. ASSUME NEW i \in Announcing(p), NEW j \in Announcing(p), i < j
        PROVE  place[i] # place[j]
    <3>1. place[i] < place[j] /\ place[i] \in Nat /\ place[j] \in Nat
      BY <1>1, <1>2, <2>1 DEF Places
    <3> QED
      BY <3>1
  <2>2. \A i, j \in Announcing(p) : i \in Nat /\ j \in Nat
    BY <1>1
  <2>3. \A i, j \in Announcing(p) : i < j \/ j < i \/ i = j
    BY <2>2
  <2> QED
    BY <2>1, <2>3
<1> QED
  BY <1>1, <1>2, <1>3, <1>4

\* A record is read after those before it, and the queue keeps in step.
LEMMA StaysInStep ==
    ASSUME NEW p \in Seq(Tagged), ContentInOrder(p), NEW place, Places(p, place),
           NEW n \in 1 .. Len(p), NEW st \in State, InStep(st, p, place, n - 1)
    PROVE  InStep(StreamRecord(st, p[n]), p, place, n)
<1>1. /\ Announcing(p) \subseteq 1 .. Len(p) /\ Sent(p) \subseteq 1 .. Len(p)
      /\ \A i \in Announcing(p) : /\ i \in Nat /\ place[i] \in Sent(p) /\ place[i] \in Nat
                                  /\ i < place[i] /\ i \notin Sent(p)
      /\ \A i, j \in Announcing(p) : place[i] = place[j] => i = j
  <2>1. Len(p) \in Nat
    OBVIOUS
  <2> QED
    BY <2>1, PlacesIs
<1>2. PICK x \in Read : x = p[n]
  BY DEF Read
<1>3. /\ x.type \in {"DiffChange", "FileContent"}
      /\ x.type = "FileContent" <=> n \in Sent(p)
      /\ x.has_content <=> n \in Announcing(p)
  <2>1. p[n] \in Tagged
    OBVIOUS
  <2> QED
    BY <1>2, <2>1 DEF Tagged, RecordType, Sent, Announcing
<1>4. PICK queue \in Seq(Read), stored \in Seq(Pairs) :
        queue = st.queue /\ stored = st.stored /\ ~ st.failed
  BY DEF State, InStep
<1>5. PICK due : due = Due(p, place, n - 1) /\ due \subseteq Nat
  BY <1>1 DEF Due
<1>6. Queues(queue, p, due) /\ Holds(stored, p, place, n - 1)
  BY <1>4, <1>5 DEF InStep
<1>7. CASE n \in Announcing(p)
  <2>1. StreamRecord(st, x) = [st EXCEPT !.queue = Append(@, x)]
    BY <1>1, <1>3, <1>4, <1>7, StreamRecordIs
  <2>2. /\ ~ StreamRecord(st, x).failed
        /\ StreamRecord(st, x).queue = Append(queue, p[n])
        /\ StreamRecord(st, x).stored = stored
    BY <1>2, <1>4, <2>1 DEF State
  <2>3. Queues(Append(queue, p[n]), p, due \cup {n})
    <3>1. \A i \in due : i < n
      BY <1>1, <1>5 DEF Due
    <3>2. n \in Nat /\ p[n] \in Read
      BY <1>2
    <3> QED
      BY <1>5, <1>6, <3>1, <3>2, QueueGrows
  <2>4. Due(p, place, n) = due \cup {n}
    <3>1. ASSUME NEW i \in Announcing(p)
          PROVE  i <= n /\ place[i] > n <=> i = n \/ (i <= n - 1 /\ place[i] > n - 1)
      <4>1. place[i] # n
        BY <1>1, <1>7
      <4> QED
        BY <1>1, <4>1
    <3> QED
      BY <1>5, <1>7, <3>1 DEF Due
  <2>5. Holds(stored, p, place, n)
    <3>1. ASSUME NEW i \in Announcing(p), place[i] <= n
          PROVE  place[i] <= n - 1
      <4>1. place[i] # n /\ place[i] \in Nat
        BY <1>1, <1>7
      <4> QED
        BY <3>1, <4>1
    <3> QED
      BY <1>6, <3>1 DEF Holds
  <2> QED
    BY <1>2, <2>2, <2>3, <2>4, <2>5 DEF InStep
<1>8. CASE n \in Sent(p)
  <2>1. PICK i \in Announcing(p) : place[i] = n
    BY <1>8 DEF Places
  <2>2. i \in due /\ \A k \in due : i <= k
    <3>1. i \in due
      BY <1>1, <1>5, <2>1 DEF Due
    <3>2. ASSUME NEW k \in due, k < i
          PROVE  FALSE
      <4>1. k \in Announcing(p) /\ place[k] > n - 1
        BY <1>5 DEF Due
      <4>2. place[k] < n /\ place[k] \in Nat
        BY <1>1, <2>1, <3>2, <4>1 DEF Places
      <4> QED
        BY <4>1, <4>2
    <3> QED
      BY <1>5, <3>1, <3>2
  <2>3. queue # <<>> /\ Head(queue) = p[i] /\ Queues(Tail(queue), p, due \ {i})
    BY <1>5, <1>6, <2>2, QueueShrinks
  <2>4. StreamRecord(st, x) =
          [st EXCEPT !.queue = Tail(@),
                     !.stored = Append(@, [change |-> Head(st.queue), content |-> x])]
    BY <1>3, <1>4, <1>8, <2>3, StreamRecordIs
  <2>5. PICK y : y = [change |-> p[i], content |-> x]
    OBVIOUS
  <2>6. /\ ~ StreamRecord(st, x).failed
        /\ StreamRecord(st, x).queue = Tail(queue)
        /\ StreamRecord(st, x).stored = Append(stored, y)
    BY <1>4, <2>3, <2>4, <2>5 DEF State
  <2>7. Due(p, place, n) = due \ {i}
    <3>1. ASSUME NEW k \in Announcing(p)
          PROVE  k <= n /\ place[k] > n <=> k # i /\ k <= n - 1 /\ place[k] > n - 1
      <4>1. place[k] = n <=> k = i
        BY <1>1, <2>1
      <4>2. k # n
        BY <1>1, <1>8
      <4> QED
        BY <1>1, <4>1, <4>2
    <3> QED
      BY <1>5, <3>1 DEF Due
  <2>8. Holds(Append(stored, y), p, place, n)
    <3>1. PICK longer : longer = Append(stored, y)
      OBVIOUS
    <3>2. PICK L \in Nat : L = Len(stored)
      OBVIOUS
    <3>3. Len(longer) = L + 1 /\ longer[L + 1] = y /\ \A m \in 1 .. L : longer[m] = stored[m]
      BY <3>1, <3>2
    <3>4. ASSUME NEW k \in Announcing(p), place[k] <= n
          PROVE  \E m \in 1 .. L + 1 : longer[m] = [change |-> p[k], content |-> p[place[k]]]
      <4>1. CASE place[k] = n
        <5>1. k = i
          BY <1>1, <2>1, <4>1
        <5>2. y = [change |-> p[k], content |-> p[place[k]]]
          BY <1>2, <2>5, <4>1, <5>1
        <5>3. L + 1 \in 1 .. L + 1
          OBVIOUS
        <5> QED
          BY <3>3, <5>2, <5>3
      <4>2. CASE place[k] # n
        <5>1. place[k] <= n - 1
          BY <1>1, <3>4, <4>2
        <5>2. PICK m \in 1 .. L : stored[m] = [change |-> p[k], content |-> p[place[k]]]
          BY <1>6, <3>2, <5>1 DEF Holds
        <5>3. m \in 1 .. L + 1
          OBVIOUS
        <5> QED
          BY <3>3, <5>2, <5>3
      <4> QED
        BY <4>1, <4>2
    <3> QED
      BY <3>1, <3>3, <3>4 DEF Holds
  <2> QED
    BY <1>2, <2>3, <2>6, <2>7, <2>8 DEF InStep
<1>9. CASE n \notin Announcing(p) /\ n \notin Sent(p)
  <2>1. StreamRecord(st, x) = st
    BY <1>3, <1>4, <1>9, StreamRecordIs
  <2>2. \A i \in Announcing(p) : place[i] # n /\ i # n
    BY <1>1, <1>9
  <2>3. Due(p, place, n) = due
    BY <1>1, <1>5, <2>2 DEF Due
  <2>4. Holds(stored, p, place, n)
    <3>1. \A i \in Announcing(p) : place[i] <= n => place[i] <= n - 1
      BY <1>1, <2>2
    <3> QED
      BY <1>6, <3>1 DEF Holds
  <2> QED
    BY <1>2, <1>4, <1>6, <2>1, <2>3, <2>4 DEF InStep
<1> QED
  BY <1>7, <1>8, <1>9

LEMMA StoredGrows ==
    ASSUME NEW r \in Seq(Read), NEW f, Streams(f, r), NEW m \in 0 .. Len(r)
    PROVE  Begins(f[m].stored, f[Len(r)].stored)
<1> DEFINE P == {i \in 0 .. Len(r) : m <= i => Begins(f[m].stored, f[i].stored)}
<1>1. PICK d \in Seq(Pairs) : d = f[m].stored
  BY DEF Streams, State
<1>2. Begins(d, d)
  BY DEF Begins
<1>3. 0 \in P
  BY <1>1, <1>2, m <= 0 => m = 0
<1>4. ASSUME NEW i \in 1 .. Len(r), i - 1 \in P
      PROVE  i \in P
  <2>1. CASE m < i
    <3>1. PICK st \in State, x \in Read : st = f[i - 1] /\ x = r[i]
      BY DEF Streams
    <3>2. PICK later \in State : later = f[i] /\ later = StreamRecord(st, x)
      BY <3>1 DEF Streams
    <3>3. PICK a \in Seq(Pairs), b \in Seq(Pairs) : a = st.stored /\ b = later.stored
      BY DEF State
    <3>4. Begins(a, b)
      BY <3>2, <3>3, StreamRecordKeeps
    <3>5. Begins(d, a)
      BY <1>1, <1>4, <2>1, <3>1, <3>3
    <3>6. Begins(d, b)
      <4>1. Len(d) <= Len(b)
        <5>1. Len(d) <= Len(a) /\ Len(a) <= Len(b)
          BY <3>4, <3>5 DEF Begins
        <5> QED
          BY <5>1
      <4>2. ASSUME NEW k \in 1 .. Len(d)
            PROVE  b[k] = d[k]
        <5>1. k \in 1 .. Len(a)
          BY <3>5 DEF Begins
        <5> QED
          BY <3>4, <3>5, <5>1 DEF Begins
      <4> QED
        BY <4>1, <4>2 DEF Begins
    <3>7. Begins(f[m].stored, f[i].stored)
      BY <1>1, <3>2, <3>3, <3>6
    <3> QED
      BY <3>7
  <2>2. CASE m = i
    BY <1>1, <1>2, <2>2
  <2> QED
    BY <2>1, <2>2
<1>5. Len(r) \in Nat
  OBVIOUS
<1>6. 0 .. Len(r) \subseteq P
  <2> HIDE DEF P
  <2> QED
    BY <1>3, <1>4, <1>5, CountUp
<1> QED
  BY <1>5, <1>6

\* What a list that begins with p stores, whatever comes behind it.
LEMMA StoresAll ==
    ASSUME NEW r \in Seq(Read), NEW p \in Seq(Tagged), ContentInOrder(p), Begins(p, r)
    PROVE  /\ \A i, j \in 1 .. Len(p) :
                p[i].has_content /\ p[j].type = "FileContent" /\ p[j].change = p[i].change =>
                  \E n \in 1 .. Len(StreamAll(r).stored) :
                    StreamAll(r).stored[n] = [change |-> p[i], content |-> p[j]]
           /\ Len(r) = Len(p) => ~ StreamAll(r).failed /\ StreamAll(r).queue = <<>>
<1>1. PICK f : Streams(f, r) /\ StreamAll(r) = f[Len(r)]
  BY StreamAllIs
<1>2. PICK place : Places(p, place)
  BY DEF ContentInOrder, Places
<1>3. PICK L \in Nat : L = Len(p) /\ L \in 0 .. Len(r)
  BY DEF Begins
<1>4. /\ Announcing(p) \subseteq 1 .. L
      /\ \A i \in Announcing(p) : i \in Nat /\ place[i] \in 1 .. L
  BY <1>2, <1>3, PlacesIs
<1> DEFINE P == {n \in 0 .. L : InStep(f[n], p, place, n)}
<1>5. 0 \in P
  <2>1. f[0] = AtFirst
    BY <1>1 DEF Streams
  <2>2. Due(p, place, 0) = {}
    BY <1>4 DEF Due
  <2>3. Lists(<<>>, <<>>, p, {}, 0)
    BY DEF Lists
  <2>4. Queues(<<>>, p, {})
    BY <2>3 DEF Queues
  <2>5. Holds(<<>>, p, place, 0)
    BY <1>4 DEF Holds
  <2>6. ~ AtFirst.failed /\ AtFirst.queue = <<>> /\ AtFirst.stored = <<>>
    BY DEF AtFirst
  <2>7. InStep(AtFirst, p, place, 0)
    BY <2>2, <2>4, <2>5, <2>6 DEF InStep
  <2>8. InStep(f[0], p, place, 0)
    BY <2>1, <2>7
  <2> QED
    BY <2>8
<1>6. ASSUME NEW n \in 1 .. L, n - 1 \in P
      PROVE  n \in P
  <2>1. n \in 1 .. Len(r) /\ n \in 1 .. Len(p) /\ r[n] = p[n]
    BY <1>3 DEF Begins
  <2>2. PICK st \in State : st = f[n - 1]
    BY <1>1, <2>1 DEF Streams
  <2>3. f[n] = StreamRecord(st, p[n])
    BY <1>1, <2>1, <2>2 DEF Streams
  <2>4. InStep(st, p, place, n - 1)
    BY <1>6, <2>2
  <2>5. InStep(StreamRecord(st, p[n]), p, place, n)
    BY <1>2, <2>1, <2>4, StaysInStep
  <2> QED
    BY <2>3, <2>5
<1>7. 0 .. L \subseteq P
  <2> HIDE DEF P
  <2> QED
    BY <1>5, <1>6, CountUp
<1>8. InStep(f[L], p, place, L)
  <2>1. L \in 0 .. L
    OBVIOUS
  <2> QED
    BY <1>7, <2>1
<1>9. PICK early, late : early = f[L].stored /\ late = f[Len(r)].stored /\ Begins(early, late)
  BY <1>1, <1>3, StoredGrows
<1>10. ASSUME NEW i \in 1 .. Len(p), NEW j \in 1 .. Len(p),
              p[i].has_content, p[j].type = "FileContent", p[j].change = p[i].change
       PROVE  \E n \in 1 .. Len(late) : late[n] = [change |-> p[i], content |-> p[j]]
  <2>1. i \in Announcing(p) /\ j \in Sent(p)
    BY <1>10 DEF Announcing, Sent
  <2>2. PICK k \in Announcing(p) : place[k] = j
    BY <1>2, <2>1 DEF Places
  <2>3. k = i
    BY <1>2, <1>10, <2>1, <2>2 DEF Places, ContentInOrder
  <2>4. place[i] <= L
    BY <1>4, <2>1
  <2>5. PICK n \in 1 .. Len(early) : early[n] = [change |-> p[i], content |-> p[j]]
    BY <1>8, <1>9, <2>1, <2>2, <2>3, <2>4 DEF InStep, Holds
  <2>6. PICK a \in Nat, b \in Nat : a = Len(early) /\ b = Len(late)
    <3>1. f[L] \in State /\ f[Len(r)] \in State
      BY <1>1, <1>3 DEF Streams
    <3>2. early \in Seq(Pairs) /\ late \in Seq(Pairs)
      BY <1>9, <3>1 DEF State
    <3> QED
      BY <3>2
  <2>7. a <= b /\ n \in 1 .. a /\ late[n] = early[n]
    BY <1>9, <2>6 DEF Begins
  <2>8. n \in 1 .. b
    BY <2>7
  <2> QED
    BY <2>5, <2>6, <2>7, <2>8
<1>11. ASSUME Len(r) = Len(p)
       PROVE  ~ StreamAll(r).failed /\ StreamAll(r).queue = <<>>
  <2>1. PICK queue \in Seq(Read) : queue = f[L].queue
    BY <1>1, <1>3 DEF Streams, State
  <2>2. Due(p, place, L) = {}
    BY <1>4 DEF Due
  <2>3. PICK q : Lists(q, queue, p, {}, Len(queue))
    BY <1>8, <2>1, <2>2 DEF InStep, Queues
  <2>4. Len(queue) = 0
    BY <2>3 DEF Lists
  <2>5. queue = <<>>
    BY <2>4
  <2> QED
    BY <1>1, <1>3, <1>8, <1>11, <2>1, <2>5 DEF InStep
<1> QED
  BY <1>1, <1>9, <1>10, <1>11

----------------------------------------------------------------------------
(* The inductive invariant.                                                *)

File == [round : Nat, records : Seq(Tagged), whole : BOOLEAN]

TypeOK ==
    /\ files \in [0 .. MaxChunks -> File]
    /\ pc \in {"idle", "write", "roll"}
    /\ open \in Nat
    /\ rest \in Seq(Seq(Tagged))
    /\ newest \in Seq(Seq(Tagged))
    /\ round \in Nat
    /\ split \in BOOLEAN
    /\ complete \in BOOLEAN

\* A file is of one diff; chunks are there from the first on, and those of
\* later diffs are in front of those of earlier ones.
StackInv ==
    /\ \A k \in 0 .. MaxChunks :
         /\ files[k].round <= round
         /\ OfRound(files[k].records, files[k].round)
         /\ files[k] # Absent => files[k].round > 0
    /\ \A k, l \in 1 .. MaxChunks : k < l /\ files[l] # Absent =>
         files[k] # Absent /\ files[k].round >= files[l].round

\* The diff written last is one of Diffs.
NewestInv ==
    /\ ContentInOrder(Records(newest))
    /\ \A k \in 1 .. Len(newest) : OfRound(newest[k], round)
    /\ split => Len(newest) <= MaxChunks
    /\ ~ split => Len(newest) <= 1

\* The end of a sequence.
After(s, n) == SubSeq(s, n + 1, Len(s))

\* How many of its files are written, and the number of the k-th of them.
Written ==
    IF pc # "idle" THEN Len(newest) - Len(rest)
                   ELSE IF complete THEN Len(newest) ELSE 0
NumberOf(k) == IF split THEN k ELSE 0

Opened == [round |-> round, records |-> <<>>, whole |-> FALSE]
Closed(records) == [round |-> round, records |-> records, whole |-> TRUE]

WritingInv ==
    /\ \A k \in 1 .. Written : files[NumberOf(k)] = Closed(newest[k])
    /\ pc # "idle" => /\ ~ complete
                      /\ Written \in 0 .. Len(newest) - 1
                      /\ rest = After(newest, Written)
                      /\ round > 0
    /\ pc = "write" => open = NumberOf(Written + 1) /\ files[open] = Opened
    /\ pc = "roll" => Written > 0 /\ open = NumberOf(Written)

FilesInv == TypeOK /\ StackInv /\ NewestInv /\ WritingInv

LEMMA AfterIs ==
    ASSUME NEW S, NEW s \in Seq(S), NEW n \in 0 .. Len(s)
    PROVE  /\ After(s, n) \in Seq(S) /\ Len(After(s, n)) = Len(s) - n
           /\ \A i \in 1 .. Len(s) - n : After(s, n)[i] = s[n + i]
  BY DEF After

LEMMA AfterAll ==
    ASSUME NEW S, NEW s \in Seq(S)
    PROVE  After(s, 0) = s
  BY DEF After

LEMMA TailIs ==
    ASSUME NEW S, NEW s \in Seq(S), s # <<>>
    PROVE  /\ Head(s) = s[1] /\ Tail(s) \in Seq(S) /\ Len(Tail(s)) = Len(s) - 1
           /\ \A i \in 1 .. Len(s) - 1 : Tail(s)[i] = s[i + 1]
  OBVIOUS

LEMMA TailAfter ==
    ASSUME NEW S, NEW s \in Seq(S), NEW n \in 0 .. Len(s) - 1
    PROVE  /\ After(s, n) # <<>> /\ Head(After(s, n)) = s[n + 1]
           /\ Tail(After(s, n)) = After(s, n + 1)
<1>1. PICK a \in Seq(S) : /\ a = After(s, n) /\ Len(a) = Len(s) - n
                          /\ \A i \in 1 .. Len(s) - n : a[i] = s[n + i]
  <2>1. n \in 0 .. Len(s)
    OBVIOUS
  <2> QED
    BY <2>1, AfterIs
<1>2. PICK b \in Seq(S) : /\ b = After(s, n + 1) /\ Len(b) = Len(s) - (n + 1)
                          /\ \A i \in 1 .. Len(s) - (n + 1) : b[i] = s[(n + 1) + i]
  <2>1. n + 1 \in 0 .. Len(s)
    OBVIOUS
  <2> QED
    BY <2>1, AfterIs
<1>3. a # <<>>
  BY <1>1
<1>4. PICK t \in Seq(S) : /\ t = Tail(a) /\ Len(t) = Len(a) - 1 /\ Head(a) = a[1]
                          /\ \A i \in 1 .. Len(a) - 1 : t[i] = a[i + 1]
  <2>1. /\ Head(a) = a[1] /\ Tail(a) \in Seq(S) /\ Len(Tail(a)) = Len(a) - 1
        /\ \A i \in 1 .. Len(a) - 1 : Tail(a)[i] = a[i + 1]
    BY <1>3, TailIs
  <2> QED
    BY <2>1, Zenon
<1>5. Len(t) = Len(b)
  BY <1>1, <1>2, <1>4
<1>6. ASSUME NEW i \in 1 .. Len(b)
      PROVE  t[i] = b[i]
  <2>1. /\ i \in 1 .. Len(s) - (n + 1) /\ i \in 1 .. Len(a) - 1
        /\ i + 1 \in 1 .. Len(s) - n /\ n + (i + 1) = (n + 1) + i
    BY <1>1, <1>2
  <2> QED
    BY <1>1, <1>2, <1>4, <2>1
<1>7. t = b
  BY <1>5, <1>6
<1>8. 1 \in 1 .. Len(s) - n
  OBVIOUS
<1> QED
  BY <1>1, <1>2, <1>3, <1>4, <1>7, <1>8

LEMMA FlattenIs ==
    ASSUME NEW S, NEW s \in Seq(Seq(S))
    PROVE  FlattenSeq(s) \in Seq(S)
<1>1. PICK f : Joins(f, s, S) /\ FlattenSeq(s) = f[Len(s)]
  BY FlattenJoins
<1>2. Len(s) \in 0 .. Len(s)
  OBVIOUS
<1> QED
  BY <1>1, <1>2 DEF Joins

LEMMA AlikeInOrder ==
    ASSUME NEW a, NEW b, Alike(a, b), ContentInOrder(b)
    PROVE  ContentInOrder(a)
<1>1. Announcing(a) = Announcing(b) /\ Sent(a) = Sent(b) /\ Len(a) = Len(b)
  BY DEF Alike, Announcing, Sent
<1>2. \A i \in Announcing(a) : a[i].change = b[i].change
  BY DEF Alike, Announcing
<1>3. PICK place : Places(b, place)
  BY DEF ContentInOrder, Places
<1>4. \A i \in Announcing(a) : a[place[i]].change = a[i].change
  <2>1. ASSUME NEW i \in Announcing(a)
        PROVE  a[place[i]].change = a[i].change
    <3>1. place[i] \in Sent(a)
      BY <1>1, <1>3 DEF Places
    <3>2. a[place[i]].change = b[place[i]].change
      BY <3>1 DEF Alike, Sent
    <3>3. b[place[i]].change = b[i].change
      BY <1>1, <1>3 DEF Places
    <3> QED
      BY <1>2, <3>2, <3>3
  <2> QED
    BY <2>1
<1>5. \A i, j \in Announcing(a) : a[i].change = a[j].change => i = j
  BY <1>1, <1>2 DEF ContentInOrder
<1>6. Places(a, place)
  BY <1>1, <1>3, <1>4 DEF Places
<1> QED
  BY <1>1, <1>5, <1>6 DEF ContentInOrder, Places

\* The records of a diff, with its number.
TaggedChunks(chunks, n) ==
    [c \in 1 .. Len(chunks) |->
       [i \in 1 .. Len(chunks[c]) |->
          [round |-> n, type |-> chunks[c][i].type, change |-> chunks[c][i].change,
           has_content |-> chunks[c][i].has_content]]]

LEMMA TaggedIs ==
    ASSUME NEW chunks \in Seq(Seq(Record)), ContentInOrder(Records(chunks)), NEW n \in Nat,
           NEW t, t = TaggedChunks(chunks, n)
    PROVE  /\ t \in Seq(Seq(Tagged)) /\ Len(t) = Len(chunks)
           /\ \A k \in 1 .. Len(t) : OfRound(t[k], n)
           /\ ContentInOrder(Records(t))
<1>1. Len(chunks) \in Nat /\ DOMAIN t = 1 .. Len(chunks)
  BY DEF TaggedChunks
<1>2. ASSUME NEW c \in 1 .. Len(chunks)
      PROVE  t[c] \in Seq(Tagged) /\ OfRound(t[c], n) /\ Alike(t[c], chunks[c])
  <2>1. PICK chunk \in Seq(Record) : chunk = chunks[c]
    OBVIOUS
  <2>2. t[c] = [i \in 1 .. Len(chunk) |->
                  [round |-> n, type |-> chunk[i].type, change |-> chunk[i].change,
                   has_content |-> chunk[i].has_content]]
    BY <2>1 DEF TaggedChunks
  <2>3. \A i \in 1 .. Len(chunk) : chunk[i] \in Record
    OBVIOUS
  <2>4. \A i \in 1 .. Len(chunk) :
          [round |-> n, type |-> chunk[i].type, change |-> chunk[i].change,
           has_content |-> chunk[i].has_content] \in Tagged
    BY <2>3 DEF Record, Tagged
  <2>5. t[c] \in Seq(Tagged) /\ Len(t[c]) = Len(chunk)
    BY <2>2, <2>4
  <2>6. \A i \in 1 .. Len(chunk) : /\ t[c][i].round = n
                                   /\ t[c][i].type = chunk[i].type
                                   /\ t[c][i].change = chunk[i].change
                                   /\ t[c][i].has_content = chunk[i].has_content
    BY <2>2
  <2> QED
    BY <2>1, <2>5, <2>6 DEF OfRound, Alike
<1>3. t \in Seq(Seq(Tagged)) /\ Len(t) = Len(chunks)
  <2>1. t = [c \in 1 .. Len(chunks) |-> t[c]]
    BY DEF TaggedChunks
  <2> QED
    BY <1>1, <1>2, <2>1
<1>4. PartsAlike(t, chunks)
  BY <1>2, <1>3 DEF PartsAlike
<1>5. Alike(FlattenSeq(t), FlattenSeq(chunks))
  BY <1>3, <1>4, FlattenAlike
<1>6. ContentInOrder(Records(t))
  BY <1>5, AlikeInOrder DEF Records
<1> QED
  BY <1>2, <1>3, <1>6

----------------------------------------------------------------------------
(* The invariant holds.                                                    *)

LEMMA NothingInOrder == ContentInOrder(Records(<<>>))
<1>1. <<>> \in Seq(Seq(Tagged)) /\ <<>> \in Seq(Tagged) /\ Len(<<>>) = 0
  OBVIOUS
<1>2. Records(<<>>) = <<>>
  BY <1>1 DEF Records, FlattenSeq
<1>3. Announcing(<<>>) = {} /\ Sent(<<>>) = {}
  BY <1>1 DEF Announcing, Sent
<1>4. [i \in {} |-> 0] \in [{} -> {}]
  OBVIOUS
<1> QED
  BY <1>1, <1>2, <1>3, <1>4 DEF ContentInOrder

LEMMA InitHolds == FilesInit => FilesInv
<1> SUFFICES ASSUME FilesInit PROVE FilesInv
  OBVIOUS
<1>1. MaxChunks \in Nat
  BY DiffsAssumption
<1>2. <<>> \in Seq(Seq(Tagged)) /\ <<>> \in Seq(Tagged) /\ Len(<<>>) = 0
  OBVIOUS
<1>3. Absent \in File /\ Absent.round = 0 /\ Absent.records = <<>>
  BY <1>2 DEF Absent, File
<1>4. \A k \in 0 .. MaxChunks : files[k] = Absent
  BY DEF FilesInit
<1>5. files \in [0 .. MaxChunks -> File]
  BY <1>3 DEF FilesInit
<1>6. TypeOK
  BY <1>1, <1>2, <1>5 DEF FilesInit, TypeOK
<1>7. StackInv
  <2>1. OfRound(<<>>, 0)
    BY DEF OfRound
  <2> QED
    BY <1>1, <1>3, <1>4, <2>1 DEF FilesInit, StackInv
<1>8. NewestInv
  <2>1. ContentInOrder(Records(newest))
    BY NothingInOrder DEF FilesInit
  <2> QED
    BY <1>1, <1>2, <2>1 DEF FilesInit, NewestInv
<1>9. WritingInv
  BY <1>2 DEF FilesInit, WritingInv, Written
<1> QED
  BY <1>6, <1>7, <1>8, <1>9 DEF FilesInv

\* A file of the newest diff is put behind others of it.
LEMMA StackPut ==
    ASSUME TypeOK, StackInv, NEW k \in 0 .. MaxChunks, NEW file \in File,
           files' = [files EXCEPT ![k] = file],
           NEW n \in Nat, round' = n, n >= round, n > 0,
           file.round = n, OfRound(file.records, n),
           \A j \in 1 .. MaxChunks : j < k => files[j].round = n
    PROVE  StackInv'
<1>1. MaxChunks \in Nat
  BY DiffsAssumption
<1>2. files'[k] = file /\ \A j \in 0 .. MaxChunks : j # k => files'[j] = files[j]
  BY DEF TypeOK
<1>3. \A j \in 0 .. MaxChunks : files[j].round \in Nat /\ files[j].round <= round
  BY DEF TypeOK, File, StackInv
<1>4. file # Absent /\ Absent.round = 0
  BY DEF Absent
<1>5. ASSUME NEW j \in 0 .. MaxChunks
      PROVE  /\ files'[j].round <= round'
             /\ OfRound(files'[j].records, files'[j].round)
             /\ files'[j] # Absent => files'[j].round > 0
  <2>1. CASE j = k
    BY <1>2, <2>1
  <2>2. CASE j # k
    <3>1. files'[j] = files[j]
      BY <1>2, <2>2
    <3>2. files[j].round <= round'
      BY <1>3 DEF TypeOK
    <3> QED
      BY <3>1, <3>2 DEF StackInv
  <2> QED
    BY <2>1, <2>2
<1>6. ASSUME NEW i \in 1 .. MaxChunks, NEW j \in 1 .. MaxChunks, i < j, files'[j] # Absent
      PROVE  files'[i] # Absent /\ files'[i].round >= files'[j].round
  <2>1. i \in 0 .. MaxChunks /\ j \in 0 .. MaxChunks /\ files'[j].round <= round'
    BY <1>5
  <2>2. CASE i = k
    BY <1>2, <1>4, <2>1, <2>2
  <2>3. CASE i < k
    <3>1. files'[i] = files[i] /\ files[i].round = round'
      BY <1>2, <2>1, <2>3
    <3> QED
      BY <1>4, <2>1, <3>1
  <2>4. CASE k < i
    <3>1. files'[i] = files[i] /\ files'[j] = files[j]
      BY <1>2, <1>6, <2>1, <2>4
    <3> QED
      BY <1>6, <3>1 DEF StackInv
  <2> QED
    BY <2>2, <2>3, <2>4
<1> QED
  BY <1>5, <1>6 DEF StackInv

\* A diff is begun: its first file, if it has one, is new and empty.
LEMMA BeginStep ==
    ASSUME FilesInv, NEW chunks \in Seq(Seq(Record)), ContentInOrder(Records(chunks)),
           NEW k, Begin(chunks, k), split' \in BOOLEAN,
           IF split' THEN k = 1 /\ Len(chunks) <= MaxChunks ELSE k = 0 /\ Len(chunks) = 1,
           IF chunks = <<>> THEN UNCHANGED <<files, pc>>
                            ELSE files' = File_create(k, round') /\ pc' = "write"
    PROVE  FilesInv'
<1>1. TypeOK /\ StackInv /\ MaxChunks \in Nat
  BY DiffsAssumption DEF FilesInv
<1>2. /\ pc = "idle" /\ round' = round + 1 /\ newest' = TaggedChunks(chunks, round')
      /\ rest' = newest' /\ open' = k /\ complete' = (chunks = <<>>)
  BY DEF Begin, TaggedChunks
<1>3. round \in Nat /\ round' \in Nat /\ round' > round /\ round' > 0
  BY <1>1, <1>2 DEF TypeOK
<1>4. /\ newest' \in Seq(Seq(Tagged)) /\ Len(newest') = Len(chunks)
      /\ \A c \in 1 .. Len(newest') : OfRound(newest'[c], round')
      /\ ContentInOrder(Records(newest'))
  BY <1>2, <1>3, TaggedIs
<1>5. NewestInv'
  <2>1. /\ \A c \in 1 .. Len(newest') : OfRound(newest'[c], round')
        /\ ContentInOrder(Records(newest)')
    BY <1>4 DEF Records
  <2>2. /\ split' => Len(newest') <= MaxChunks
        /\ ~ split' => Len(newest') <= 1
    <3>1. (split' => Len(chunks) <= MaxChunks) /\ (~ split' => Len(chunks) = 1)
      OBVIOUS
    <3>2. Len(newest') = Len(chunks) /\ 1 <= 1
      BY <1>4
    <3> QED
      BY <3>1, <3>2, Zenon
  <2> QED
    BY <2>1, <2>2 DEF NewestInv
<1>6. CASE chunks = <<>>
  <2>1. UNCHANGED <<files, pc>> /\ split' /\ k = 1 /\ complete' = TRUE
    BY <1>2, <1>6
  <2>2. newest' = <<>> /\ Len(newest') = 0
    BY <1>4, <1>6
  <2>3. TypeOK'
    BY <1>1, <1>2, <1>3, <1>4, <2>1 DEF TypeOK
  <2>4. StackInv'
    <3>1. \A j \in 0 .. MaxChunks : files[j].round \in Nat
      BY <1>1 DEF TypeOK, File
    <3> QED
      BY <1>1, <1>3, <2>1, <3>1 DEF StackInv
  <2>5. WritingInv'
    <3>1. pc' = "idle" /\ Written' = 0
      BY <1>2, <2>1, <2>2 DEF Written
    <3> QED
      BY <3>1 DEF WritingInv
  <2> QED
    BY <1>5, <2>3, <2>4, <2>5 DEF FilesInv
<1>7. CASE chunks # <<>>
  <2>1. files' = File_create(k, round') /\ pc' = "write" /\ complete' = FALSE
    BY <1>2, <1>7
  <2>2. Len(chunks) \in Nat \ {0} /\ k \in 0 .. MaxChunks
    BY <1>1, <1>7
  <2>3. PICK file \in File : file = Opened'
    <3>1. <<>> \in Seq(Tagged)
      OBVIOUS
    <3> QED
      BY <1>3, <3>1 DEF Opened, File
  <2>4. files' = [files EXCEPT ![k] = file]
    BY <2>1, <2>3 DEF File_create, Opened
  <2>5. files' \in [0 .. MaxChunks -> File] /\ files'[k] = file
    BY <1>1, <2>2, <2>4 DEF TypeOK
  <2>6. TypeOK'
    BY <1>1, <1>2, <1>3, <1>4, <2>1, <2>2, <2>5 DEF TypeOK
  <2>7. StackInv'
    <3>1. file.round = round' /\ OfRound(file.records, round')
      BY <2>3 DEF Opened, OfRound
    <3>2. \A j \in 1 .. MaxChunks : ~ (j < k)
      BY <1>1, <1>3
    <3>3. PICK n \in Nat : round' = n /\ n >= round /\ n > 0
      BY <1>3
    <3> QED
      BY <1>1, <2>2, <2>4, <3>1, <3>2, <3>3, StackPut
  <2>8. WritingInv'
    <3>1. Len(newest') \in Nat /\ rest' = newest'
      BY <1>2, <1>4
    <3>2. Written' = 0
      BY <2>1, <3>1 DEF Written
    <3>3. rest' = After(newest', 0)
      BY <1>2, <1>4, AfterAll
    <3>4. open' = NumberOf(1)'
      BY <1>2 DEF NumberOf
    <3>5. 0 \in 0 .. Len(newest') - 1 /\ 0 + 1 = 1 /\ (1 .. 0) = {}
      BY <1>4, <2>2
    <3> QED
      BY <1>2, <1>3, <2>1, <2>3, <2>5, <3>2, <3>3, <3>4, <3>5 DEF WritingInv
  <2> QED
    BY <1>5, <2>6, <2>7, <2>8 DEF FilesInv
<1> QED
  BY <1>6, <1>7

\* Records go into a file that is new, and the sentinel.
LEMMA RecordsPut ==
    ASSUME NEW n, NEW records,
           NEW f, f = [round |-> n, records |-> <<>>, whole |-> FALSE],
           NEW g, g = [f EXCEPT !.records = records]
    PROVE  g = [round |-> n, records |-> records, whole |-> FALSE]
  OBVIOUS

LEMMA AllPut ==
    ASSUME NEW n, NEW records,
           NEW f, f = [round |-> n, records |-> <<>>, whole |-> FALSE],
           NEW g, g = [f EXCEPT !.records = records, !.whole = TRUE]
    PROVE  g = [round |-> n, records |-> records, whole |-> TRUE]
  OBVIOUS

\* Where the next file is, or the file open.
LEMMA WritesWhere ==
    ASSUME FilesInv, pc # "idle", NEW w, w = Written
    PROVE  /\ w \in 0 .. Len(newest) - 1 /\ Len(newest) \in Nat
           /\ NumberOf(w + 1) \in 0 .. MaxChunks
           /\ Len(rest) = Len(newest) - w
           /\ rest # <<>> /\ Head(rest) = newest[w + 1] /\ newest[w + 1] \in Seq(Tagged)
           /\ Tail(rest) = After(newest, w + 1)
           /\ \A j \in 1 .. MaxChunks : j < NumberOf(w + 1) => files[j].round = round
           /\ \A k \in 1 .. w : NumberOf(k) # NumberOf(w + 1)
           /\ \A k \in 1 .. w : NumberOf(k) \in 0 .. MaxChunks
           /\ w > 0 => NumberOf(w + 1) = NumberOf(w) + 1
           /\ round > 0 /\ OfRound(newest[w + 1], round)
<1>1. TypeOK /\ NewestInv /\ WritingInv /\ MaxChunks \in Nat
  BY DiffsAssumption DEF FilesInv
<1>2. PICK L \in Nat : L = Len(newest)
  BY <1>1 DEF TypeOK
<1>3. w \in 0 .. L - 1 /\ rest = After(newest, w) /\ round > 0
  BY <1>1, <1>2 DEF WritingInv
<1>4. w \in Nat /\ w + 1 \in 1 .. L /\ newest \in Seq(Seq(Tagged))
  BY <1>1, <1>3 DEF TypeOK
<1>5. Len(rest) = L - w /\ rest # <<>> /\ Head(rest) = newest[w + 1]
      /\ Tail(rest) = After(newest, w + 1)
  <2>1. w \in 0 .. Len(newest) /\ w \in 0 .. Len(newest) - 1
    BY <1>2, <1>3
  <2>2. Len(rest) = L - w
    BY <1>2, <1>3, <1>4, <2>1, AfterIs
  <2>3. rest # <<>> /\ Head(rest) = newest[w + 1] /\ Tail(rest) = After(newest, w + 1)
    BY <1>3, <1>4, <2>1, TailAfter
  <2> QED
    BY <2>2, <2>3
<1>6. newest[w + 1] \in Seq(Tagged) /\ OfRound(newest[w + 1], round)
  BY <1>1, <1>2, <1>4 DEF NewestInv
<1>7. CASE split
  <2>1. L <= MaxChunks
    BY <1>1, <1>2, <1>7 DEF NewestInv
  <2>2. \A k \in Nat : NumberOf(k) = k
    BY <1>7 DEF NumberOf
  <2>3. NumberOf(w + 1) = w + 1 /\ w + 1 \in 0 .. MaxChunks
    BY <1>1, <1>4, <2>1, <2>2
  <2>4. ASSUME NEW j \in 1 .. MaxChunks, j < w + 1
        PROVE  files[j].round = round
    <3>1. j \in 1 .. w /\ NumberOf(j) = j
      BY <1>4, <2>2, <2>4
    <3>2. files[j] = Closed(newest[j])
      BY <1>1, <3>1 DEF WritingInv
    <3> QED
      BY <3>2 DEF Closed
  <2>5. \A k \in 1 .. w : NumberOf(k) # NumberOf(w + 1) /\ NumberOf(k) \in 0 .. MaxChunks
    BY <1>1, <1>4, <2>1, <2>2
  <2>6. NumberOf(w + 1) = NumberOf(w) + 1
    BY <1>4, <2>2
  <2> QED
    BY <1>2, <1>3, <1>5, <1>6, <2>3, <2>4, <2>5, <2>6
<1>8. CASE ~ split
  <2>1. L <= 1
    BY <1>1, <1>2, <1>8 DEF NewestInv
  <2>2. w = 0 /\ NumberOf(w + 1) = 0
    BY <1>3, <1>8, <2>1 DEF NumberOf
  <2> QED
    BY <1>1, <1>2, <1>3, <1>5, <1>6, <2>2
<1> QED
  BY <1>7, <1>8

LEMMA FinishFileStep ==
    ASSUME FilesInv, FinishFile
    PROVE  FilesInv'
<1>1. TypeOK /\ StackInv /\ NewestInv /\ WritingInv
  BY DEF FilesInv
<1>2. PICK w : w = Written
  OBVIOUS
<1>3. /\ w \in 0 .. Len(newest) - 1 /\ Len(newest) \in Nat
      /\ NumberOf(w + 1) \in 0 .. MaxChunks
      /\ Len(rest) = Len(newest) - w
      /\ rest # <<>> /\ Head(rest) = newest[w + 1] /\ newest[w + 1] \in Seq(Tagged)
      /\ Tail(rest) = After(newest, w + 1)
      /\ \A j \in 1 .. MaxChunks : j < NumberOf(w + 1) => files[j].round = round
      /\ \A k \in 1 .. w : NumberOf(k) # NumberOf(w + 1)
      /\ \A k \in 1 .. w : NumberOf(k) \in 0 .. MaxChunks
      /\ round > 0 /\ OfRound(newest[w + 1], round)
  BY <1>2, WritesWhere DEF FinishFile
<1>4. /\ pc = "write" /\ open = NumberOf(w + 1) /\ files[open] = Opened
      /\ UNCHANGED <<open, newest, round, split>>
  BY <1>1, <1>2 DEF FinishFile, WritingInv
<1>5. PICK records \in Seq(Tagged) : records = newest[w + 1]
  BY <1>3
<1>6. PICK file \in File : file = Closed(records)
  BY <1>1, <1>5 DEF Closed, File, TypeOK
<1>7. files' = [files EXCEPT ![open] = file]
  <2>1. files' = [files EXCEPT ![open].records = @ \o records, ![open].whole = TRUE]
    BY <1>3, <1>5 DEF FinishFile
  <2>2. PICK k \in 0 .. MaxChunks : k = open
    BY <1>3, <1>4
  <2>3. files' = [files EXCEPT ![k].records = files[k].records \o records, ![k].whole = TRUE]
    BY <1>1, <2>1, <2>2 DEF TypeOK
  <2>4. files[k].records \o records = records
    BY <1>4, <2>2 DEF Opened
  <2>5. files' = [files EXCEPT ![k].records = records, ![k].whole = TRUE]
    BY <2>3, <2>4
  <2>6. \A j \in 0 .. MaxChunks : j # k => files'[j] = files[j]
    BY <1>1, <2>5 DEF TypeOK
  <2>7. files'[k] = file
    <3>1. PICK f : f = files[k]
      OBVIOUS
    <3>2. f = [round |-> round, records |-> <<>>, whole |-> FALSE]
      BY <1>4, <2>2, <3>1 DEF Opened
    <3>3. PICK g : g = files'[k]
      OBVIOUS
    <3>4. g = [f EXCEPT !.records = records, !.whole = TRUE]
      BY <1>1, <2>5, <3>1, <3>3 DEF TypeOK
    <3>5. g = [round |-> round, records |-> records, whole |-> TRUE]
      BY <3>2, <3>4, AllPut
    <3> QED
      BY <1>6, <3>3, <3>5 DEF Closed
  <2>8. files' = [j \in 0 .. MaxChunks |-> files'[j]]
    BY <1>1, <2>5 DEF TypeOK
  <2> QED
    BY <1>1, <2>2, <2>6, <2>7, <2>8 DEF TypeOK
<1>8. /\ files' \in [0 .. MaxChunks -> File] /\ files'[open] = file
      /\ \A k \in 0 .. MaxChunks : k # open => files'[k] = files[k]
  BY <1>1, <1>3, <1>4, <1>7 DEF TypeOK
<1>9. rest' = Tail(rest) /\ rest' \in Seq(Seq(Tagged)) /\ Len(rest') = Len(newest) - (w + 1)
  <2>1. PICK s \in Seq(Seq(Tagged)) : s = rest
    BY <1>1 DEF TypeOK
  <2>2. s # <<>>
    BY <1>3, <2>1
  <2>3. Tail(s) \in Seq(Seq(Tagged)) /\ Len(Tail(s)) = Len(s) - 1
    BY <2>2
  <2>4. Len(s) = Len(newest) - w
    BY <1>3, <2>1
  <2>5. PICK L \in Nat : L = Len(newest) /\ w \in 0 .. L - 1
    BY <1>3
  <2>6. Len(Tail(s)) = L - (w + 1)
    BY <2>3, <2>4, <2>5
  <2>7. rest' = Tail(s)
    BY <2>1 DEF FinishFile
  <2> QED
    BY <2>1, <2>3, <2>5, <2>6, <2>7
<1>10. /\ pc' = IF Len(rest) = 1 THEN "idle" ELSE "roll"
       /\ complete' = (Len(rest) = 1)
  BY DEF FinishFile
<1>11. TypeOK'
  BY <1>1, <1>4, <1>8, <1>9, <1>10 DEF TypeOK
<1>12. StackInv'
  <2>1. file.round = round /\ OfRound(file.records, round)
    BY <1>3, <1>5, <1>6 DEF Closed
  <2>2. PICK n \in Nat : n = round /\ round' = n /\ n >= round /\ n > 0
    BY <1>1, <1>3, <1>4 DEF TypeOK
  <2>3. PICK k \in 0 .. MaxChunks : k = open /\ \A j \in 1 .. MaxChunks : j < k => files[j].round = n
    BY <1>3, <1>4, <2>2
  <2> QED
    BY <1>1, <1>7, <2>1, <2>2, <2>3, StackPut
<1>13. NewestInv'
  BY <1>1, <1>4 DEF NewestInv
<1>14. WritingInv'
  <2>1. Written' = w + 1
    <3>1. CASE Len(rest) = 1
      <4>1. Len(newest) = w + 1
        <5>1. PICK L \in Nat : L = Len(newest)
          BY <1>3
        <5>2. w \in 0 .. L - 1 /\ L - w = 1
          BY <1>3, <3>1, <5>1
        <5> QED
          BY <5>1, <5>2
      <4>2. pc' = "idle" /\ complete' = TRUE /\ newest' = newest
        BY <1>4, <1>10, <3>1
      <4> QED
        BY <4>1, <4>2 DEF Written
    <3>2. CASE Len(rest) # 1
      BY <1>3, <1>4, <1>9, <1>10, <3>2 DEF Written
    <3> QED
      BY <3>1, <3>2
  <2>2. \A k \in Nat : NumberOf(k)' = NumberOf(k)
    BY <1>4 DEF NumberOf
  <2>3. ASSUME NEW k \in 1 .. w + 1
        PROVE  files'[NumberOf(k)'] = Closed(newest[k])'
    <3>1. CASE k = w + 1
      BY <1>4, <1>5, <1>6, <1>8, <2>2, <3>1 DEF Closed
    <3>2. CASE k \in 1 .. w
      <4>1. files[NumberOf(k)] = Closed(newest[k])
        BY <1>1, <1>2, <3>2 DEF WritingInv
      <4>2. files'[NumberOf(k)] = files[NumberOf(k)]
        BY <1>3, <1>4, <1>8, <3>2
      <4> QED
        BY <1>4, <2>2, <4>1, <4>2 DEF Closed
    <3>3. w \in Nat
      BY <1>3
    <3> QED
      BY <3>1, <3>2, <3>3
  <2>4. ASSUME pc' # "idle"
        PROVE  /\ pc' = "roll" /\ ~ complete'
               /\ w + 1 \in 0 .. Len(newest) - 1
               /\ rest' = After(newest, w + 1)
    <3>1. Len(rest) # 1
      BY <1>10, <2>4
    <3>2. w + 1 \in 0 .. Len(newest) - 1
      BY <1>3, <3>1
    <3> QED
      BY <1>3, <1>9, <1>10, <3>1, <3>2
  <2>5. w + 1 > 0 /\ open' = NumberOf(w + 1)'
    BY <1>3, <1>4, <2>2
  <2> QED
    BY <1>3, <1>4, <2>1, <2>3, <2>4, <2>5 DEF WritingInv
<1> QED
  BY <1>11, <1>12, <1>13, <1>14 DEF FilesInv

LEMMA NextChunkStep ==
    ASSUME FilesInv, NextChunk
    PROVE  FilesInv'
<1>1. TypeOK /\ StackInv /\ NewestInv /\ WritingInv
  BY DEF FilesInv
<1>2. PICK w : w = Written
  OBVIOUS
<1>3. /\ w \in 0 .. Len(newest) - 1 /\ Len(newest) \in Nat
      /\ NumberOf(w + 1) \in 0 .. MaxChunks
      /\ \A j \in 1 .. MaxChunks : j < NumberOf(w + 1) => files[j].round = round
      /\ \A k \in 1 .. w : NumberOf(k) # NumberOf(w + 1)
      /\ \A k \in 1 .. w : NumberOf(k) \in 0 .. MaxChunks
      /\ w > 0 => NumberOf(w + 1) = NumberOf(w) + 1
      /\ round > 0
  BY <1>2, WritesWhere DEF NextChunk
<1>4. /\ pc = "roll" /\ pc' = "write"
      /\ UNCHANGED <<rest, newest, round, split, complete>>
      /\ w > 0 /\ open = NumberOf(w) /\ open' = NumberOf(w + 1)
  BY <1>1, <1>2, <1>3 DEF NextChunk, WritingInv
<1>5. PICK file \in File : file = Opened
  <2>1. <<>> \in Seq(Tagged)
    OBVIOUS
  <2> QED
    BY <1>1, <2>1 DEF TypeOK, Opened, File
<1>6. files' = [files EXCEPT ![open'] = file]
  BY <1>5 DEF NextChunk, File_create, Opened
<1>7. /\ files' \in [0 .. MaxChunks -> File] /\ files'[open'] = file
      /\ \A k \in 0 .. MaxChunks : k # open' => files'[k] = files[k]
  BY <1>1, <1>3, <1>4, <1>6 DEF TypeOK
<1>8. TypeOK'
  BY <1>1, <1>3, <1>4, <1>7 DEF TypeOK
<1>9. StackInv'
  <2>1. file.round = round /\ OfRound(file.records, round)
    BY <1>5 DEF Opened, OfRound
  <2>2. PICK n \in Nat : n = round /\ round' = n /\ n >= round /\ n > 0
    BY <1>1, <1>3, <1>4 DEF TypeOK
  <2>3. PICK k \in 0 .. MaxChunks : k = open' /\ \A j \in 1 .. MaxChunks : j < k => files[j].round = n
    BY <1>3, <1>4, <2>2
  <2> QED
    BY <1>1, <1>6, <2>1, <2>2, <2>3, StackPut
<1>10. NewestInv'
  BY <1>1, <1>4 DEF NewestInv
<1>11. WritingInv'
  <2>1. Written' = w /\ \A k \in Nat : NumberOf(k)' = NumberOf(k)
    BY <1>2, <1>4 DEF Written, NumberOf
  <2>2. ASSUME NEW k \in 1 .. w
        PROVE  files'[NumberOf(k)'] = Closed(newest[k])'
    <3>1. files[NumberOf(k)] = Closed(newest[k])
      BY <1>1, <1>2 DEF WritingInv
    <3>2. files'[NumberOf(k)] = files[NumberOf(k)]
      BY <1>3, <1>4, <1>7
    <3> QED
      BY <1>4, <2>1, <3>1, <3>2 DEF Closed
  <2>3. ~ complete /\ rest = After(newest, w)
    BY <1>1, <1>2, <1>4 DEF WritingInv
  <2>4. open' = NumberOf(w + 1)' /\ files'[open'] = Opened'
    BY <1>3, <1>4, <1>5, <1>7, <2>1 DEF Opened
  <2> QED
    BY <1>3, <1>4, <2>1, <2>2, <2>3, <2>4 DEF WritingInv
<1> QED
  BY <1>8, <1>9, <1>10, <1>11 DEF FilesInv

LEMMA InterruptedStep ==
    ASSUME FilesInv, Interrupted
    PROVE  FilesInv'
<1>1. TypeOK /\ StackInv /\ NewestInv /\ WritingInv
  BY DEF FilesInv
<1>2. /\ pc # "idle" /\ pc' = "idle" /\ ~ complete
      /\ UNCHANGED <<open, rest, newest, round, split, complete>>
  BY <1>1 DEF Interrupted, WritingInv
<1>3. NewestInv' /\ WritingInv'
  BY <1>1, <1>2 DEF NewestInv, WritingInv, Written
<1>4. CASE pc = "roll"
  <2>1. files' = files
    BY <1>4 DEF Interrupted
  <2>2. TypeOK' /\ StackInv'
    BY <1>1, <1>2, <2>1 DEF TypeOK, StackInv
  <2> QED
    BY <1>3, <2>2 DEF FilesInv
<1>5. CASE pc # "roll"
  <2>1. PICK w : w = Written
    OBVIOUS
  <2>2. /\ NumberOf(w + 1) \in 0 .. MaxChunks
        /\ Head(rest) = newest[w + 1] /\ newest[w + 1] \in Seq(Tagged)
        /\ \A j \in 1 .. MaxChunks : j < NumberOf(w + 1) => files[j].round = round
        /\ round > 0 /\ OfRound(newest[w + 1], round)
    BY <1>2, <2>1, WritesWhere
  <2>3. open = NumberOf(w + 1) /\ files[open] = Opened
    BY <1>1, <1>2, <1>5, <2>1 DEF TypeOK, WritingInv
  <2>4. PICK records \in Seq(Tagged) : records = Head(rest)
    BY <2>2
  <2>5. PICK n \in 0 .. Len(records) :
          files' = [files EXCEPT ![open].records = @ \o SubSeq(records, 1, n)]
    BY <1>5, <2>4 DEF Interrupted
  <2>6. PICK some \in Seq(Tagged) :
          some = SubSeq(records, 1, n) /\ \A i \in 1 .. Len(some) : some[i].round = round
    <3>1. SubSeq(records, 1, n) \in Seq(Tagged)
      OBVIOUS
    <3>2. PICK some \in Seq(Tagged) : some = SubSeq(records, 1, n)
      BY <3>1
    <3>3. Len(some) = n /\ \A i \in 1 .. n : some[i] = records[i] /\ i \in 1 .. Len(records)
      BY <3>2
    <3>4. \A i \in 1 .. Len(records) : records[i].round = round
      BY <2>2, <2>4 DEF OfRound
    <3>5. \A i \in 1 .. Len(some) : some[i].round = round
      BY <3>3, <3>4
    <3> QED
      BY <3>2, <3>5
  <2>7. PICK file \in File : file = [round |-> round, records |-> some, whole |-> FALSE]
    BY <1>1 DEF TypeOK, File
  <2>8. files' = [files EXCEPT ![open] = file]
    <3>1. PICK k \in 0 .. MaxChunks : k = open
      BY <2>2, <2>3
    <3>2. files' = [files EXCEPT ![k].records = files[k].records \o some]
      BY <1>1, <2>5, <2>6, <3>1 DEF TypeOK
    <3>3. files[k].records \o some = some
      BY <2>3, <3>1 DEF Opened
    <3>4. files' = [files EXCEPT ![k].records = some]
      BY <3>2, <3>3
    <3>5. \A j \in 0 .. MaxChunks : j # k => files'[j] = files[j]
      BY <1>1, <3>4 DEF TypeOK
    <3>6. files'[k] = file
      <4>1. PICK f : f = files[k]
        OBVIOUS
      <4>2. f = [round |-> round, records |-> <<>>, whole |-> FALSE]
        BY <2>3, <3>1, <4>1 DEF Opened
      <4>3. PICK g : g = files'[k]
        OBVIOUS
      <4>4. g = [f EXCEPT !.records = some]
        BY <1>1, <3>4, <4>1, <4>3 DEF TypeOK
      <4>5. g = [round |-> round, records |-> some, whole |-> FALSE]
        BY <4>2, <4>4, RecordsPut
      <4> QED
        BY <2>7, <4>3, <4>5
    <3>7. files' = [j \in 0 .. MaxChunks |-> files'[j]]
      BY <1>1, <3>4 DEF TypeOK
    <3> QED
      BY <1>1, <3>1, <3>5, <3>6, <3>7 DEF TypeOK
  <2>9. TypeOK'
    BY <1>1, <1>2, <2>2, <2>3, <2>8 DEF TypeOK
  <2>10. StackInv'
    <3>1. PICK m \in Nat : m = round /\ round' = m /\ m >= round /\ m > 0
      BY <1>1, <1>2, <2>2 DEF TypeOK
    <3>2. file.round = round /\ OfRound(file.records, round)
      BY <2>6, <2>7 DEF OfRound
    <3>3. PICK k \in 0 .. MaxChunks : k = open /\ \A j \in 1 .. MaxChunks : j < k => files[j].round = m
      BY <2>2, <2>3, <3>1
    <3> QED
      BY <1>1, <2>8, <3>1, <3>2, <3>3, StackPut
  <2> QED
    BY <1>3, <2>9, <2>10 DEF FilesInv
<1> QED
  BY <1>4, <1>5

LEMMA ClearStep ==
    ASSUME FilesInv, Clear
    PROVE  FilesInv'
<1>1. TypeOK /\ MaxChunks \in Nat
  BY DiffsAssumption DEF FilesInv
<1>2. /\ pc = "idle" /\ files' = [k \in 0 .. MaxChunks |-> Absent]
      /\ newest' = <<>> /\ split' = FALSE /\ complete' = FALSE
      /\ UNCHANGED <<pc, open, rest, round>>
  BY DEF Clear
<1>3. <<>> \in Seq(Seq(Tagged)) /\ <<>> \in Seq(Tagged) /\ Len(<<>>) = 0
  OBVIOUS
<1>4. Absent \in File /\ Absent.round = 0 /\ Absent.records = <<>>
  BY <1>3 DEF Absent, File
<1>5. \A k \in 0 .. MaxChunks : files'[k] = Absent
  BY <1>2
<1>6. files' \in [0 .. MaxChunks -> File]
  BY <1>2, <1>4
<1>7. TypeOK'
  BY <1>1, <1>2, <1>3, <1>6 DEF TypeOK
<1>8. StackInv'
  <2>1. OfRound(<<>>, 0) /\ round' \in Nat
    BY <1>7 DEF OfRound, TypeOK
  <2> QED
    BY <1>1, <1>4, <1>5, <2>1 DEF StackInv
<1>9. NewestInv'
  <2>1. ContentInOrder(Records(newest'))
    BY <1>2, NothingInOrder
  <2> QED
    BY <1>1, <1>2, <1>3, <2>1 DEF NewestInv, Records
<1>10. WritingInv'
  <2>1. Written' = 0 /\ pc' = "idle"
    BY <1>2 DEF Written
  <2> QED
    BY <2>1 DEF WritingInv
<1> QED
  BY <1>7, <1>8, <1>9, <1>10 DEF FilesInv

LEMMA BeginSplitStep ==
    ASSUME FilesInv, BeginSplit
    PROVE  FilesInv'
<1>1. PICK d \in Diffs :
        /\ Begin(d, 1)
        /\ split' = TRUE
        /\ IF d = <<>> THEN UNCHANGED <<files, pc>>
                       ELSE files' = File_create(1, round') /\ pc' = "write"
  BY DEF BeginSplit
<1>2. d \in Seq(Seq(Record)) /\ Len(d) <= MaxChunks /\ ContentInOrder(Records(d))
  BY DiffsAssumption
<1> QED
  BY <1>1, <1>2, BeginStep

LEMMA BeginSingleStep ==
    ASSUME FilesInv, BeginSingle
    PROVE  FilesInv'
<1>1. PICK d \in Diffs :
        /\ Begin(<<Records(d)>>, 0)
        /\ split' = FALSE
        /\ files' = File_create(0, round')
        /\ pc' = "write"
  BY DEF BeginSingle
<1>2. d \in Seq(Seq(Record)) /\ ContentInOrder(Records(d))
  BY DiffsAssumption
<1>3. PICK records \in Seq(Record) : records = Records(d)
  BY <1>2, FlattenIs DEF Records
<1>4. PICK chunks \in Seq(Seq(Record)) : chunks = <<records>>
  <2>1. <<records>> \in Seq(Seq(Record))
    OBVIOUS
  <2> QED
    BY <2>1
<1>5. Len(chunks) = 1 /\ chunks[1] = records /\ chunks # <<>>
  BY <1>4
<1>6. Records(chunks) = records
  BY <1>5, FlattenOne DEF Records
<1>7. Begin(chunks, 0) /\ ContentInOrder(Records(chunks))
  BY <1>1, <1>2, <1>3, <1>4, <1>6
<1> QED
  BY <1>1, <1>5, <1>7, BeginStep

LEMMA InvHolds == FilesSpec => []FilesInv
<1>1. FilesInit => FilesInv
  BY InitHolds
<1>2. FilesInv /\ [FilesNext]_filesVars => FilesInv'
  <2> SUFFICES ASSUME FilesInv, [FilesNext]_filesVars PROVE FilesInv'
    OBVIOUS
  <2>1. CASE BeginSplit
    BY <2>1, BeginSplitStep
  <2>2. CASE BeginSingle
    BY <2>2, BeginSingleStep
  <2>3. CASE FinishFile
    BY <2>3, FinishFileStep
  <2>4. CASE NextChunk
    BY <2>4, NextChunkStep
  <2>5. CASE Interrupted
    BY <2>5, InterruptedStep
  <2>6. CASE Clear
    BY <2>6, ClearStep
  <2>7. CASE UNCHANGED filesVars
    <3>1. UNCHANGED <<files, pc, open, rest, newest, round, split, complete>>
      BY <2>7 DEF filesVars
    <3>2. TypeOK' /\ StackInv'
      BY <3>1 DEF FilesInv, TypeOK, StackInv
    <3>3. NewestInv' /\ WritingInv'
      BY <3>1 DEF FilesInv, NewestInv, WritingInv, Written, NumberOf, Opened, Closed
    <3> QED
      BY <3>2, <3>3 DEF FilesInv
  <2> QED
    BY <2>1, <2>2, <2>3, <2>4, <2>5, <2>6, <2>7 DEF FilesNext
<1> QED
  BY <1>1, <1>2, PTL DEF FilesSpec

----------------------------------------------------------------------------
(* What is read.                                                           *)

\* Chunks are there from the first on, so nothing is behind the first gap.
LEMMA FirstMissingIs ==
    ASSUME FilesInv
    PROVE  /\ FirstMissing \in 1 .. MaxChunks + 1
           /\ ~ Exists(FirstMissing) /\ ~ Exists(FirstMissing + 1)
           /\ \A j \in 1 .. FirstMissing - 1 : Exists(j)
<1>1. MaxChunks \in Nat /\ StackInv
  BY DiffsAssumption DEF FilesInv
<1> DEFINE Missing == {k \in 1 .. MaxChunks + 1 : ~ Exists(k)}
<1>2. MaxChunks + 1 \in Missing /\ Missing \subseteq Nat
  BY <1>1 DEF Exists
<1>3. PICK m \in Missing : \A k \in Missing : m <= k
  <2> HIDE DEF Missing
  <2> QED
    BY <1>2, HasLeast
<1>4. m \in 1 .. MaxChunks + 1 /\ ~ Exists(m) /\ \A j \in 1 .. m - 1 : Exists(j)
  <2>1. ASSUME NEW j \in 1 .. m - 1, ~ Exists(j)
        PROVE  FALSE
    <3>1. j \in Missing
      BY <1>1, <2>1
    <3> QED
      BY <1>3, <3>1
  <2> QED
    BY <2>1
<1>5. PICK first : first = FirstMissing
  OBVIOUS
<1>6. /\ first \in 1 .. MaxChunks + 1 /\ ~ Exists(first)
      /\ \A j \in 1 .. first - 1 : Exists(j)
  BY <1>4, <1>5, Zenon DEF FirstMissing
<1>7. ASSUME Exists(first + 1)
      PROVE  FALSE
  <2>1. first + 1 \in 0 .. MaxChunks /\ files[first + 1] # Absent
    BY <1>7 DEF Exists
  <2>2. first \in 1 .. MaxChunks /\ first + 1 \in 1 .. MaxChunks /\ first < first + 1
    BY <1>1, <1>6, <2>1
  <2>3. files[first] # Absent
    BY <1>1, <2>1, <2>2 DEF StackInv
  <2> QED
    BY <1>6, <2>2, <2>3 DEF Exists
<1> QED
  BY <1>5, <1>6, <1>7

LEMMA DiffFilesAre ==
    ASSUME FilesInv
    PROVE  /\ diff_files \in Seq(File)
           /\ Exists(0) => diff_files = <<files[0]>>
           /\ ~ Exists(0) => /\ Len(diff_files) = FirstMissing - 1
                             /\ \A k \in 1 .. FirstMissing - 1 : diff_files[k] = files[k]
           /\ \A k \in 1 .. Len(diff_files) : OfRound(diff_files[k].records, diff_files[k].round)
           /\ \A k, l \in 1 .. Len(diff_files) : k < l =>
                diff_files[k].round >= diff_files[l].round
<1>1. MaxChunks \in Nat /\ TypeOK /\ StackInv
  BY DiffsAssumption DEF FilesInv
<1>2. CASE Exists(0)
  <2>1. PICK one \in Seq(File) : one = <<files[0]>> /\ Len(one) = 1 /\ one[1] = files[0]
    <3>1. PICK file \in File : file = files[0]
      BY <1>1 DEF TypeOK
    <3>2. <<file>> \in Seq(File) /\ Len(<<file>>) = 1 /\ <<file>>[1] = file
      OBVIOUS
    <3> QED
      BY <3>1, <3>2
  <2>2. diff_files = one
    BY <1>2, <2>1 DEF diff_files
  <2>3. OfRound(files[0].records, files[0].round)
    BY <1>1 DEF StackInv
  <2>4. \A k \in 1 .. Len(one) : OfRound(one[k].records, one[k].round)
    BY <2>1, <2>3
  <2>5. \A k, l \in 1 .. Len(one) : k < l => one[k].round >= one[l].round
    BY <2>1
  <2> QED
    BY <1>2, <2>1, <2>2, <2>4, <2>5
<1>3. CASE ~ Exists(0)
  <2>1. PICK n \in Nat : /\ n = FirstMissing - 1 /\ n <= MaxChunks
                         /\ \A j \in 1 .. n : Exists(j)
    BY <1>1, FirstMissingIs
  <2>2. \A k \in 1 .. n : k \in 1 .. MaxChunks /\ files[k] \in File /\ files[k] # Absent
    BY <1>1, <2>1 DEF TypeOK, Exists
  <2>3. PICK chunks \in Seq(File) : chunks = [k \in 1 .. n |-> files[k]]
    <3>1. [k \in 1 .. n |-> files[k]] \in Seq(File)
      BY <2>2
    <3> QED
      BY <3>1
  <2>4. Len(chunks) = n /\ \A k \in 1 .. n : chunks[k] = files[k]
    BY <2>3
  <2>5. diff_files = chunks
    BY <1>3, <2>1, <2>3 DEF diff_files
  <2>6. \A k \in 1 .. n : OfRound(files[k].records, files[k].round)
    BY <1>1, <2>2 DEF StackInv
  <2>7. \A k \in 1 .. n : OfRound(chunks[k].records, chunks[k].round)
    BY <2>4, <2>6
  <2>8. \A k, l \in 1 .. n : k < l => chunks[k].round >= chunks[l].round
    BY <1>1, <2>2, <2>4 DEF StackInv
  <2> QED
    BY <1>3, <2>1, <2>4, <2>5, <2>7, <2>8
<1> QED
  BY <1>2, <1>3

\* What is read of one file.
PartOf(file) == Behind(file.records, IF file.whole THEN <<>> ELSE <<CutOff>>)
Parts == [k \in 1 .. Len(diff_files) |-> PartOf(diff_files[k])]

LEMMA PartIs ==
    ASSUME NEW file \in File, OfRound(file.records, file.round)
    PROVE  /\ PartOf(file) \in Seq(Read) /\ ReadOfRound(PartOf(file), file.round)
           /\ file.whole => PartOf(file) = file.records
<1>1. PICK records \in Seq(Read) : records = file.records
  <2>1. file.records \in Seq(Tagged)
    BY DEF File
  <2>2. file.records \in Seq(Read)
    BY <2>1 DEF Read
  <2> QED
    BY <2>2
<1>2. CASE file.whole
  <2>1. PartOf(file) = Behind(records, <<>>)
    BY <1>1, <1>2 DEF PartOf
  <2>2. Behind(records, <<>>) = records
    BY DEF Behind
  <2> QED
    BY <1>1, <2>1, <2>2 DEF OfRound, ReadOfRound
<1>3. CASE ~ file.whole
  <2>1. PICK mark \in Seq(Read) : mark = <<CutOff>> /\ Len(mark) = 1 /\ mark[1] = CutOff
    <3>1. <<CutOff>> \in Seq(Read)
      BY DEF Read
    <3> QED
      BY <3>1
  <2>2. PICK part : part = Behind(records, mark) /\ PartOf(file) = part
    BY <1>1, <1>3, <2>1 DEF PartOf
  <2>3. part \in Seq(Read) /\ Appended(part, records, mark)
    BY <2>2, BehindAppended
  <2>4. /\ Len(part) = Len(records) + 1 /\ part[Len(records) + 1] = CutOff
        /\ \A i \in 1 .. Len(records) : part[i] = records[i]
    BY <2>1, <2>3 DEF Appended
  <2>5. \A i \in 1 .. Len(part) : part[i] # CutOff => part[i].round = file.round
    <3>1. ASSUME NEW i \in 1 .. Len(part), part[i] # CutOff
          PROVE  part[i].round = file.round
      <4>1. i # Len(records) + 1
        BY <2>4, <3>1
      <4>2. i \in 1 .. Len(records)
        BY <2>4, <4>1
      <4> QED
        BY <1>1, <2>4, <4>2 DEF OfRound
    <3> QED
      BY <3>1
  <2> QED
    BY <1>3, <2>2, <2>3, <2>5 DEF ReadOfRound
<1> QED
  BY <1>2, <1>3

LEMMA PartsAre ==
    ASSUME FilesInv
    PROVE  /\ Parts \in Seq(Seq(Read)) /\ Len(Parts) = Len(diff_files)
           /\ \A k \in 1 .. Len(diff_files) : Parts[k] = PartOf(diff_files[k])
           /\ \E age : Ageing(Parts, age)
           /\ RecordsRead = FlattenSeq(Parts)
<1>1. PICK fs \in Seq(File) : fs = diff_files
  BY DiffFilesAre
<1>2. /\ \A k \in 1 .. Len(fs) : OfRound(fs[k].records, fs[k].round)
      /\ \A k, l \in 1 .. Len(fs) : k < l => fs[k].round >= fs[l].round
  BY <1>1, DiffFilesAre
<1>3. ASSUME NEW k \in 1 .. Len(fs)
      PROVE  /\ PartOf(fs[k]) \in Seq(Read)
             /\ ReadOfRound(PartOf(fs[k]), fs[k].round)
             /\ fs[k].round \in Nat
  <2>1. PICK file \in File : file = fs[k]
    OBVIOUS
  <2>2. OfRound(file.records, file.round)
    BY <1>2, <2>1
  <2> QED
    BY <2>1, <2>2, PartIs DEF File
<1>4. Parts = [k \in 1 .. Len(fs) |-> PartOf(fs[k])]
  BY <1>1 DEF Parts
<1>5. PICK parts \in Seq(Seq(Read)) : parts = Parts
  BY <1>3, <1>4
<1>6. Len(parts) = Len(fs) /\ \A k \in 1 .. Len(fs) : parts[k] = PartOf(fs[k])
  BY <1>4, <1>5
<1>7. PICK age : age = [k \in 1 .. Len(fs) |-> fs[k].round]
  OBVIOUS
<1>8. Ageing(parts, age)
  <2>1. \A k \in 1 .. Len(parts) : age[k] \in Nat /\ ReadOfRound(parts[k], age[k])
    BY <1>3, <1>6, <1>7
  <2>2. \A k, l \in 1 .. Len(parts) : k < l => age[k] >= age[l]
    BY <1>2, <1>6, <1>7
  <2> QED
    BY <2>1, <2>2 DEF Ageing
<1>9. RecordsRead = FlattenSeq(Parts)
  BY Zenon DEF RecordsRead, Parts, PartOf, Behind
<1> QED
  BY <1>1, <1>5, <1>6, <1>8, <1>9

----------------------------------------------------------------------------
(* The theorems.                                                           *)

\* What apply reads is never older before newer, whatever was written and
\* whatever was cut off in between.
THEOREM LeftoversComeLast == FilesSpec => []StaleLast
<1>1. FilesInv => StaleLast
  <2> SUFFICES ASSUME FilesInv PROVE StaleLast
    OBVIOUS
  <2>1. PICK parts \in Seq(Seq(Read)) : parts = Parts /\ \E age : Ageing(parts, age)
    BY PartsAre
  <2>2. LaterFirst(FlattenSeq(parts))
    BY <2>1, FlattenLaterFirst
  <2>3. LaterFirst(RecordsRead)
    BY <2>1, <2>2, PartsAre
  <2> QED
    BY <2>3 DEF LaterFirst, StaleLast
<1>2. FilesSpec => []FilesInv
  BY InvHolds
<1> QED
  BY <1>1, <1>2, PTL

\* After a diff was written to its end, its files are the first that are read.
LEMMA NewestFirst ==
    ASSUME FilesInv, pc = "idle", complete, newest # <<>>, ~ (split /\ Exists(0))
    PROVE  /\ ~ DetectFails
           /\ Len(newest) \in 1 .. Len(diff_files)
           /\ \A k \in 1 .. Len(newest) : diff_files[k] = Closed(newest[k])
           /\ ~ split => Len(newest) = 1 /\ Len(diff_files) = 1
<1>1. TypeOK /\ NewestInv /\ WritingInv /\ MaxChunks \in Nat
  BY DiffsAssumption DEF FilesInv
<1>2. PICK L \in Nat : L = Len(newest) /\ L > 0
  BY <1>1 DEF TypeOK
<1>3. \A k \in 1 .. L : files[NumberOf(k)] = Closed(newest[k])
  BY <1>1, <1>2 DEF WritingInv, Written
<1>4. \A records : Closed(records) # Absent
  BY DEF Closed, Absent
<1>5. CASE split
  <2>1. ~ Exists(0) /\ L <= MaxChunks
    BY <1>1, <1>2, <1>5 DEF NewestInv
  <2>2. \A k \in 1 .. L : files[k] = Closed(newest[k]) /\ Exists(k)
    BY <1>1, <1>3, <1>4, <1>5, <2>1 DEF NumberOf, Exists
  <2>3. PICK n \in Nat : n = FirstMissing - 1 /\ ~ Exists(n + 1) /\ ~ Exists(FirstMissing + 1)
    BY <1>1, FirstMissingIs
  <2>4. L <= n
    BY <1>2, <2>2, <2>3
  <2>5. Len(diff_files) = n /\ \A k \in 1 .. n : diff_files[k] = files[k]
    BY <2>1, <2>3, DiffFilesAre
  <2>6. ~ DetectFails
    BY <1>2, <2>3, <2>4 DEF DetectFails
  <2> QED
    BY <1>2, <1>5, <2>2, <2>4, <2>5, <2>6
<1>6. CASE ~ split
  <2>1. L = 1 /\ files[0] = Closed(newest[1])
    BY <1>1, <1>2, <1>3, <1>6 DEF NewestInv, NumberOf
  <2>2. Exists(0)
    BY <1>1, <1>4, <2>1 DEF Exists
  <2>3. diff_files = <<files[0]>>
    BY <2>2, DiffFilesAre
  <2>4. Len(diff_files) = 1 /\ diff_files[1] = files[0]
    BY <2>3
  <2> QED
    BY <1>2, <2>1, <2>2, <2>4 DEF DetectFails
<1> QED
  BY <1>5, <1>6

LEMMA PrefixBegins ==
    ASSUME NEW S, NEW a \in Seq(S), NEW b \in Seq(S), IsPrefix(a, b)
    PROVE  Begins(a, b)
<1>1. Len(a) <= Len(b) /\ SubSeq(a, 1, Len(a)) = SubSeq(b, 1, Len(a))
  BY DEF IsPrefix
<1>2. PICK c : c = SubSeq(b, 1, Len(a))
  OBVIOUS
<1>3. \A k \in 1 .. Len(a) : c[k] = b[k]
  BY <1>1, <1>2
<1>4. c = a
  BY <1>1, <1>2
<1> QED
  BY <1>1, <1>3, <1>4 DEF Begins

\* A split diff that was written to its end is found, read first and stored
\* as it should be, whatever chunks older diffs left behind it; an unsplit
\* one is read alone, and the run succeeds.
THEOREM NewestIsStored == FilesSpec => []NewestStored
<1>1. FilesInv => NewestStored
  <2> SUFFICES ASSUME FilesInv, pc = "idle", complete, newest # <<>>, ~ (split /\ Exists(0))
               PROVE  /\ ~ DetectFails
                      /\ IsPrefix(Records(newest), RecordsRead)
                      /\ ~ ParseFails => ContentsStored(newest)
                      /\ ~ split => Success /\ RecordsRead = Records(newest)
    BY DEF NewestStored
  <2>1. TypeOK /\ NewestInv
    BY DEF FilesInv
  <2>2. PICK L \in Nat : L = Len(newest) /\ L > 0 /\ L <= Len(diff_files)
    BY <2>1, NewestFirst DEF TypeOK
  <2>3. \A k \in 1 .. L : diff_files[k] = Closed(newest[k])
    BY <2>2, NewestFirst
  <2>4. PICK diff \in Seq(Seq(Tagged)) : diff = newest
    BY <2>1 DEF TypeOK
  <2>5. PICK parts \in Seq(Seq(Read)) :
          /\ parts = Parts /\ Len(parts) = Len(diff_files)
          /\ \A k \in 1 .. Len(diff_files) : parts[k] = PartOf(diff_files[k])
    BY PartsAre
  <2>6. ASSUME NEW k \in 1 .. L
        PROVE  parts[k] = diff[k]
    <3>1. k \in 1 .. Len(diff_files) /\ diff_files \in Seq(File)
      BY <2>2, DiffFilesAre
    <3>2. PICK file \in File : file = diff_files[k] /\ OfRound(file.records, file.round)
      BY <3>1, DiffFilesAre
    <3>3. file.whole /\ file.records = diff[k]
      <4>1. file = [round |-> round, records |-> diff[k], whole |-> TRUE]
        BY <2>3, <2>4, <3>2 DEF Closed
      <4> QED
        BY <4>1
    <3>4. PartOf(file) = file.records
      BY <3>2, <3>3, PartIs
    <3> QED
      BY <2>5, <3>1, <3>2, <3>3, <3>4
  <2>7. PICK own \in Seq(Tagged) : own = FlattenSeq(diff) /\ own = Records(newest)
    BY <2>4, FlattenIs DEF Records
  <2>8. PICK all \in Seq(Read) : all = FlattenSeq(parts) /\ all = RecordsRead
    <3>1. RecordsRead = FlattenSeq(Parts)
      BY PartsAre
    <3>2. FlattenSeq(parts) \in Seq(Read)
      BY FlattenIs
    <3> QED
      BY <2>5, <3>1, <3>2
  <2>9. IsPrefix(own, all)
    <3>1. PICK mine \in Seq(Seq(Read)) : mine = diff
      BY DEF Read
    <3>2. Len(mine) <= Len(parts) /\ \A i \in 1 .. Len(mine) : mine[i] = parts[i]
      BY <2>2, <2>4, <2>5, <2>6, <3>1
    <3>3. IsPrefix(FlattenSeq(mine), FlattenSeq(parts))
      BY <3>2, FlattenPrefix
    <3> QED
      BY <2>7, <2>8, <3>1, <3>3
  <2>10. Begins(own, all)
    <3>1. own \in Seq(Read)
      BY DEF Read
    <3> QED
      BY <2>9, <3>1, PrefixBegins
  <2>11. ContentInOrder(own)
    BY <2>1, <2>7 DEF NewestInv
  <2>12. /\ \A i, j \in 1 .. Len(own) :
              own[i].has_content /\ own[j].type = "FileContent" /\ own[j].change = own[i].change =>
                \E n \in 1 .. Len(StreamAll(all).stored) :
                  StreamAll(all).stored[n] = [change |-> own[i], content |-> own[j]]
         /\ Len(all) = Len(own) => ~ StreamAll(all).failed /\ StreamAll(all).queue = <<>>
    BY <2>10, <2>11, StoresAll
  <2>13. ~ DetectFails
    BY NewestFirst
  <2>14. ASSUME ~ ParseFails
         PROVE  ContentsStored(newest)
    <3>1. Stored = StreamAll(all).stored
      BY <2>8, <2>13, <2>14 DEF Stored, Streamed
    <3> QED
      BY <2>7, <2>12, <3>1 DEF ContentsStored
  <2>15. ASSUME ~ split
         PROVE  Success /\ RecordsRead = Records(newest)
    <3>1. L = 1 /\ Len(diff_files) = 1
      BY <2>2, <2>15, NewestFirst
    <3>2. parts[1] = diff[1] /\ Len(parts) = 1 /\ Len(diff) = 1
      BY <2>2, <2>4, <2>5, <2>6, <3>1
    <3>3. all = own
      BY <2>7, <2>8, <3>2, FlattenOne
    <3>4. ~ ParseFails
      <4>1. diff_files[1].whole
        BY <2>3, <3>1 DEF Closed
      <4> QED
        BY <3>1, <4>1 DEF ParseFails
    <3>5. ~ Streamed.failed /\ Streamed.queue = <<>>
      BY <2>8, <2>12, <3>3 DEF Streamed
    <3> QED
      BY <2>7, <2>8, <2>13, <3>3, <3>4, <3>5 DEF Success
  <2> QED
    BY <2>7, <2>8, <2>9, <2>13, <2>14, <2>15
<1>2. FilesSpec => []FilesInv
  BY InvHolds
<1> QED
  BY <1>1, <1>2, PTL
=============================================================================
