---------------------------- MODULE EntriesProofs ---------------------------
(***************************************************************************)
(* Lemmas about paths, their order, trees, sorted lists of entries, hashes *)
(* of directories, the difference of two trees and its application, for    *)
(* the proofs about the modules that use them.                             *)
(***************************************************************************)
EXTENDS Changes, TLAPS, WellFoundedInduction, FiniteSetTheorems

Smaller == {pair \in Nat \X Nat : pair[1] < pair[2]}

LEMMA SmallerIsWellFounded == IsWellFoundedOn(Smaller, Nat)
<1>1. OpToRel(<, Nat) = Smaller
  BY Zenon DEF OpToRel, Smaller
<1>2. IsWellFoundedOn(OpToRel(<, Nat), Nat)
  BY NatLessThanWellFounded, Zenon
<1> QED
  BY <1>1, <1>2, Zenon

\* A set of numbers with a member has a least one.
LEMMA HasLeast ==
    ASSUME NEW S, S \subseteq Nat, S # {}
    PROVE  \E n \in S : \A m \in S : n <= m
<1>1. PICK n \in S : \A m \in S : ~ (<<m, n>> \in Smaller)
  BY SmallerIsWellFounded, WFMin, Zenon
<1>2. \A m \in S : ~ (m < n)
  BY <1>1 DEF Smaller
<1> QED
  BY <1>2

----------------------------------------------------------------------------
(* The order of paths.                                                     *)

LEMMA SamePath ==
    ASSUME NEW p \in Seq(Nat), NEW q \in Seq(Nat), Len(p) = Len(q),
           \A k \in 1 .. Len(p) : p[k] = q[k]
    PROVE  p = q
  OBVIOUS

LEMMA PartOf ==
    ASSUME NEW p \in Seq(Nat), NEW n \in 0 .. Len(p), NEW q, q = SubSeq(p, 1, n)
    PROVE  q \in Seq(Nat) /\ Len(q) = n /\ \A k \in 1 .. n : q[k] = p[k]
  OBVIOUS

LEMMA ParentIs ==
    ASSUME NEW p \in Seq(Nat), p # root
    PROVE  /\ Len(p) \in Nat \ {0} /\ parent(p) = SubSeq(p, 1, Len(p) - 1)
           /\ parent(p) \in Seq(Nat) /\ Len(parent(p)) = Len(p) - 1
           /\ \A k \in 1 .. Len(p) - 1 : parent(p)[k] = p[k]
<1>1. Len(p) \in Nat \ {0}
  BY DEF root
<1>2. Len(p) - 1 \in 0 .. Len(p)
  BY <1>1
<1>3. parent(p) = SubSeq(p, 1, Len(p) - 1)
  BY DEF parent, Front
<1>4. PICK n \in 0 .. Len(p) : n = Len(p) - 1
  BY <1>2
<1>5. PICK q : q = parent(p)
  OBVIOUS
<1>6. q \in Seq(Nat) /\ Len(q) = n /\ \A k \in 1 .. n : q[k] = p[k]
  BY <1>3, <1>4, <1>5, PartOf
<1> QED
  BY <1>1, <1>3, <1>4, <1>5, <1>6

LEMMA ContainsIs ==
    ASSUME NEW d \in Seq(Nat), NEW p \in Seq(Nat)
    PROVE  contains(d, p) <=> /\ Len(d) < Len(p)
                              /\ \A k \in 1 .. Len(d) : d[k] = p[k]
<1>1. SubSeq(d, 1, Len(d)) = d
  OBVIOUS
<1>2. ASSUME contains(d, p)
      PROVE  Len(d) < Len(p) /\ \A k \in 1 .. Len(d) : d[k] = p[k]
  <2>1. Len(d) <= Len(p) /\ d = SubSeq(p, 1, Len(d)) /\ d # p
    BY <1>1, <1>2 DEF contains, IsStrictPrefix, IsPrefix
  <2>2. Len(d) # Len(p)
    BY <2>1
  <2>3. \A k \in 1 .. Len(d) : SubSeq(p, 1, Len(d))[k] = p[k]
    BY <2>1
  <2> QED
    BY <2>1, <2>2, <2>3
<1>3. ASSUME Len(d) < Len(p), \A k \in 1 .. Len(d) : d[k] = p[k]
      PROVE  contains(d, p)
  <2>1. PICK n : n = Len(d)
    OBVIOUS
  <2>2. PICK e : e = SubSeq(p, 1, n)
    OBVIOUS
  <2>3. e \in Seq(Nat) /\ Len(e) = n /\ \A k \in 1 .. n : e[k] = p[k]
    BY <1>3, <2>1, <2>2
  <2>4. e = d
    <3>1. \A k \in 1 .. n : e[k] = d[k]
      BY <1>3, <2>1, <2>3
    <3>2. d \in Seq(Nat) /\ Len(d) = n
      BY <2>1
    <3> QED
      BY <2>3, <3>1, <3>2
  <2> QED
    BY <1>1, <1>3, <2>1, <2>2, <2>4 DEF contains, IsStrictPrefix, IsPrefix
<1> QED
  BY <1>2, <1>3

\* Paths are alike up to i, where the first ends or is less.
PartAt(p, q, i) ==
    /\ i \in 1 .. Len(q) /\ i <= Len(p) + 1
    /\ \A k \in 1 .. i - 1 : p[k] = q[k]
    /\ i <= Len(p) => p[i] < q[i]

LEMMA LessIs ==
    ASSUME NEW p \in Seq(Nat), NEW q \in Seq(Nat)
    PROVE  Less(p, q) <=> \E i : PartAt(p, q, i)
<1>1. ASSUME NEW i, PartAt(p, q, i)
      PROVE  Less(p, q)
  <2>1. CASE i = Len(p) + 1
    <3>1. contains(p, q)
      BY <1>1, <2>1, ContainsIs DEF PartAt
    <3> QED
      BY <3>1 DEF Less, contains
  <2>2. CASE i # Len(p) + 1
    <3>1. i \in 1 .. Len(p) /\ i \in 1 .. Len(q) /\ p[i] < q[i]
      BY <1>1, <2>2 DEF PartAt
    <3>2. \A k \in 1 .. i - 1 : p[k] = q[k]
      BY <1>1 DEF PartAt
    <3>3. SubSeq(p, 1, i - 1) = SubSeq(q, 1, i - 1)
      BY <3>1, <3>2
    <3> QED
      BY <3>1, <3>3 DEF Less
  <2> QED
    BY <2>1, <2>2
<1>2. ASSUME IsStrictPrefix(p, q)
      PROVE  PartAt(p, q, Len(p) + 1)
  <2>1. contains(p, q)
    BY <1>2 DEF contains
  <2> QED
    BY <2>1, ContainsIs DEF PartAt
<1>3. ASSUME NEW i \in 1 .. Len(p), i <= Len(q),
             SubSeq(p, 1, i - 1) = SubSeq(q, 1, i - 1), p[i] < q[i]
      PROVE  PartAt(p, q, i)
  <2>1. ASSUME NEW k \in 1 .. i - 1
        PROVE  p[k] = q[k]
    <3>1. SubSeq(p, 1, i - 1)[k] = p[k] /\ SubSeq(q, 1, i - 1)[k] = q[k]
      BY <1>3, <2>1
    <3> QED
      BY <1>3, <3>1
  <2> QED
    BY <1>3, <2>1 DEF PartAt
<1> QED
  BY <1>1, <1>2, <1>3 DEF Less

LEMMA LessIrreflexive ==
    ASSUME NEW p \in Seq(Nat)
    PROVE  ~ Less(p, p)
<1>1. ASSUME NEW i, PartAt(p, p, i)
      PROVE  FALSE
  BY <1>1 DEF PartAt
<1> QED
  BY <1>1, LessIs

LEMMA LessTransitive ==
    ASSUME NEW p \in Seq(Nat), NEW q \in Seq(Nat), NEW r \in Seq(Nat),
           Less(p, q), Less(q, r)
    PROVE  Less(p, r)
<1>1. PICK i : PartAt(p, q, i)
  BY LessIs
<1>2. PICK j : PartAt(q, r, j)
  BY LessIs
<1>3. /\ i \in 1 .. Len(q) /\ i <= Len(p) + 1 /\ \A k \in 1 .. i - 1 : p[k] = q[k]
      /\ i <= Len(p) => p[i] < q[i]
  BY <1>1 DEF PartAt
<1>4. /\ j \in 1 .. Len(r) /\ j <= Len(q) + 1 /\ \A k \in 1 .. j - 1 : q[k] = r[k]
      /\ j <= Len(q) => q[j] < r[j]
  BY <1>2 DEF PartAt
<1>5. CASE i < j
  <2>1. q[i] = r[i] /\ i \in 1 .. Len(r)
    BY <1>3, <1>4, <1>5
  <2>2. \A k \in 1 .. i - 1 : p[k] = r[k]
    BY <1>3, <1>4, <1>5
  <2>3. PartAt(p, r, i)
    BY <1>3, <2>1, <2>2 DEF PartAt
  <2> QED
    BY <2>3, LessIs
<1>6. CASE j <= i
  <2>1. \A k \in 1 .. j - 1 : p[k] = r[k]
    BY <1>3, <1>4, <1>6
  <2>2. j \in 1 .. Len(q) /\ j \in 1 .. Len(r) /\ j <= i
    <3>1. i \in 1 .. Len(q) /\ j \in 1 .. Len(r)
      BY <1>3, <1>4
    <3> QED
      BY <1>6, <3>1
  <2>3. q[j] < r[j]
    BY <1>4, <2>2
  <2>4. ASSUME j <= Len(p)
        PROVE  p[j] < r[j]
    <3>1. j \in 1 .. Len(p)
      BY <2>2, <2>4
    <3>2. p[j] \in Nat /\ q[j] \in Nat /\ r[j] \in Nat
      <4>1. p[j] \in Nat
        BY <3>1
      <4>2. q[j] \in Nat
        BY <2>2
      <4>3. r[j] \in Nat
        BY <2>2
      <4> QED
        BY <4>1, <4>2, <4>3
    <3>3. CASE j = i
      <4>1. p[j] < q[j]
        BY <1>3, <2>4, <3>3
      <4>2. PICK k \in Nat, m \in Nat, n \in Nat : k = p[j] /\ m = q[j] /\ n = r[j]
        BY <3>2
      <4>3. k < m /\ m < n => k < n
        OBVIOUS
      <4> QED
        BY <2>3, <4>1, <4>2, <4>3
    <3>4. CASE j # i
      <4>1. j \in 1 .. i - 1
        BY <1>3, <2>2, <3>4
      <4>2. p[j] = q[j]
        BY <1>3, <4>1
      <4> QED
        BY <2>3, <4>2
    <3> QED
      BY <3>3, <3>4
  <2>5. PartAt(p, r, j)
    BY <1>3, <1>4, <1>6, <2>1, <2>4 DEF PartAt
  <2> QED
    BY <2>5, LessIs
<1> QED
  BY <1>3, <1>4, <1>5, <1>6

LEMMA LessTotal ==
    ASSUME NEW p \in Seq(Nat), NEW q \in Seq(Nat), p # q
    PROVE  Less(p, q) \/ Less(q, p)
<1> DEFINE S == {i \in Nat : /\ i >= 1
                             /\ \/ i > Len(p) \/ i > Len(q) \/ p[i] # q[i]}
<1>1. Len(p) + 1 \in S
  OBVIOUS
<1>2. PICK i \in S : \A m \in S : i <= m
  <2> HIDE DEF S
  <2>1. S \subseteq Nat
    BY DEF S
  <2> QED
    BY <1>1, <2>1, HasLeast
<1>3. ASSUME NEW k \in 1 .. i - 1
      PROVE  k <= Len(p) /\ k <= Len(q) /\ p[k] = q[k]
  <2>1. k \notin S
    BY <1>2, <1>3
  <2> QED
    BY <1>2, <1>3, <2>1
<1>4. i <= Len(p) + 1 /\ i <= Len(q) + 1
  <2>1. Len(q) + 1 \in S
    OBVIOUS
  <2> QED
    BY <1>1, <1>2, <2>1
<1>5. CASE i > Len(p) /\ i > Len(q)
  <2>1. Len(p) = i - 1 /\ Len(q) = i - 1
    BY <1>2, <1>4, <1>5
  <2>2. p = q
    BY <1>3, <2>1
  <2> QED
    BY <2>2
<1>6. CASE i <= Len(q) /\ (i <= Len(p) => p[i] < q[i])
  <2>1. PartAt(p, q, i)
    BY <1>2, <1>3, <1>4, <1>6 DEF PartAt
  <2> QED
    BY <2>1, LessIs
<1>7. CASE i <= Len(p) /\ (i <= Len(q) => q[i] < p[i])
  <2>1. PartAt(q, p, i)
    BY <1>2, <1>3, <1>4, <1>7 DEF PartAt
  <2> QED
    BY <2>1, LessIs
<1>8. i <= Len(p) /\ i <= Len(q) => p[i] # q[i] /\ p[i] \in Nat /\ q[i] \in Nat
  BY <1>2
<1> QED
  BY <1>2, <1>4, <1>5, <1>6, <1>7, <1>8

\* A directory comes right before all that is underneath.
LEMMA BelowIsGreater ==
    ASSUME NEW d \in Seq(Nat), NEW x \in Seq(Nat), contains(d, x)
    PROVE  Less(d, x)
  BY DEF Less, contains

LEMMA BelowIsNext ==
    ASSUME NEW d \in Seq(Nat), NEW x \in Seq(Nat), NEW y \in Seq(Nat),
           contains(d, x), Less(d, y), ~ contains(d, y)
    PROVE  Less(x, y)
<1>1. PICK i : PartAt(d, y, i)
  BY LessIs
<1>2. /\ i \in 1 .. Len(y) /\ i <= Len(d) + 1 /\ \A k \in 1 .. i - 1 : d[k] = y[k]
      /\ i <= Len(d) => d[i] < y[i]
  BY <1>1 DEF PartAt
<1>3. Len(d) < Len(x) /\ \A k \in 1 .. Len(d) : d[k] = x[k]
  BY ContainsIs
<1>4. i # Len(d) + 1
  <2> SUFFICES ASSUME i = Len(d) + 1 PROVE FALSE
    OBVIOUS
  <2>1. Len(d) < Len(y) /\ \A k \in 1 .. Len(d) : d[k] = y[k]
    BY <1>2
  <2> QED
    BY <2>1, ContainsIs
<1>5. i \in 1 .. Len(d) /\ i <= Len(x) /\ d[i] < y[i]
  BY <1>2, <1>3, <1>4
<1>6. \A k \in 1 .. i - 1 : x[k] = y[k]
  <2>1. \A k \in 1 .. i - 1 : k \in 1 .. Len(d)
    BY <1>5
  <2> QED
    BY <1>2, <1>3, <2>1
<1>7. x[i] < y[i]
  BY <1>3, <1>5
<1>8. PartAt(x, y, i)
  BY <1>2, <1>5, <1>6, <1>7 DEF PartAt
<1> QED
  BY <1>8, LessIs

----------------------------------------------------------------------------
(* Sorted lists.                                                           *)

\* Entries of which no two have one path.
PathsDistinct(entries) ==
    /\ \A e \in entries : e.path \in Seq(Nat)
    /\ \A e, f \in entries : e.path = f.path => e = f

\* A list of all entries of a set, in the order of paths.
Lists(list, entries) ==
    /\ list \in Seq(entries)
    /\ \A e \in entries : \E n \in 1 .. Len(list) : list[n] = e
    /\ \A m, n \in 1 .. Len(list) : m < n => Less(list[m].path, list[n].path)

LEMMA SeqOfLength ==
    ASSUME NEW S, NEW n \in Nat, NEW s \in [1 .. n -> S]
    PROVE  s \in Seq(S) /\ Len(s) = n
  OBVIOUS

\* An order on a set, given by the members below each.
Orders(lesser, set) ==
    /\ lesser \in [set -> SUBSET set]
    /\ \A x \in set : x \notin lesser[x]
    /\ \A x, y \in set : x \in lesser[y] => lesser[x] \subseteq lesser[y]
    /\ \A x, y \in set : x = y \/ x \in lesser[y] \/ y \in lesser[x]

\* A member's rank is below the number of members, and grows with it.
LEMMA RankOf ==
    ASSUME NEW set, IsFiniteSet(set), NEW lesser, Orders(lesser, set), NEW e \in set
    PROVE  /\ Cardinality(lesser[e]) \in Nat
           /\ Cardinality(lesser[e]) + 1 \in 1 .. Cardinality(set)
           /\ \A f \in lesser[e] : Cardinality(lesser[f]) < Cardinality(lesser[e])
<1>1. ASSUME NEW x \in set
      PROVE  /\ lesser[x] \in SUBSET set /\ IsFiniteSet(lesser[x])
             /\ Cardinality(lesser[x]) \in Nat /\ x \notin lesser[x]
  <2>1. lesser[x] \in SUBSET set /\ x \notin lesser[x]
    BY DEF Orders
  <2> QED
    BY <2>1, FS_Subset, FS_CardinalityType
<1>2. Cardinality(lesser[e]) <= Cardinality(set) /\ Cardinality(lesser[e]) # Cardinality(set)
  BY <1>1, FS_Subset
<1>3. Cardinality(set) \in Nat
  BY FS_CardinalityType
<1>4. ASSUME NEW f \in lesser[e]
      PROVE  Cardinality(lesser[f]) < Cardinality(lesser[e])
  <2>1. f \in set /\ lesser[f] \in SUBSET lesser[e] /\ f \notin lesser[f]
    BY <1>1 DEF Orders
  <2>2. lesser[f] # lesser[e]
    BY <2>1
  <2>3. Cardinality(lesser[f]) <= Cardinality(lesser[e])
        /\ Cardinality(lesser[f]) # Cardinality(lesser[e])
    BY <1>1, <2>1, <2>2, FS_Subset
  <2> QED
    BY <1>1, <2>1, <2>3
<1> QED
  BY <1>1, <1>2, <1>3, <1>4

\* Where a member has that rank, it is in that place.
Ranks(list, lesser, set) ==
    /\ list = [n \in 1 .. Cardinality(set) |-> list[n]]
    /\ \A n \in 1 .. Cardinality(set) :
         (\E e \in set : Cardinality(lesser[e]) = n - 1) =>
             list[n] \in set /\ Cardinality(lesser[list[n]]) = n - 1

\* A list in which every member follows as many as are below it has each
\* member once, and in order.
LEMMA RankedLists ==
    ASSUME NEW set, IsFiniteSet(set), NEW lesser, Orders(lesser, set),
           NEW list, Ranks(list, lesser, set)
    PROVE  /\ list \in Seq(set)
           /\ \A e \in set : \E n \in 1 .. Len(list) : list[n] = e
           /\ \A m, n \in 1 .. Len(list) : m < n => list[m] \in lesser[list[n]]
<1> DEFINE C == Cardinality(set)
           r == [e \in set |-> Cardinality(lesser[e]) + 1]
<1>1. C \in Nat
  BY FS_CardinalityType
<1>2. ASSUME NEW e \in set
      PROVE  /\ r[e] = Cardinality(lesser[e]) + 1 /\ r[e] \in 1 .. C
             /\ Cardinality(lesser[e]) \in Nat
  BY RankOf
<1>3. r \in [set -> 1 .. C]
  BY <1>2
<1>4. ASSUME NEW e \in set, NEW f \in set, e \in lesser[f]
      PROVE  r[e] < r[f]
  <2>1. Cardinality(lesser[e]) < Cardinality(lesser[f])
    BY <1>4, RankOf
  <2> HIDE DEF r
  <2> QED
    BY <1>2, <2>1
<1> HIDE DEF r
<1>5. ASSUME NEW e \in set, NEW f \in set, r[e] = r[f]
      PROVE  e = f
  <2>1. r[e] \in 1 .. C /\ r[f] \in 1 .. C
    BY <1>2
  <2>2. ~ (r[e] < r[f]) /\ ~ (r[f] < r[e])
    BY <1>5, <2>1
  <2>3. e \notin lesser[f] /\ f \notin lesser[e]
    BY <1>4, <2>2
  <2> QED
    BY <2>3 DEF Orders
<1>6. r \in Injection(set, 1 .. C)
  BY <1>3, <1>5 DEF Injection, IsInjective
<1>7. IsFiniteSet(1 .. C) /\ Cardinality(1 .. C) = C
  BY <1>1, FS_Interval
<1>8. r \in Surjection(set, 1 .. C)
  BY <1>6, <1>7, FS_Injection
<1>9. ASSUME NEW n \in 1 .. C
      PROVE  list[n] \in set /\ r[list[n]] = n
  <2>1. PICK e \in set : r[e] = n
    BY <1>8 DEF Surjection
  <2>2. Cardinality(lesser[e]) = n - 1
    BY <1>1, <1>2, <2>1
  <2>3. list[n] \in set /\ Cardinality(lesser[list[n]]) = n - 1
    BY <2>2 DEF Ranks
  <2> QED
    BY <1>1, <1>2, <2>3
<1>10. list \in Seq(set) /\ Len(list) = C
  <2>1. list \in [1 .. C -> set]
    BY <1>9 DEF Ranks
  <2> QED
    BY <1>1, <2>1, SeqOfLength
<1>11. ASSUME NEW e \in set
       PROVE  \E n \in 1 .. C : list[n] = e
  <2>1. PICK n : n = r[e]
    OBVIOUS
  <2>2. n \in 1 .. C
    BY <1>2, <2>1
  <2>3. list[n] \in set /\ r[list[n]] = n
    BY <1>9, <1>10, <2>2
  <2> QED
    BY <1>5, <2>1, <2>2, <2>3
<1>12. ASSUME NEW m \in 1 .. C, NEW n \in 1 .. C, m < n
       PROVE  list[m] \in lesser[list[n]]
  <2>1. /\ list[m] \in set /\ r[list[m]] = m
        /\ list[n] \in set /\ r[list[n]] = n
    BY <1>9, <1>10
  <2>2. list[m] # list[n]
    BY <1>12, <2>1
  <2>3. list[n] \notin lesser[list[m]]
    <3> SUFFICES ASSUME list[n] \in lesser[list[m]] PROVE FALSE
      OBVIOUS
    <3>1. n < m
      BY <1>4, <2>1
    <3> QED
      BY <1>12, <3>1
  <2> QED
    BY <2>1, <2>2, <2>3 DEF Orders
<1> QED
  BY <1>10, <1>11, <1>12

LEMMA AscendingLists ==
    ASSUME NEW entries, IsFiniteSet(entries), PathsDistinct(entries)
    PROVE  Lists(Ascending(entries), entries)
<1>1. PICK lesser : lesser = [e \in entries |-> {x \in entries : Less(x.path, e.path)}]
  OBVIOUS
<1>2. Orders(lesser, entries)
  <2>1. lesser \in [entries -> SUBSET entries]
    BY <1>1
  <2>2. \A x \in entries : x \notin lesser[x]
    BY <1>1, LessIrreflexive DEF PathsDistinct
  <2>3. ASSUME NEW x \in entries, NEW y \in entries, x \in lesser[y]
        PROVE  lesser[x] \subseteq lesser[y]
    BY <1>1, <2>3, LessTransitive DEF PathsDistinct
  <2>4. ASSUME NEW x \in entries, NEW y \in entries
        PROVE  x = y \/ x \in lesser[y] \/ y \in lesser[x]
    BY <1>1, LessTotal DEF PathsDistinct
  <2> QED
    BY <2>1, <2>2, <2>3, <2>4 DEF Orders
<1> DEFINE C == Cardinality(entries)
           choice(n) == CHOOSE e \in entries :
                          Cardinality({x \in entries : Less(x.path, e.path)}) = n - 1
<1>3. \A e \in entries : lesser[e] = {x \in entries : Less(x.path, e.path)}
  BY <1>1
<1>4. PICK pick : pick = [n \in 1 .. C |-> choice(n)]
  OBVIOUS
<1>5. pick = Ascending(entries)
  BY <1>4 DEF Ascending
<1>6. ASSUME NEW n \in 1 .. C, \E e \in entries : Cardinality(lesser[e]) = n - 1
      PROVE  choice(n) \in entries /\ Cardinality(lesser[choice(n)]) = n - 1
  <2>1. choice(n) \in entries
        /\ Cardinality({x \in entries : Less(x.path, choice(n).path)}) = n - 1
    BY <1>3, <1>6
  <2> HIDE DEF choice
  <2> QED
    BY <1>3, <2>1
<1> HIDE DEF choice
<1>7. /\ pick = [n \in 1 .. C |-> pick[n]]
      /\ \A n \in 1 .. C : pick[n] = choice(n)
  BY <1>4
<1>8. Ranks(pick, lesser, entries)
  BY <1>6, <1>7 DEF Ranks
<1>9. /\ pick \in Seq(entries)
      /\ \A e \in entries : \E n \in 1 .. Len(pick) : pick[n] = e
      /\ \A m, n \in 1 .. Len(pick) : m < n => pick[m] \in lesser[pick[n]]
  BY <1>2, <1>8, RankedLists
<1>10. ASSUME NEW m \in 1 .. Len(pick), NEW n \in 1 .. Len(pick), m < n
       PROVE  Less(pick[m].path, pick[n].path)
  <2>1. pick[n] \in entries /\ pick[m] \in lesser[pick[n]]
    BY <1>9, <1>10
  <2> QED
    BY <1>3, <2>1
<1> QED
  BY <1>5, <1>9, <1>10 DEF Lists

----------------------------------------------------------------------------
(* Hashes of directories.                                                  *)

LEMMA Bounded ==
    ASSUME NEW n \in Nat, NEW g \in [1 .. n -> Nat]
    PROVE  \E m \in Nat : \A i \in 1 .. n : g[i] <= m
<1> DEFINE Bad == {k \in 0 .. n : ~ \E m \in Nat : \A i \in 1 .. k : g[i] <= m}
<1>1. Bad \subseteq Nat /\ 0 \notin Bad
  OBVIOUS
<1>2. Bad = {}
  <2> SUFFICES ASSUME Bad # {} PROVE FALSE
    OBVIOUS
  <2>1. PICK k \in Bad : \A j \in Bad : k <= j
    <3> HIDE DEF Bad
    <3> QED
      BY <1>1, HasLeast
  <2>2. k \in 1 .. n
    BY <1>1
  <2>3. k - 1 \notin Bad /\ k - 1 \in 0 .. n
    <3> HIDE DEF Bad
    <3> QED
      BY <2>1, <2>2
  <2>4. PICK m \in Nat : \A i \in 1 .. k - 1 : g[i] <= m
    BY <2>3
  <2>5. g[k] \in Nat
    BY <2>2
  <2>6. ASSUME NEW i \in 1 .. k
        PROVE  g[i] <= m + g[k]
    <3>1. i \in 1 .. n
      BY <2>2
    <3>2. g[i] \in Nat
      BY <3>1
    <3>3. CASE i = k
      BY <2>5, <3>3
    <3>4. CASE i # k
      <4>1. i \in 1 .. k - 1
        BY <2>2, <3>4
      <4>2. g[i] <= m
        BY <2>4, <4>1
      <4> HIDE DEF Bad
      <4> QED
        BY <2>5, <3>2, <4>2
    <3> QED
      BY <3>3, <3>4
  <2>7. m + g[k] \in Nat
    <3> HIDE DEF Bad
    <3> QED
      BY <2>5
  <2>8. k \notin Bad
    BY <2>6, <2>7
  <2> QED
    BY <2>1, <2>8
<1>3. n \notin Bad
  BY <1>2
<1> QED
  BY <1>3

DirPaths(entries) == {e.path : e \in {e \in entries : e.kind = "Directory"}}

WellFormed(entries) ==
    /\ IsFiniteSet(entries)
    /\ PathsDistinct(entries)
    /\ \A e \in entries : e.kind \in EntryKind

LEMMA DepthBounded ==
    ASSUME NEW entries, WellFormed(entries)
    PROVE  \E m \in Nat : \A e \in entries : Len(e.path) <= m
<1>1. PICK n \in Nat : ExistsSurjection(1 .. n, entries)
  BY FS_NatSurjection DEF WellFormed
<1>2. PICK f \in Surjection(1 .. n, entries) : TRUE
  BY <1>1 DEF ExistsSurjection
<1>3. f \in [1 .. n -> entries] /\ \A e \in entries : \E i \in 1 .. n : f[i] = e
  BY <1>2 DEF Surjection
<1>4. PICK g : g = [i \in 1 .. n |-> Len(f[i].path)]
  OBVIOUS
<1>5. \A e \in entries : Len(e.path) \in Nat
  BY DEF WellFormed, PathsDistinct
<1>6. g \in [1 .. n -> Nat]
  BY <1>3, <1>4, <1>5
<1>7. PICK m \in Nat : \A i \in 1 .. n : g[i] <= m
  BY <1>6, Bounded
<1> QED
  BY <1>3, <1>4, <1>7

LEMMA SameHashes ==
    ASSUME NEW entries, \A e \in entries : e.kind \in EntryKind, NEW d, NEW f, NEW g,
           \A c \in Children(entries, d) : c.kind = "Directory" => f[c.path] = g[c.path]
    PROVE  HashOf(entries, d, f) = HashOf(entries, d, g)
<1>1. ASSUME NEW c \in Children(entries, d)
      PROVE  ContentOf(c, f) = ContentOf(c, g)
  <2>1. c.kind \in EntryKind
    BY DEF Children
  <2> QED
    BY <2>1 DEF ContentOf, EntryKind, Some
<1> QED
  BY <1>1, Zenon DEF HashOf

LEMMA DirHashesAre ==
    ASSUME NEW entries, WellFormed(entries)
    PROVE  DirHashes(entries) =
             [d \in DirPaths(entries) |-> HashOf(entries, d, DirHashes(entries))]
<1> DEFINE IsIt(f, dirs) == f = [d \in dirs |-> HashOf(entries, d, f)]
<1>1. PICK m \in Nat : \A e \in entries : Len(e.path) <= m
  BY DepthBounded
<1> DEFINE Dirs(n) == {d \in DirPaths(entries) : Len(d) + n > m}
           Bad == {n \in Nat : ~ \E f : IsIt(f, Dirs(n))}
<1>2. \A d \in DirPaths(entries) : d \in Seq(Nat) /\ Len(d) \in Nat /\ Len(d) <= m
  BY <1>1 DEF DirPaths, WellFormed, PathsDistinct
<1>3. 0 \notin Bad
  <2>1. Dirs(0) = {}
    BY <1>2
  <2>2. PICK f : f = [d \in {} |-> 0]
    OBVIOUS
  <2>3. IsIt(f, {})
    BY <2>2
  <2> QED
    BY <2>1, <2>3
<1>4. Bad = {}
  <2> SUFFICES ASSUME Bad # {} PROVE FALSE
    OBVIOUS
  <2>1. PICK n \in Bad : \A j \in Bad : n <= j
    <3>1. Bad \subseteq Nat
      OBVIOUS
    <3> HIDE DEF Bad
    <3> QED
      BY <3>1, HasLeast
  <2>2. n \in Nat /\ n # 0 /\ n - 1 \notin Bad /\ n - 1 \in Nat
    <3>1. n \in Nat
      OBVIOUS
    <3> HIDE DEF Bad
    <3> QED
      BY <1>3, <2>1, <3>1
  <2>3. PICK f : IsIt(f, Dirs(n - 1))
    BY <2>2
  <2>4. PICK g : g = [d \in Dirs(n) |-> HashOf(entries, d, f)]
    OBVIOUS
  <2>5. \A d \in Dirs(n - 1) : d \in Dirs(n) /\ g[d] = f[d]
    <3>1. ASSUME NEW d \in Dirs(n - 1)
          PROVE  d \in Dirs(n)
      BY <1>2, <2>2
    <3>2. ASSUME NEW d \in Dirs(n - 1)
          PROVE  f[d] = HashOf(entries, d, f)
      BY <2>3, Zenon
    <3> HIDE DEF Dirs
    <3> QED
      BY <2>4, <3>1, <3>2
  <2>6. ASSUME NEW d \in Dirs(n)
        PROVE  HashOf(entries, d, f) = HashOf(entries, d, g)
    <3>1. ASSUME NEW c \in Children(entries, d), c.kind = "Directory"
          PROVE  c.path \in Dirs(n - 1)
      <4>1. c \in entries /\ c.path # root /\ parent(c.path) = d
        BY DEF Children
      <4>2. c.path \in DirPaths(entries)
        BY <3>1, <4>1 DEF DirPaths
      <4>3. Len(d) + n > m /\ d \in Seq(Nat)
        BY <1>2
      <4>4. Len(c.path) = Len(d) + 1
        BY <1>2, <4>1, <4>2 DEF parent, Front, root
      <4> QED
        BY <2>2, <4>2, <4>3, <4>4
    <3> HIDE DEF Dirs
    <3> QED
      BY <2>5, <3>1, SameHashes DEF WellFormed
  <2>7. IsIt(g, Dirs(n))
    <3> HIDE DEF Dirs
    <3> QED
      BY <2>4, <2>6, Zenon
  <2> QED
    BY <2>1, <2>7
<1>5. \E f : IsIt(f, DirPaths(entries))
  <2>1. Dirs(m + 1) = DirPaths(entries)
    BY <1>2
  <2>2. m + 1 \in Nat /\ m + 1 \notin Bad
    <3> HIDE DEF Bad
    <3> QED
      BY <1>4
  <2> QED
    BY <2>1, <2>2
<1>6. DirHashes(entries) = CHOOSE f : IsIt(f, DirPaths(entries))
  BY DEF DirHashes, DirPaths
<1> HIDE DEF IsIt
<1>7. IsIt(DirHashes(entries), DirPaths(entries))
  BY <1>5, <1>6, Zenon
<1> QED
  BY <1>7 DEF IsIt

LEMMA ParentAndLast ==
    ASSUME NEW p \in Seq(Nat), NEW q \in Seq(Nat), p # root, q # root,
           parent(p) = parent(q), Last(p) = Last(q)
    PROVE  p = q
<1>1. ASSUME NEW r \in Seq(Nat), r # root
      PROVE  Len(parent(r)) = Len(r) - 1 /\ Len(r) \in Nat
  BY <1>1, ParentIs
<1>2. Len(p) = Len(q) /\ Len(p) \in Nat
  BY <1>1
<1>3. ASSUME NEW k \in 1 .. Len(p)
      PROVE  p[k] = q[k]
  <2>1. CASE k = Len(p)
    BY <1>2, <2>1 DEF Last
  <2>2. CASE k # Len(p)
    <3>1. SubSeq(p, 1, Len(p) - 1)[k] = p[k] /\ SubSeq(q, 1, Len(q) - 1)[k] = q[k]
      BY <1>2, <2>2
    <3> QED
      BY <3>1 DEF parent, Front
  <2> QED
    BY <2>1, <2>2
<1> QED
  BY <1>2, <1>3

\* What is strictly underneath a directory, is in it or in one underneath.
LEMMA ParentBelow ==
    ASSUME NEW d \in Seq(Nat), NEW p \in Seq(Nat), contains(d, p)
    PROVE  /\ p # root /\ parent(p) \in Seq(Nat) /\ Len(parent(p)) = Len(p) - 1
           /\ parent(p) = d \/ contains(d, parent(p))
<1>1. Len(d) < Len(p) /\ \A k \in 1 .. Len(d) : d[k] = p[k]
  BY ContainsIs
<1>2. p # root
  BY <1>1 DEF root
<1>3. PICK q : q = parent(p)
  OBVIOUS
<1>5. /\ q \in Seq(Nat) /\ Len(q) = Len(p) - 1
      /\ \A k \in 1 .. Len(p) - 1 : q[k] = p[k]
  BY <1>2, <1>3, ParentIs
<1>6. Len(d) <= Len(q) /\ \A k \in 1 .. Len(d) : d[k] = q[k]
  BY <1>1, <1>5
<1>7. CASE Len(d) = Len(q)
  <2>1. \A k \in 1 .. Len(q) : q[k] = d[k]
    BY <1>6, <1>7
  <2>2. q = d
    BY <1>5, <1>7, <2>1, SamePath
  <2> QED
    BY <1>2, <1>3, <1>5, <2>2
<1>8. CASE Len(d) < Len(q)
  <2>1. contains(d, q)
    BY <1>5, <1>6, <1>8, ContainsIs
  <2> QED
    BY <1>2, <1>3, <1>5, <2>1
<1> QED
  BY <1>5, <1>6, <1>7, <1>8

\* The entries of two sets that are alike, hashes of directories included.
Alike(e, a, f, b) ==
    /\ e.path = f.path /\ e.kind = f.kind /\ e.metadata = f.metadata
    /\ ContentOf(e, DirHashes(a)) = ContentOf(f, DirHashes(b))

LEMMA ChildrenAlike ==
    ASSUME NEW a, WellFormed(a), NEW b, WellFormed(b),
           NEW d \in DirPaths(a), d \in DirPaths(b),
           DirHashes(a)[d] = DirHashes(b)[d],
           NEW e \in Children(a, d)
    PROVE  \E f \in b : Alike(e, a, f, b)
<1>1. HashOf(a, d, DirHashes(a)) = HashOf(b, d, DirHashes(b))
  <2>1. DirHashes(a)[d] = HashOf(a, d, DirHashes(a))
    BY DirHashesAre
  <2>2. DirHashes(b)[d] = HashOf(b, d, DirHashes(b))
    BY DirHashesAre
  <2> QED
    BY <2>1, <2>2
<1> DEFINE item(c, s) == [name |-> Last(c.path), kind |-> c.kind,
                          metadata |-> c.metadata,
                          content |-> ContentOf(c, DirHashes(s))]
<1>2. item(e, a) \in HashOf(a, d, DirHashes(a))
  BY DEF HashOf
<1>3. PICK f \in Children(b, d) : item(e, a) = item(f, b)
  BY <1>1, <1>2 DEF HashOf
<1>4. /\ Last(e.path) = Last(f.path) /\ e.kind = f.kind /\ e.metadata = f.metadata
      /\ ContentOf(e, DirHashes(a)) = ContentOf(f, DirHashes(b))
  BY <1>3
<1>5. /\ e.path \in Seq(Nat) /\ e.path # root /\ parent(e.path) = d
      /\ f.path \in Seq(Nat) /\ f.path # root /\ parent(f.path) = d /\ f \in b
  BY DEF Children, WellFormed, PathsDistinct
<1>6. e.path = f.path
  BY <1>4, <1>5, ParentAndLast
<1> QED
  BY <1>4, <1>5, <1>6 DEF Alike

\* Where two directories of trees have one hash, all that is underneath is
\* alike: the hash hides nothing.
LEMMA BelowAlike ==
    ASSUME NEW a, WellFormed(a), IsTree(a), NEW b, WellFormed(b),
           NEW d \in DirPaths(a), d \in DirPaths(b),
           DirHashes(a)[d] = DirHashes(b)[d],
           NEW e \in a, contains(d, e.path)
    PROVE  \E f \in b : Alike(e, a, f, b)
<1> DEFINE Odd(x) == x \in a /\ contains(d, x.path) /\ ~ \E f \in b : Alike(x, a, f, b)
           Bad == {k \in Nat : \E x \in a : Odd(x) /\ Len(x.path) = k}
<1>1. d \in Seq(Nat) /\ \A x \in a : x.path \in Seq(Nat) /\ Len(x.path) \in Nat
  BY DEF WellFormed, PathsDistinct, DirPaths
<1>2. Bad = {}
  <2> SUFFICES ASSUME Bad # {} PROVE FALSE
    OBVIOUS
  <2>1. PICK k \in Bad : \A j \in Bad : k <= j
    <3>1. Bad \subseteq Nat
      OBVIOUS
    <3> HIDE DEF Bad
    <3> QED
      BY <3>1, HasLeast
  <2>2. PICK x \in a : Odd(x) /\ Len(x.path) = k
    OBVIOUS
  <2> PICK p : p = parent(x.path)
    OBVIOUS
  <2>3. /\ x.path # root /\ p \in Seq(Nat) /\ Len(p) = Len(x.path) - 1
        /\ p = d \/ contains(d, p)
    BY <1>1, <2>2, ParentBelow
  <2>4. PICK y \in a : y.path = p /\ y.kind = "Directory"
    BY <2>3 DEF IsTree, At
  <2>5. p \in DirPaths(a)
    BY <2>4 DEF DirPaths
  <2>6. p \in DirPaths(b) /\ DirHashes(a)[p] = DirHashes(b)[p]
    <3>1. CASE p = d
      BY <3>1
    <3>2. CASE contains(d, p)
      <4>1. Len(y.path) \notin Bad
        <5>1. Len(y.path) < k /\ Len(y.path) \in Nat /\ k \in Nat
          BY <1>1, <2>2, <2>3, <2>4
        <5> HIDE DEF Bad
        <5> QED
          BY <2>1, <5>1
      <4>2. PICK z \in b : Alike(y, a, z, b)
        BY <1>1, <2>4, <3>2, <4>1
      <4>3. z.path = p /\ z.kind = "Directory"
        BY <2>4, <4>2 DEF Alike
      <4>4. Some(DirHashes(a)[p]) = Some(DirHashes(b)[p])
        BY <2>4, <4>2, <4>3 DEF Alike, ContentOf
      <4> QED
        BY <4>3, <4>4 DEF DirPaths, Some
    <3> QED
      BY <2>3, <3>1, <3>2
  <2>7. x \in Children(a, p)
    BY <2>3 DEF Children
  <2>8. \E f \in b : Alike(x, a, f, b)
    BY <2>5, <2>6, <2>7, ChildrenAlike
  <2> QED
    BY <2>2, <2>8
<1>3. Len(e.path) \in Nat /\ Len(e.path) \notin Bad
  BY <1>1, <1>2
<1> QED
  BY <1>3

----------------------------------------------------------------------------
(* The difference of two sets of entries.                                  *)

Proper(e) ==
    /\ e.path \in Seq(Nat) /\ e.kind \in EntryKind
    /\ e.hash = None <=> e.kind # "File"
    /\ e.symlink_target = None <=> e.kind # "Symlink"
    /\ e.metadata.mtime \in Int

\* A list of the changes of a set, each once, in order.
Enumerates(list, set) ==
    /\ list \in Seq(set)
    /\ \A c \in set : \E k \in 1 .. Len(list) : list[k] = c
    /\ \A k, l \in 1 .. Len(list) : k < l => Precedes(list[k], list[l])

SamePlace(x, y) == x.path = y.path /\ x.kind = y.kind

\* The change between two entries, if any.
ModifiedEntry(x, y) ==
    [path |-> y.path, op |-> "Modified",
     new_metadata |-> IF ~ matches(x.metadata, y.metadata) \/ (x.hash # y.hash /\ y.kind = "File")
                      THEN Some(y.metadata) ELSE None,
     new_hash |-> IF x.hash # y.hash THEN y.hash ELSE None,
     has_content |-> x.hash # y.hash /\ y.kind = "File",
     new_symlink_target |-> IF x.symlink_target # y.symlink_target
                            THEN y.symlink_target ELSE None]

Equivalent(x, y) ==
    /\ matches(x.metadata, y.metadata)
    /\ x.hash = y.hash /\ x.symlink_target = y.symlink_target

LEMMA EntryDiffIs ==
    ASSUME NEW x, NEW y
    PROVE  compute_entry_diff(x, y) =
             IF Equivalent(x, y) THEN <<>> ELSE <<ModifiedEntry(x, y)>>
  BY DEF compute_entry_diff, Equivalent, ModifiedEntry

LEMMA ChangesOfIs ==
    ASSUME NEW b, NEW a, NEW c
    PROVE  c \in ChangesOf(b, a) <=>
             \/ \E x \in b : c = build_removed_change(x) /\ ~ \E y \in a : SamePlace(x, y)
             \/ \E y \in a : c = build_added_change(y) /\ ~ \E x \in b : SamePlace(x, y)
             \/ \E x \in b, y \in a : /\ SamePlace(x, y) /\ ~ Equivalent(x, y)
                                      /\ c = ModifiedEntry(x, y)
<1> DEFINE pairs == {xy \in b \X a : SamePlace(xy[1], xy[2])}
           diffs == UNION {ToSet(compute_entry_diff(xy[1], xy[2])) : xy \in pairs}
<1>1. \A x, y : c \in ToSet(compute_entry_diff(x, y)) <=>
                  ~ Equivalent(x, y) /\ c = ModifiedEntry(x, y)
  BY EntryDiffIs DEF ToSet
<1>2. c \in diffs <=> \E x \in b, y \in a : SamePlace(x, y) /\ ~ Equivalent(x, y)
                                              /\ c = ModifiedEntry(x, y)
  <2>1. c \in diffs <=> \E xy \in pairs : c \in ToSet(compute_entry_diff(xy[1], xy[2]))
    OBVIOUS
  <2>2. c \in diffs <=> \E xy \in pairs : ~ Equivalent(xy[1], xy[2])
                                            /\ c = ModifiedEntry(xy[1], xy[2])
    BY <1>1, <2>1
  <2>3. \A x \in b, y \in a : <<x, y>> \in pairs <=> SamePlace(x, y)
    OBVIOUS
  <2>4. \A xy \in pairs : /\ xy = <<xy[1], xy[2]>> /\ xy[1] \in b /\ xy[2] \in a
                          /\ SamePlace(xy[1], xy[2])
    OBVIOUS
  <2> HIDE DEF diffs, pairs
  <2>5. ASSUME NEW x \in b, NEW y \in a, SamePlace(x, y), ~ Equivalent(x, y),
               c = ModifiedEntry(x, y)
        PROVE  c \in diffs
    <3>1. PICK xy : xy = <<x, y>>
      OBVIOUS
    <3>2. xy \in pairs /\ xy[1] = x /\ xy[2] = y
      BY <2>3, <2>5, <3>1
    <3> QED
      BY <2>2, <2>5, <3>2
  <2> QED
    BY <2>2, <2>4, <2>5
<1>3. ChangesOf(b, a) =
        {build_removed_change(x) : x \in {x \in b : ~ \E y \in a : SamePlace(x, y)}}
        \cup {build_added_change(y) : y \in {y \in a : ~ \E x \in b : SamePlace(x, y)}}
        \cup diffs
  BY DEF ChangesOf, SamePlace
<1> HIDE DEF diffs
<1> QED
  BY <1>2, <1>3

LEMMA Listed ==
    ASSUME NEW list, NEW set, Enumerates(list, set)
    PROVE  /\ DOMAIN list = 1 .. Len(list) /\ Len(list) \in Nat
           /\ \A k \in DOMAIN list : list[k] \in set
           /\ \A c \in set : \E k \in DOMAIN list : list[k] = c
           /\ ToSet(list) = set
           /\ \A k, l \in DOMAIN list : k < l => Precedes(list[k], list[l])
<1>1. list \in Seq(set)
  BY DEF Enumerates
<1>2. /\ DOMAIN list = 1 .. Len(list) /\ Len(list) \in Nat
      /\ \A k \in DOMAIN list : list[k] \in set
  BY <1>1
<1>3. \A c \in set : \E k \in DOMAIN list : list[k] = c
  BY <1>2 DEF Enumerates
<1>4. ToSet(list) = set
  BY <1>2, <1>3 DEF ToSet
<1> QED
  BY <1>2, <1>3, <1>4 DEF Enumerates

\* The paths of a difference are those that differ.
LEMMA PathsThatChange ==
    ASSUME NEW b, NEW a, PathsDistinct(b), PathsDistinct(a), NEW p
    PROVE  (\E c \in ChangesOf(b, a) : c.path = p) <=>
             (\E e \in b \cup a : e.path = p) /\ Mismatch(p, b, a, {})
<1> DEFINE differ(x, y) == \/ x.kind # y.kind \/ x.hash # y.hash
                           \/ x.symlink_target # y.symlink_target
                           \/ ~ matches(x.metadata, y.metadata)
<1>1. Mismatch(p, b, a, {}) <=>
        \/ \A x \in b : x.path # p
        \/ \A y \in a : y.path # p
        \/ \E x \in b, y \in a : x.path = p /\ y.path = p /\ differ(x, y)
  BY DEF Mismatch, At
<1>2. \A x \in b, y \in a : x.path = p /\ y.path = p =>
        (differ(x, y) <=> ~ SamePlace(x, y) \/ ~ Equivalent(x, y))
  BY DEF SamePlace, Equivalent
<1> HIDE DEF differ
<1>3. ASSUME NEW c \in ChangesOf(b, a), c.path = p
      PROVE  (\E e \in b \cup a : e.path = p) /\ Mismatch(p, b, a, {})
  <2>1. CASE \E x \in b : c = build_removed_change(x) /\ ~ \E y \in a : SamePlace(x, y)
    <3>1. PICK x \in b : c = build_removed_change(x) /\ ~ \E y \in a : SamePlace(x, y)
      BY <2>1
    <3>2. x.path = p
      BY <1>3, <3>1 DEF build_removed_change
    <3> QED
      BY <1>1, <1>2, <3>1, <3>2
  <2>2. CASE \E y \in a : c = build_added_change(y) /\ ~ \E x \in b : SamePlace(x, y)
    <3>1. PICK y \in a : c = build_added_change(y) /\ ~ \E x \in b : SamePlace(x, y)
      BY <2>2
    <3>2. y.path = p
      BY <1>3, <3>1 DEF build_added_change
    <3> QED
      BY <1>1, <1>2, <3>1, <3>2
  <2>3. CASE \E x \in b, y \in a : /\ SamePlace(x, y) /\ ~ Equivalent(x, y)
                                   /\ c = ModifiedEntry(x, y)
    <3>1. PICK x \in b, y \in a : /\ SamePlace(x, y) /\ ~ Equivalent(x, y)
                                  /\ c = ModifiedEntry(x, y)
      BY <2>3
    <3>2. x.path = p /\ y.path = p
      BY <1>3, <3>1 DEF ModifiedEntry, SamePlace
    <3> QED
      BY <1>1, <1>2, <3>1, <3>2
  <2> QED
    BY <2>1, <2>2, <2>3, ChangesOfIs
<1>4. ASSUME NEW e \in b \cup a, e.path = p, Mismatch(p, b, a, {})
      PROVE  \E c \in ChangesOf(b, a) : c.path = p
  <2>1. CASE e \in b /\ ~ \E y \in a : SamePlace(e, y)
    <3>1. build_removed_change(e) \in ChangesOf(b, a)
      BY <2>1, ChangesOfIs
    <3> QED
      BY <1>4, <3>1 DEF build_removed_change
  <2>2. CASE e \in a /\ ~ \E x \in b : SamePlace(x, e)
    <3>1. build_added_change(e) \in ChangesOf(b, a)
      BY <2>2, ChangesOfIs
    <3> QED
      BY <1>4, <3>1 DEF build_added_change
  <2>3. ASSUME NEW x \in b, NEW y \in a, SamePlace(x, y), x = e \/ y = e
        PROVE  \E c \in ChangesOf(b, a) : c.path = p
    <3>1. x.path = p /\ y.path = p /\ x.kind = y.kind
      BY <1>4, <2>3 DEF SamePlace
    <3>2. PICK u \in b, v \in a : u.path = p /\ v.path = p /\ differ(u, v)
      BY <1>1, <1>4, <3>1
    <3>3. u = x /\ v = y
      BY <3>1, <3>2 DEF PathsDistinct
    <3>4. ~ Equivalent(x, y)
      BY <1>2, <2>3, <3>1, <3>2, <3>3
    <3>5. ModifiedEntry(x, y) \in ChangesOf(b, a)
      BY <2>3, <3>4, ChangesOfIs
    <3> QED
      BY <3>1, <3>5 DEF ModifiedEntry
  <2> QED
    BY <2>1, <2>2, <2>3
<1> QED
  BY <1>3, <1>4

\* Sets that share no path have their differences apart.
Apart(s, t) == \A e \in s, f \in t : e.path # f.path

LEMMA ChangesApart ==
    ASSUME NEW b, NEW a, NEW x, NEW y, Apart(b \cup a, x \cup y)
    PROVE  ChangesOf(b \cup x, a \cup y) = ChangesOf(b, a) \cup ChangesOf(x, y)
<1>1. /\ \A e \in b, f \in y : ~ SamePlace(e, f)
      /\ \A e \in x, f \in a : ~ SamePlace(e, f)
  BY DEF SamePlace, Apart
<1>2. ASSUME NEW c
      PROVE  c \in ChangesOf(b \cup x, a \cup y) <=> c \in ChangesOf(b, a) \/ c \in ChangesOf(x, y)
  <2>1. (\E e \in b \cup x : /\ c = build_removed_change(e)
                             /\ ~ \E f \in a \cup y : SamePlace(e, f))
        <=> \/ \E e \in b : c = build_removed_change(e) /\ ~ \E f \in a : SamePlace(e, f)
            \/ \E e \in x : c = build_removed_change(e) /\ ~ \E f \in y : SamePlace(e, f)
    BY <1>1
  <2>2. (\E f \in a \cup y : /\ c = build_added_change(f)
                             /\ ~ \E e \in b \cup x : SamePlace(e, f))
        <=> \/ \E f \in a : c = build_added_change(f) /\ ~ \E e \in b : SamePlace(e, f)
            \/ \E f \in y : c = build_added_change(f) /\ ~ \E e \in x : SamePlace(e, f)
    BY <1>1
  <2>3. (\E e \in b \cup x, f \in a \cup y : /\ SamePlace(e, f) /\ ~ Equivalent(e, f)
                                             /\ c = ModifiedEntry(e, f))
        <=> \/ \E e \in b, f \in a : /\ SamePlace(e, f) /\ ~ Equivalent(e, f)
                                     /\ c = ModifiedEntry(e, f)
            \/ \E e \in x, f \in y : /\ SamePlace(e, f) /\ ~ Equivalent(e, f)
                                     /\ c = ModifiedEntry(e, f)
    BY <1>1
  <2> DEFINE Gone(s, t) == \E e \in s : /\ c = build_removed_change(e)
                                        /\ ~ \E f \in t : SamePlace(e, f)
             Come(s, t) == \E f \in t : /\ c = build_added_change(f)
                                        /\ ~ \E e \in s : SamePlace(e, f)
             Other(s, t) == \E e \in s, f \in t : /\ SamePlace(e, f) /\ ~ Equivalent(e, f)
                                                  /\ c = ModifiedEntry(e, f)
  <2>4. \A s, t : c \in ChangesOf(s, t) <=> Gone(s, t) \/ Come(s, t) \/ Other(s, t)
    BY ChangesOfIs
  <2>5. /\ Gone(b \cup x, a \cup y) <=> Gone(b, a) \/ Gone(x, y)
        /\ Come(b \cup x, a \cup y) <=> Come(b, a) \/ Come(x, y)
        /\ Other(b \cup x, a \cup y) <=> Other(b, a) \/ Other(x, y)
    BY <2>1, <2>2, <2>3
  <2> HIDE DEF Gone, Come, Other
  <2> QED
    BY <2>4, <2>5
<1> QED
  BY <1>2

\* Every change is about the path of an entry.
LEMMA ChangePath ==
    ASSUME NEW b, NEW a, NEW c \in ChangesOf(b, a)
    PROVE  \E e \in b \cup a : c.path = e.path
  BY ChangesOfIs DEF build_removed_change, build_added_change, ModifiedEntry, SamePlace

LEMMA ImageFinite ==
    ASSUME NEW set, IsFiniteSet(set), NEW f, NEW image, image = {f[x] : x \in set}
    PROVE  IsFiniteSet(image)
<1>1. PICK g : g = [x \in set |-> f[x]]
  OBVIOUS
<1>2. g \in [set -> image] /\ \A y \in image : \E x \in set : g[x] = y
  BY <1>1
<1>3. g \in Surjection(set, image)
  BY <1>2 DEF Surjection
<1> QED
  BY <1>3, FS_Surjection

LEMMA ChangesFinite ==
    ASSUME NEW b, IsFiniteSet(b), NEW a, IsFiniteSet(a)
    PROVE  IsFiniteSet(ChangesOf(b, a))
<1>1. PICK removed, added, modified :
        /\ removed = {build_removed_change(x) : x \in b}
        /\ added = {build_added_change(y) : y \in a}
        /\ modified = {ModifiedEntry(xy[1], xy[2]) : xy \in b \X a}
  OBVIOUS
<1>2. IsFiniteSet(removed)
  <2>1. PICK f : f = [x \in b |-> build_removed_change(x)]
    OBVIOUS
  <2>2. removed = {f[x] : x \in b}
    BY <1>1, <2>1
  <2> QED
    BY <2>2, ImageFinite
<1>3. IsFiniteSet(added)
  <2>1. PICK f : f = [y \in a |-> build_added_change(y)]
    OBVIOUS
  <2>2. added = {f[y] : y \in a}
    BY <1>1, <2>1
  <2> QED
    BY <2>2, ImageFinite
<1>4. IsFiniteSet(modified)
  <2>1. PICK pairs : pairs = b \X a
    OBVIOUS
  <2>2. PICK f : f = [xy \in pairs |-> ModifiedEntry(xy[1], xy[2])]
    OBVIOUS
  <2>3. modified = {f[xy] : xy \in pairs}
    BY <1>1, <2>1, <2>2
  <2>4. IsFiniteSet(pairs)
    BY <2>1, FS_Product
  <2> QED
    BY <2>3, <2>4, ImageFinite
<1>5. IsFiniteSet((removed \cup added) \cup modified)
  <2>1. IsFiniteSet(removed \cup added)
    BY <1>2, <1>3, FS_Union
  <2> QED
    BY <1>4, <2>1, FS_Union
<1>6. ASSUME NEW c \in ChangesOf(b, a)
      PROVE  c \in (removed \cup added) \cup modified
  <2>1. ASSUME NEW x \in b, NEW y \in a, c = ModifiedEntry(x, y)
        PROVE  c \in modified
    <3>1. PICK xy : xy = <<x, y>>
      OBVIOUS
    <3>2. xy \in b \X a /\ xy[1] = x /\ xy[2] = y
      BY <3>1
    <3> QED
      BY <1>1, <2>1, <3>2
  <2> QED
    BY <1>1, <2>1, ChangesOfIs
<1> QED
  BY <1>5, <1>6, FS_Subset

\* Two changes of one path are a removal and what comes in its place.
LEMMA ChangesOrdered ==
    ASSUME NEW b, PathsDistinct(b), NEW a, PathsDistinct(a),
           NEW c \in ChangesOf(b, a), NEW d \in ChangesOf(b, a)
    PROVE  /\ c.path \in Seq(Nat)
           /\ c.op \in {"Removed", "Added", "Modified"}
           /\ c = d \/ Precedes(c, d) \/ Precedes(d, c)
<1>1. ASSUME NEW e \in ChangesOf(b, a)
      PROVE  \/ /\ e.op = "Removed"
                /\ \E x \in b : /\ e = build_removed_change(x) /\ e.path = x.path
                                 /\ ~ \E y \in a : SamePlace(x, y)
             \/ /\ e.op = "Added"
                /\ \E y \in a : /\ e = build_added_change(y) /\ e.path = y.path
                                 /\ ~ \E x \in b : SamePlace(x, y)
             \/ /\ e.op = "Modified"
                /\ \E x \in b, y \in a : /\ e = ModifiedEntry(x, y) /\ e.path = x.path
                                          /\ e.path = y.path /\ SamePlace(x, y)
  <2>1. \A x : build_removed_change(x).path = x.path /\ build_removed_change(x).op = "Removed"
    BY DEF build_removed_change
  <2>2. \A y : build_added_change(y).path = y.path /\ build_added_change(y).op = "Added"
    BY DEF build_added_change
  <2>3. \A x, y : ModifiedEntry(x, y).path = y.path /\ ModifiedEntry(x, y).op = "Modified"
    BY DEF ModifiedEntry
  <2>4. CASE \E x \in b : e = build_removed_change(x) /\ ~ \E y \in a : SamePlace(x, y)
    BY <2>1, <2>4
  <2>5. CASE \E y \in a : e = build_added_change(y) /\ ~ \E x \in b : SamePlace(x, y)
    BY <2>2, <2>5
  <2>6. CASE \E x \in b, y \in a : SamePlace(x, y) /\ e = ModifiedEntry(x, y)
    BY <2>3, <2>6 DEF SamePlace
  <2> QED
    BY <2>4, <2>5, <2>6, ChangesOfIs
<1>2. c.path \in Seq(Nat) /\ d.path \in Seq(Nat)
  <2>1. (\E e \in b \cup a : c.path = e.path) /\ (\E e \in b \cup a : d.path = e.path)
    BY ChangePath
  <2> QED
    BY <2>1 DEF PathsDistinct
<1> SUFFICES c = d \/ Precedes(c, d) \/ Precedes(d, c)
  BY <1>1, <1>2
<1>3. CASE c.path # d.path
  <2>1. PICK p, q : p = c.path /\ q = d.path
    OBVIOUS
  <2>2. Less(p, q) \/ Less(q, p)
    BY <1>2, <1>3, <2>1, LessTotal
  <2> QED
    BY <2>1, <2>2 DEF Precedes
<1>4. CASE c.path = d.path /\ c.op = d.op
  <2>1. ASSUME c.op = "Removed"
        PROVE  c = d
    <3>1. PICK x \in b : c = build_removed_change(x) /\ c.path = x.path
      BY <1>1, <2>1
    <3>2. PICK u \in b : d = build_removed_change(u) /\ d.path = u.path
      BY <1>1, <1>4, <2>1
    <3> QED
      BY <1>4, <3>1, <3>2 DEF PathsDistinct
  <2>2. ASSUME c.op = "Added"
        PROVE  c = d
    <3>1. PICK y \in a : c = build_added_change(y) /\ c.path = y.path
      BY <1>1, <2>2
    <3>2. PICK v \in a : d = build_added_change(v) /\ d.path = v.path
      BY <1>1, <1>4, <2>2
    <3> QED
      BY <1>4, <3>1, <3>2 DEF PathsDistinct
  <2>3. ASSUME c.op = "Modified"
        PROVE  c = d
    <3>1. PICK x \in b, y \in a : c = ModifiedEntry(x, y) /\ c.path = x.path /\ c.path = y.path
      BY <1>1, <2>3
    <3>2. PICK u \in b, v \in a : d = ModifiedEntry(u, v) /\ d.path = u.path /\ d.path = v.path
      BY <1>1, <1>4, <2>3
    <3>3. x = u /\ y = v
      BY <1>4, <3>1, <3>2 DEF PathsDistinct
    <3> QED
      BY <3>1, <3>2, <3>3
  <2> QED
    BY <1>1, <2>1, <2>2, <2>3
<1>5. CASE c.path = d.path /\ c.op # d.op
  <2>1. ASSUME NEW e \in ChangesOf(b, a), NEW f \in ChangesOf(b, a),
               e.path = f.path, e.op = "Modified", f.op # "Modified"
        PROVE  FALSE
    <3>1. PICK x \in b, y \in a : e.path = x.path /\ e.path = y.path /\ SamePlace(x, y)
      BY <1>1, <2>1
    <3>2. CASE \E u \in b : f.path = u.path /\ ~ \E v \in a : SamePlace(u, v)
      BY <2>1, <3>1, <3>2 DEF PathsDistinct
    <3>3. CASE \E v \in a : f.path = v.path /\ ~ \E u \in b : SamePlace(u, v)
      BY <2>1, <3>1, <3>3 DEF PathsDistinct
    <3> QED
      BY <1>1, <2>1, <3>2, <3>3
  <2>2. c.op # "Modified" /\ d.op # "Modified"
    BY <1>5, <2>1
  <2>3. c.op \in {"Removed", "Added", "Modified"} /\ d.op \in {"Removed", "Added", "Modified"}
    BY <1>1
  <2> QED
    BY <1>5, <2>2, <2>3 DEF Precedes
<1> QED
  BY <1>3, <1>4, <1>5

LEMMA DiffOfEnumerates ==
    ASSUME NEW b, IsFiniteSet(b), PathsDistinct(b), NEW a, IsFiniteSet(a), PathsDistinct(a)
    PROVE  Enumerates(DiffOf(b, a), ChangesOf(b, a))
<1>1. PICK changes : changes = ChangesOf(b, a)
  OBVIOUS
<1>2. IsFiniteSet(changes)
  BY <1>1, ChangesFinite
<1>3. PICK lesser : lesser = [c \in changes |-> {d \in changes : Precedes(d, c)}]
  OBVIOUS
<1>4. \A c \in changes : lesser[c] = {d \in changes : Precedes(d, c)}
  BY <1>3
<1>5. Orders(lesser, changes)
  <2>1. lesser \in [changes -> SUBSET changes]
    BY <1>3
  <2>2. \A c \in changes : c.path \in Seq(Nat) /\ c.op \in {"Removed", "Added", "Modified"}
    BY <1>1, ChangesOrdered
  <2>3. ASSUME NEW c \in changes
        PROVE  c \notin lesser[c]
    BY <1>4, <2>2, LessIrreflexive DEF Precedes
  <2>4. ASSUME NEW c \in changes, NEW d \in changes, c \in lesser[d],
               NEW e \in lesser[c]
        PROVE  e \in lesser[d]
    <3>1. e \in changes /\ Precedes(e, c) /\ Precedes(c, d)
      BY <1>4, <2>4
    <3>2. Precedes(e, d)
      BY <2>2, <3>1, LessTransitive DEF Precedes
    <3> QED
      BY <1>4, <3>1, <3>2
  <2>5. ASSUME NEW c \in changes, NEW d \in changes
        PROVE  c = d \/ c \in lesser[d] \/ d \in lesser[c]
    <3>1. c = d \/ Precedes(c, d) \/ Precedes(d, c)
      BY <1>1, ChangesOrdered
    <3> QED
      BY <1>4, <3>1
  <2> QED
    BY <2>1, <2>3, <2>4, <2>5 DEF Orders
<1> DEFINE C == Cardinality(changes)
           choice(n) == CHOOSE c \in changes :
                          Cardinality({d \in changes : Precedes(d, c)}) = n - 1
<1>6. PICK pick : pick = [n \in 1 .. C |-> choice(n)]
  OBVIOUS
<1>7. pick = DiffOf(b, a)
  BY <1>1, <1>6 DEF DiffOf
<1>8. ASSUME NEW n \in 1 .. C, \E c \in changes : Cardinality(lesser[c]) = n - 1
      PROVE  choice(n) \in changes /\ Cardinality(lesser[choice(n)]) = n - 1
  <2>1. choice(n) \in changes
        /\ Cardinality({d \in changes : Precedes(d, choice(n))}) = n - 1
    BY <1>4, <1>8
  <2> HIDE DEF choice
  <2> QED
    BY <1>4, <2>1
<1> HIDE DEF choice
<1>9. /\ pick = [n \in 1 .. C |-> pick[n]]
      /\ \A n \in 1 .. C : pick[n] = choice(n)
  BY <1>6
<1>10. Ranks(pick, lesser, changes)
  BY <1>8, <1>9 DEF Ranks
<1>11. /\ pick \in Seq(changes)
       /\ \A c \in changes : \E n \in 1 .. Len(pick) : pick[n] = c
       /\ \A m, n \in 1 .. Len(pick) : m < n => pick[m] \in lesser[pick[n]]
  BY <1>2, <1>5, <1>10, RankedLists
<1>12. ASSUME NEW m \in 1 .. Len(pick), NEW n \in 1 .. Len(pick), m < n
       PROVE  Precedes(pick[m], pick[n])
  <2>1. pick[n] \in changes /\ pick[m] \in lesser[pick[n]]
    BY <1>11, <1>12
  <2> QED
    BY <1>4, <2>1
<1>13. Enumerates(pick, changes)
  BY <1>11, <1>12 DEF Enumerates
<1> QED
  BY <1>1, <1>7, <1>13

\* Changes found past all that came before go to the end of the list.
LEMMA Appended ==
    ASSUME NEW b, NEW a, NEW x, NEW y, NEW list, Enumerates(list, ChangesOf(b, a)),
           NEW found, Enumerates(found, ChangesOf(x, y)),
           \A e \in b \cup a \cup x \cup y : e.path \in Seq(Nat),
           \A e \in b \cup a, f \in x \cup y : Less(e.path, f.path)
    PROVE  Enumerates(list \o found, ChangesOf(b \cup x, a \cup y))
<1>1. Apart(b \cup a, x \cup y)
  BY LessIrreflexive DEF Apart
<1>2. PICK C, D, all : /\ C = ChangesOf(b, a) /\ D = ChangesOf(x, y)
                       /\ all = ChangesOf(b \cup x, a \cup y)
  OBVIOUS
<1>3. all = C \cup D
  <2>1. ChangesOf(b \cup x, a \cup y) = ChangesOf(b, a) \cup ChangesOf(x, y)
    BY <1>1, ChangesApart
  <2> QED
    BY <1>2, <2>1
<1>4. \A c \in C, d \in D : Precedes(c, d)
  <2> SUFFICES ASSUME NEW c \in C, NEW d \in D PROVE Precedes(c, d)
    OBVIOUS
  <2>1. PICK e \in b \cup a : c.path = e.path
    BY <1>2, ChangePath
  <2>2. PICK f \in x \cup y : d.path = f.path
    BY <1>2, ChangePath
  <2> QED
    BY <2>1, <2>2 DEF Precedes
<1>5. /\ list \in Seq(C) /\ \A c \in C : \E k \in 1 .. Len(list) : list[k] = c
      /\ \A k, l \in 1 .. Len(list) : k < l => Precedes(list[k], list[l])
      /\ found \in Seq(D) /\ \A c \in D : \E k \in 1 .. Len(found) : found[k] = c
      /\ \A k, l \in 1 .. Len(found) : k < l => Precedes(found[k], found[l])
  BY <1>2 DEF Enumerates
<1>6. PICK both : both = list \o found
  OBVIOUS
<1>7. PICK m \in Nat, n \in Nat : m = Len(list) /\ n = Len(found)
  BY <1>5
<1>8. /\ both \in Seq(all) /\ Len(both) = m + n
      /\ \A k \in 1 .. m : both[k] = list[k] /\ list[k] \in C
      /\ \A k \in 1 .. n : both[m + k] = found[k] /\ found[k] \in D
  <2>1. list \in Seq(all) /\ found \in Seq(all)
    BY <1>3, <1>5
  <2> QED
    BY <1>5, <1>6, <1>7, <2>1
<1>9. ASSUME NEW c \in all
      PROVE  \E k \in 1 .. m + n : both[k] = c
  <2>1. CASE c \in C
    BY <1>5, <1>7, <1>8, <2>1
  <2>2. CASE c \in D
    <3>1. PICK k \in 1 .. n : found[k] = c
      BY <1>5, <1>7, <2>2
    <3> QED
      BY <1>8, <3>1
  <2> QED
    BY <1>3, <2>1, <2>2
<1>10. ASSUME NEW k \in 1 .. m + n, NEW l \in 1 .. m + n, k < l
       PROVE  Precedes(both[k], both[l])
  <2>1. CASE l <= m
    BY <1>5, <1>7, <1>8, <1>10, <2>1
  <2>2. CASE k <= m /\ m < l
    <3>1. PICK j \in 1 .. n : l = m + j
      BY <2>2
    <3>2. k \in 1 .. m
      BY <2>2
    <3> QED
      BY <1>4, <1>8, <3>1, <3>2
  <2>3. CASE m < k
    <3>1. PICK i \in 1 .. n, j \in 1 .. n : k = m + i /\ l = m + j
      <4>1. k - m \in 1 .. n /\ l - m \in 1 .. n /\ k = m + (k - m) /\ l = m + (l - m)
        BY <1>10, <2>3
      <4> QED
        BY <4>1
    <3>2. i < j
      BY <1>10, <3>1
    <3> QED
      BY <1>5, <1>7, <1>8, <3>1, <3>2
  <2> QED
    BY <1>10, <2>1, <2>2, <2>3
<1> QED
  BY <1>2, <1>6, <1>7, <1>8, <1>9, <1>10 DEF Enumerates

\* The differences of a merge step.
LEMMA NothingEnumerates ==
    ASSUME NEW set, set = {}
    PROVE  Enumerates(<<>>, set)
  BY DEF Enumerates

LEMMA OneEnumerates ==
    ASSUME NEW c, NEW set, set = {c}
    PROVE  Enumerates(<<c>>, set)
  BY DEF Enumerates

LEMMA OnlyOldChanges ==
    ASSUME NEW x
    PROVE  Enumerates(<<build_removed_change(x)>>, ChangesOf({x}, {}))
<1>1. \A c : c \in ChangesOf({x}, {}) <=> c = build_removed_change(x)
  BY ChangesOfIs
<1> QED
  BY <1>1, OneEnumerates

LEMMA OnlyNewChanges ==
    ASSUME NEW y
    PROVE  Enumerates(<<build_added_change(y)>>, ChangesOf({}, {y}))
<1>1. \A c : c \in ChangesOf({}, {y}) <=> c = build_added_change(y)
  BY ChangesOfIs
<1> QED
  BY <1>1, OneEnumerates

LEMMA KindChanges ==
    ASSUME NEW x, NEW y, x.path = y.path, x.kind # y.kind
    PROVE  Enumerates(<<build_removed_change(x), build_added_change(y)>>, ChangesOf({x}, {y}))
<1>1. PICK c, d : c = build_removed_change(x) /\ d = build_added_change(y)
  OBVIOUS
<1>2. ~ SamePlace(x, y)
  BY DEF SamePlace
<1>3. \A z : z \in ChangesOf({x}, {y}) <=> z = c \/ z = d
  BY <1>1, <1>2, ChangesOfIs
<1>4. ChangesOf({x}, {y}) = {c, d}
  BY <1>3
<1>5. Precedes(c, d)
  BY <1>1 DEF Precedes, build_removed_change, build_added_change
<1>6. Enumerates(<<c, d>>, {c, d})
  BY <1>5 DEF Enumerates
<1> QED
  BY <1>1, <1>4, <1>6

LEMMA EntryChanges ==
    ASSUME NEW x, NEW y, SamePlace(x, y)
    PROVE  Enumerates(compute_entry_diff(x, y), ChangesOf({x}, {y}))
<1>1. \A c : c \in ChangesOf({x}, {y}) <=> ~ Equivalent(x, y) /\ c = ModifiedEntry(x, y)
  BY ChangesOfIs
<1>2. CASE Equivalent(x, y)
  BY <1>1, <1>2, EntryDiffIs, NothingEnumerates
<1>3. CASE ~ Equivalent(x, y)
  <2>1. ChangesOf({x}, {y}) = {ModifiedEntry(x, y)}
    BY <1>1, <1>3
  <2> QED
    BY <1>3, <2>1, EntryDiffIs, OneEnumerates
<1> QED
  BY <1>2, <1>3

\* Sets of entries in which every entry has its like in the other.
Mirrored(x, y) ==
    /\ \A e \in x : \E f \in y : SamePlace(e, f) /\ Equivalent(e, f)
    /\ \A f \in y : \E e \in x : SamePlace(e, f) /\ Equivalent(e, f)

LEMMA MirroredChanges ==
    ASSUME NEW x, NEW y, SamePlace(x, y), NEW xs, NEW ys, Mirrored(xs, ys),
           \A e \in xs \cup ys : e.path # x.path,
           \A e, f \in ys : e.path = f.path => e = f
    PROVE  Enumerates(compute_entry_diff(x, y), ChangesOf({x} \cup xs, {y} \cup ys))
<1>1. ChangesOf(xs, ys) = {}
  <2> SUFFICES ASSUME NEW c \in ChangesOf(xs, ys) PROVE FALSE
    OBVIOUS
  <2>1. ASSUME NEW e \in xs, NEW f \in ys, SamePlace(e, f)
        PROVE  Equivalent(e, f)
    <3>1. PICK g \in ys : SamePlace(e, g) /\ Equivalent(e, g)
      BY DEF Mirrored
    <3>2. g = f
      BY <2>1, <3>1 DEF SamePlace
    <3> QED
      BY <3>1, <3>2
  <2>2. /\ \A e \in xs : \E f \in ys : SamePlace(e, f)
        /\ \A f \in ys : \E e \in xs : SamePlace(e, f)
    BY DEF Mirrored
  <2> QED
    BY <2>1, <2>2, ChangesOfIs
<1>2. PICK s, t : s = {x} /\ t = {y}
  OBVIOUS
<1>3. Apart(s \cup t, xs \cup ys)
  BY <1>2 DEF SamePlace, Apart
<1>4. ChangesOf(s \cup xs, t \cup ys) = ChangesOf(s, t) \cup ChangesOf(xs, ys)
  BY <1>3, ChangesApart
<1> QED
  BY <1>1, <1>2, <1>4, EntryChanges

----------------------------------------------------------------------------
(* Snapshots.                                                              *)

HashedEntries(tree) == {with_dir_hash(e, DirHashes(tree)) : e \in tree}
Under(entries, d) == {e \in entries : contains(d, e.path)}

LEMMA WithDirHash ==
    ASSUME NEW e, NEW hashes, NEW f, f = with_dir_hash(e, hashes)
    PROVE  /\ f.path = e.path /\ f.kind = e.kind /\ f.hash = e.hash
           /\ f.metadata = e.metadata /\ f.symlink_target = e.symlink_target
           /\ f.dir_hash = IF e.kind = "Directory" THEN Some(hashes[e.path]) ELSE None
  BY DEF with_dir_hash

LEMMA FileTrees ==
    ASSUME NEW tree, IsFileTree(tree)
    PROVE  WellFormed(tree) /\ IsTree(tree) /\ \A e \in tree : Proper(e)
<1>1. \A e \in tree : Proper(e)
  BY DEF IsFileTree, IsEntry, Proper
<1>2. WellFormed(tree)
  BY <1>1 DEF WellFormed, PathsDistinct, Proper, IsFileTree, IsTree
<1> QED
  BY <1>1, <1>2 DEF IsFileTree

LEMMA HashedFinite ==
    ASSUME NEW tree, IsFiniteSet(tree)
    PROVE  IsFiniteSet(HashedEntries(tree))
<1>1. PICK set, h : /\ set = HashedEntries(tree)
                    /\ h = [e \in tree |-> with_dir_hash(e, DirHashes(tree))]
  OBVIOUS
<1>2. /\ \A f \in set : \E e \in tree : f = h[e]
      /\ \A e \in tree : h[e] \in set
  BY <1>1 DEF HashedEntries
<1>3. h \in Surjection(tree, set)
  <2>1. h \in [tree -> set]
    BY <1>1, <1>2
  <2> QED
    BY <1>2, <2>1 DEF Surjection
<1> QED
  BY <1>1, <1>3, FS_Surjection

LEMMA SnapshotLists ==
    ASSUME NEW tree, WellFormed(tree)
    PROVE  /\ Lists(Snapshot(tree), HashedEntries(tree))
           /\ PathsDistinct(HashedEntries(tree))
           /\ (\A e \in tree : Proper(e)) => \A e \in HashedEntries(tree) : Proper(e)
<1> DEFINE set == HashedEntries(tree)
           h == [e \in tree |-> with_dir_hash(e, DirHashes(tree))]
<1>1. \A f \in set : \E e \in tree : f = h[e]
  BY DEF HashedEntries
<1>2. \A e \in tree : h[e] \in set /\ h[e] = with_dir_hash(e, DirHashes(tree))
  BY DEF HashedEntries
<1> HIDE DEF h
<1>3. PathsDistinct(set)
  BY <1>1, <1>2, WithDirHash DEF PathsDistinct, WellFormed
<1>4. ASSUME \A e \in tree : Proper(e), NEW f \in set
      PROVE  Proper(f)
  <2>1. PICK e \in tree : f = with_dir_hash(e, DirHashes(tree))
    BY DEF HashedEntries
  <2> QED
    BY <1>4, <2>1, WithDirHash DEF Proper
<1>5. IsFiniteSet(set)
  BY HashedFinite DEF WellFormed
<1>6. Lists(Ascending(set), set)
  BY <1>3, <1>5, AscendingLists
<1>7. Snapshot(tree) = Ascending(set)
  BY DEF Snapshot, HashedEntries
<1> QED
  BY <1>3, <1>4, <1>6, <1>7

LEMMA AlikeIsEquivalent ==
    ASSUME NEW a, NEW b, NEW e, NEW f, Proper(e), Proper(f), Alike(e, a, f, b),
           NEW x, x = with_dir_hash(e, DirHashes(a)),
           NEW y, y = with_dir_hash(f, DirHashes(b))
    PROVE  SamePlace(x, y) /\ Equivalent(x, y)
<1>1. /\ x.path = y.path /\ x.kind = y.kind /\ x.metadata = y.metadata
      /\ x.hash = e.hash /\ y.hash = f.hash
      /\ x.symlink_target = e.symlink_target /\ y.symlink_target = f.symlink_target
  BY WithDirHash DEF Alike
<1>2. matches(x.metadata, y.metadata)
  <2>1. x.metadata.mtime \in Int
    BY WithDirHash DEF Proper
  <2> QED
    BY <1>1, <2>1, ToleranceAssumption DEF matches, mtime_matches
<1>3. e.kind = f.kind /\ e.kind \in EntryKind
      /\ ContentOf(e, DirHashes(a)) = ContentOf(f, DirHashes(b))
  BY DEF Alike, Proper
<1>4. e.hash = f.hash
  BY <1>3 DEF ContentOf, EntryKind, Proper
<1>5. e.symlink_target = f.symlink_target
  BY <1>3 DEF ContentOf, EntryKind, Proper
<1> QED
  BY <1>1, <1>2, <1>4, <1>5 DEF SamePlace, Equivalent

\* Entries of one path and kind in two sets are proper.
Comparable(a, b) == \A e \in a, f \in b : SamePlace(e, f) => Proper(e) /\ Proper(f)

\* Where directories have one hash, what is in the subtree of one, in a tree,
\* has its like in that of the other.
LEMMA BelowEquivalent ==
    ASSUME NEW a, WellFormed(a), IsTree(a), NEW b, WellFormed(b), Comparable(a, b),
           NEW d, d \in DirPaths(a), d \in DirPaths(b), DirHashes(a)[d] = DirHashes(b)[d],
           NEW u \in Under(HashedEntries(a), d)
    PROVE  \E v \in Under(HashedEntries(b), d) :
             /\ SamePlace(u, v) /\ Equivalent(u, v)
             /\ Proper(u) /\ Proper(v)
<1>1. PICK e \in a : u = with_dir_hash(e, DirHashes(a))
  BY DEF HashedEntries, Under
<1>2. contains(d, e.path)
  BY <1>1, WithDirHash DEF Under
<1>3. PICK f \in b : Alike(e, a, f, b)
  BY <1>2, BelowAlike
<1>4. PICK v : v = with_dir_hash(f, DirHashes(b))
  OBVIOUS
<1>5. Proper(e) /\ Proper(f)
  BY <1>3 DEF Comparable, SamePlace, Alike
<1>6. SamePlace(u, v) /\ Equivalent(u, v)
  BY <1>1, <1>3, <1>4, <1>5, AlikeIsEquivalent
<1>7. v \in Under(HashedEntries(b), d)
  <2>1. v.path = e.path
    BY <1>3, <1>4, WithDirHash DEF Alike
  <2> QED
    BY <1>2, <1>4, <2>1 DEF Under, HashedEntries
<1>8. Proper(u) /\ Proper(v)
  BY <1>1, <1>4, <1>5, WithDirHash DEF Proper
<1> QED
  BY <1>6, <1>7, <1>8

LEMMA DirHashIs ==
    ASSUME NEW a, NEW x \in HashedEntries(a), x.kind = "Directory"
    PROVE  x.path \in DirPaths(a) /\ x.dir_hash = {DirHashes(a)[x.path]}
<1>1. PICK e \in a : x = with_dir_hash(e, DirHashes(a))
  BY DEF HashedEntries
<1>2. x.path = e.path /\ e.kind = "Directory" /\ x.dir_hash = Some(DirHashes(a)[e.path])
  BY <1>1, WithDirHash
<1> QED
  BY <1>2 DEF DirPaths, Some

LEMMA EquivalentBack ==
    ASSUME NEW u, Proper(u), NEW v, Proper(v), SamePlace(u, v), Equivalent(u, v)
    PROVE  SamePlace(v, u) /\ Equivalent(v, u)
<1>1. mtime_matches(v.metadata, u.metadata)
  BY ToleranceAssumption DEF Proper, Equivalent, matches, mtime_matches
<1> QED
  BY <1>1 DEF SamePlace, Equivalent, matches

\* Directories of one hash have their subtrees alike.
LEMMA HashMirrors ==
    ASSUME NEW a, IsFileTree(a), NEW b, IsFileTree(b),
           NEW x \in HashedEntries(a), NEW y \in HashedEntries(b), x.path = y.path,
           x.kind = "Directory", y.kind = "Directory", x.dir_hash = y.dir_hash
    PROVE  Mirrored(Under(HashedEntries(a), x.path), Under(HashedEntries(b), y.path))
<1>1. /\ WellFormed(a) /\ IsTree(a) /\ WellFormed(b) /\ IsTree(b)
      /\ Comparable(a, b) /\ Comparable(b, a)
  BY FileTrees DEF Comparable
<1>2. PICK d : d = x.path
  OBVIOUS
<1>3. d \in DirPaths(a) /\ d \in DirPaths(b) /\ DirHashes(a)[d] = DirHashes(b)[d]
  <2>1. d \in DirPaths(a) /\ x.dir_hash = {DirHashes(a)[d]}
    BY <1>2, DirHashIs
  <2>2. d \in DirPaths(b) /\ y.dir_hash = {DirHashes(b)[d]}
    BY <1>2, DirHashIs
  <2> QED
    BY <2>1, <2>2
<1>4. \A u \in Under(HashedEntries(a), d) :
        \E v \in Under(HashedEntries(b), d) : SamePlace(u, v) /\ Equivalent(u, v)
  BY <1>1, <1>3, BelowEquivalent
<1>5. \A u \in Under(HashedEntries(b), d) :
        \E v \in Under(HashedEntries(a), d) : SamePlace(v, u) /\ Equivalent(v, u)
  <2>1. ASSUME NEW u \in Under(HashedEntries(b), d)
        PROVE  \E v \in Under(HashedEntries(a), d) : SamePlace(v, u) /\ Equivalent(v, u)
    <3>1. PICK v \in Under(HashedEntries(a), d) :
            SamePlace(u, v) /\ Equivalent(u, v) /\ Proper(u) /\ Proper(v)
      BY <1>1, <1>3, BelowEquivalent
    <3> QED
      BY <3>1, EquivalentBack
  <2> QED
    BY <2>1
<1> QED
  BY <1>2, <1>4, <1>5 DEF Mirrored

----------------------------------------------------------------------------
(* The iterators.                                                          *)

Upto(list, i) == {list[k] : k \in 1 .. i - 1}
From(list, i) == {list[k] : k \in i .. Len(list)}
Between(list, i, j) == {list[k] : k \in i .. j - 1}

\* A list of entries in the order of their paths, which are sequences.
Sorted(list, set) == Lists(list, set) /\ \A e \in set : e.path \in Seq(Nat)

LEMMA SortedIs ==
    ASSUME NEW list, NEW set, Sorted(list, set)
    PROVE  /\ Len(list) \in Nat
           /\ \A k \in 1 .. Len(list) : list[k] \in set /\ list[k].path \in Seq(Nat)
           /\ \A e \in set : \E n \in 1 .. Len(list) : list[n] = e
           /\ \A m, n \in 1 .. Len(list) : m < n => Less(list[m].path, list[n].path)
<1>1. list \in Seq(set) /\ \A e \in set : e.path \in Seq(Nat)
  BY DEF Sorted, Lists
<1>2. Len(list) \in Nat /\ \A k \in 1 .. Len(list) : list[k] \in set
  BY <1>1
<1>3. /\ \A e \in set : \E n \in 1 .. Len(list) : list[n] = e
      /\ \A m, n \in 1 .. Len(list) : m < n => Less(list[m].path, list[n].path)
  BY Zenon DEF Sorted, Lists
<1> QED
  BY <1>1, <1>2, <1>3

LEMMA FromSubset ==
    ASSUME NEW list, NEW set, Sorted(list, set), NEW i \in Nat \ {0}
    PROVE  From(list, i) \subseteq set
<1>1. \A k \in i .. Len(list) : k \in 1 .. Len(list)
  BY SortedIs
<1> QED
  BY <1>1, SortedIs DEF From

LEMMA ListParts ==
    ASSUME NEW list, NEW set, Sorted(list, set),
           NEW i \in 1 .. Len(list) + 1, NEW j \in i .. Len(list) + 1,
           NEW xs, xs = Between(list, i, j)
    PROVE  /\ Upto(list, j) = Upto(list, i) \cup xs
           /\ From(list, i) = xs \cup From(list, j)
           /\ set = Upto(list, i) \cup From(list, i)
           /\ Apart(Upto(list, i), From(list, i))
           /\ \A e \in Upto(list, i), f \in xs : Less(e.path, f.path)
           /\ \A e \in xs, f \in From(list, j) : Less(e.path, f.path)
<1>1. PICK L \in Nat :
        /\ L = Len(list)
        /\ \A k \in 1 .. L : list[k] \in set /\ list[k].path \in Seq(Nat)
        /\ \A e \in set : \E n \in 1 .. L : list[n] = e
        /\ \A m, n \in 1 .. L : m < n => Less(list[m].path, list[n].path)
  BY SortedIs
<1>0. i \in 1 .. L + 1 /\ j \in i .. L + 1 /\ i \in Nat /\ j \in Nat
  BY <1>1
<1>2. Upto(list, j) = Upto(list, i) \cup xs
  <2>1. \A k : k \in 1 .. j - 1 <=> k \in 1 .. i - 1 \/ k \in i .. j - 1
    BY <1>0, <1>1
  <2> QED
    BY <2>1 DEF Upto, Between
<1>3. From(list, i) = xs \cup From(list, j)
  <2>1. \A k : k \in i .. L <=> k \in i .. j - 1 \/ k \in j .. L
    BY <1>0, <1>1
  <2> QED
    BY <1>1, <2>1 DEF From, Between
<1>4. set = Upto(list, i) \cup From(list, i)
  <2>1. \A k : k \in 1 .. L <=> k \in 1 .. i - 1 \/ k \in i .. L
    BY <1>0, <1>1
  <2> QED
    BY <1>1, <2>1 DEF Upto, From
<1>5. \A k \in 1 .. i - 1, l \in i .. L : Less(list[k].path, list[l].path)
  BY <1>0, <1>1
<1>6. Apart(Upto(list, i), From(list, i))
  <2>1. \A k \in 1 .. i - 1 : list[k].path \in Seq(Nat)
    BY <1>0, <1>1
  <2>2. \A e \in Upto(list, i), f \in From(list, i) : Less(e.path, f.path) /\ e.path \in Seq(Nat)
    BY <1>1, <1>5, <2>1 DEF Upto, From
  <2> QED
    BY <2>2, LessIrreflexive DEF Apart
<1>7. \A e \in Upto(list, i), f \in xs : Less(e.path, f.path)
  <2>1. \A k \in i .. j - 1 : k \in i .. L
    BY <1>0, <1>1
  <2> QED
    BY <1>5, <2>1 DEF Upto, Between
<1>8. \A k \in i .. j - 1, l \in j .. L : Less(list[k].path, list[l].path)
  BY <1>0, <1>1
<1>9. \A e \in xs, f \in From(list, j) : Less(e.path, f.path)
  BY <1>1, <1>8 DEF From, Between
<1> QED
  BY <1>2, <1>3, <1>4, <1>6, <1>7, <1>9

\* Two iterators over sorted lists that move together: nothing that is behind
\* on one side comes after, or at, what is ahead on the other.
Cuts(O, N, i, j) ==
    /\ i \in 1 .. Len(O) + 1
    /\ j \in 1 .. Len(N) + 1
    /\ \A e \in Upto(O, i), f \in From(N, j) : Less(e.path, f.path)
    /\ \A e \in Upto(N, j), f \in From(O, i) : Less(e.path, f.path)

\* What they pass in a step lies before all that is ahead.
Passes(O, N, i, j, k, l) ==
    /\ k \in i .. Len(O) + 1 /\ l \in j .. Len(N) + 1
    /\ \A e \in Between(O, i, k), f \in From(N, l) : Less(e.path, f.path)
    /\ \A e \in Between(N, j, l), f \in From(O, k) : Less(e.path, f.path)

LEMMA CutsFirst ==
    ASSUME NEW O, Len(O) \in Nat, NEW N, Len(N) \in Nat
    PROVE  Cuts(O, N, 1, 1) /\ Upto(O, 1) = {} /\ Upto(N, 1) = {}
<1>1. Upto(O, 1) = {} /\ Upto(N, 1) = {}
  BY DEF Upto
<1>2. 1 \in 1 .. Len(O) + 1 /\ 1 \in 1 .. Len(N) + 1
  OBVIOUS
<1> QED
  BY <1>1, <1>2 DEF Cuts

LEMMA CutsFurther ==
    ASSUME NEW O, NEW B, Sorted(O, B), NEW N, NEW A, Sorted(N, A),
           NEW i, NEW j, Cuts(O, N, i, j), NEW k, NEW l, Passes(O, N, i, j, k, l)
    PROVE  /\ Cuts(O, N, k, l)
           /\ Upto(O, k) = Upto(O, i) \cup Between(O, i, k)
           /\ Upto(N, l) = Upto(N, j) \cup Between(N, j, l)
           /\ \A e \in Upto(O, k) \cup Upto(N, l) : e.path \in Seq(Nat)
           /\ \A e \in Upto(O, i) \cup Upto(N, j), f \in Between(O, i, k) \cup Between(N, j, l) :
                Less(e.path, f.path)
<1>1. /\ i \in 1 .. Len(O) + 1 /\ j \in 1 .. Len(N) + 1
      /\ Len(O) \in Nat /\ Len(N) \in Nat
  BY SortedIs DEF Cuts
<1>2. PICK xs, ys : xs = Between(O, i, k) /\ ys = Between(N, j, l)
  OBVIOUS
<1>3. k \in i .. Len(O) + 1 /\ l \in j .. Len(N) + 1
  BY DEF Passes
<1>4. k \in 1 .. Len(O) + 1 /\ l \in 1 .. Len(N) + 1
  BY <1>1, <1>3
<1>5. /\ Upto(O, k) = Upto(O, i) \cup xs /\ From(O, i) = xs \cup From(O, k)
      /\ B = Upto(O, i) \cup From(O, i)
      /\ \A e \in Upto(O, i), f \in xs : Less(e.path, f.path)
  BY <1>1, <1>2, <1>3, ListParts
<1>6. /\ Upto(N, l) = Upto(N, j) \cup ys /\ From(N, j) = ys \cup From(N, l)
      /\ A = Upto(N, j) \cup From(N, j)
      /\ \A e \in Upto(N, j), f \in ys : Less(e.path, f.path)
  BY <1>1, <1>2, <1>3, ListParts
<1>7. /\ \A e \in Upto(O, i), f \in From(N, j) : Less(e.path, f.path)
      /\ \A e \in Upto(N, j), f \in From(O, i) : Less(e.path, f.path)
  BY DEF Cuts
<1>8. /\ \A e \in xs, f \in From(N, l) : Less(e.path, f.path)
      /\ \A e \in ys, f \in From(O, k) : Less(e.path, f.path)
  BY <1>2 DEF Passes
<1>9. /\ \A e \in Upto(O, k), f \in From(N, l) : Less(e.path, f.path)
      /\ \A e \in Upto(N, l), f \in From(O, k) : Less(e.path, f.path)
  BY <1>5, <1>6, <1>7, <1>8
<1>10. Cuts(O, N, k, l)
  BY <1>4, <1>9 DEF Cuts
<1>11. \A e \in Upto(O, k) \cup Upto(N, l) : e.path \in Seq(Nat)
  BY <1>5, <1>6 DEF Sorted
<1>12. \A e \in Upto(O, i) \cup Upto(N, j), f \in xs \cup ys : Less(e.path, f.path)
  BY <1>5, <1>6, <1>7
<1> QED
  BY <1>2, <1>5, <1>6, <1>10, <1>11, <1>12

\* What lies before and after an entry of a list.
LEMMA HeadOf ==
    ASSUME NEW list, NEW set, Sorted(list, set), NEW i \in 1 .. Len(list)
    PROVE  /\ i + 1 \in i .. Len(list) + 1
           /\ Between(list, i, i) = {}
           /\ Between(list, i, i + 1) = {list[i]}
           /\ list[i] \in From(list, i) /\ list[i] \in set
           /\ list[i].path \in Seq(Nat)
           /\ \A f \in From(list, i + 1) : Less(list[i].path, f.path)
           /\ \A f \in From(list, i) : f = list[i] \/ Less(list[i].path, f.path)
<1>1. PICK L \in Nat :
        /\ L = Len(list)
        /\ \A k \in 1 .. L : list[k] \in set /\ list[k].path \in Seq(Nat)
        /\ \A m, n \in 1 .. L : m < n => Less(list[m].path, list[n].path)
  BY SortedIs
<1>2. i \in 1 .. L /\ i \in Nat
  BY <1>1
<1>3. i + 1 \in i .. L + 1 /\ list[i] \in set /\ list[i].path \in Seq(Nat)
  BY <1>1, <1>2
<1>4. Between(list, i, i) = {} /\ Between(list, i, i + 1) = {list[i]}
  <2>1. \A k : k \in i .. i + 1 - 1 <=> k = i
    BY <1>2
  <2>2. i .. i - 1 = {}
    BY <1>2
  <2> QED
    BY <2>1, <2>2 DEF Between
<1>5. list[i] \in From(list, i)
  BY <1>1, <1>2 DEF From
<1>6. \A k \in i + 1 .. L : Less(list[i].path, list[k].path)
  BY <1>1, <1>2
<1>7. \A k \in i .. L : k = i \/ k \in i + 1 .. L
  BY <1>2
<1> QED
  BY <1>1, <1>3, <1>4, <1>5, <1>6, <1>7 DEF From

\* The first iterator passes an entry that comes before all of the second's.
LEMMA PassFirst ==
    ASSUME NEW O, NEW B, Sorted(O, B), NEW N, NEW A, Sorted(N, A),
           NEW i, NEW j, Cuts(O, N, i, j), i <= Len(O),
           j <= Len(N) => Less(O[i].path, N[j].path)
    PROVE  /\ Passes(O, N, i, j, i + 1, j)
           /\ Between(O, i, i + 1) = {O[i]} /\ Between(N, j, j) = {}
           /\ O[i] \in B
           /\ \A f \in A : f.path # O[i].path
<1>1. /\ i \in 1 .. Len(O) + 1 /\ j \in 1 .. Len(N) + 1
      /\ Len(O) \in Nat /\ Len(N) \in Nat
  BY SortedIs DEF Cuts
<1>2. i \in 1 .. Len(O)
  BY <1>1
<1>3. Between(N, j, j) = {} /\ j \in j .. Len(N) + 1
  BY <1>1 DEF Between
<1>4. PICK x : x = O[i]
  OBVIOUS
<1>5. /\ i + 1 \in i .. Len(O) + 1 /\ Between(O, i, i + 1) = {x}
      /\ x.path \in Seq(Nat) /\ x \in B /\ x \in From(O, i)
  BY <1>2, <1>4, HeadOf
<1>6. ASSUME NEW f \in From(N, j)
      PROVE  Less(x.path, f.path)
  <2>1. j \in 1 .. Len(N)
    BY <1>1 DEF From
  <2>2. PICK y : y = N[j]
    OBVIOUS
  <2>3. y.path \in Seq(Nat) /\ (f = y \/ Less(y.path, f.path))
    BY <2>1, <2>2, HeadOf
  <2>4. Less(x.path, y.path)
    BY <1>1, <1>4, <2>1, <2>2
  <2>5. f.path \in Seq(Nat)
    <3>1. From(N, j) \subseteq A
      BY <1>1, FromSubset
    <3> QED
      BY <3>1 DEF Sorted
  <2>6. CASE Less(y.path, f.path)
    BY <1>5, <2>3, <2>4, <2>5, <2>6, LessTransitive
  <2> QED
    BY <2>3, <2>4, <2>6
<1>7. Passes(O, N, i, j, i + 1, j)
  BY <1>3, <1>5, <1>6 DEF Passes
<1>8. ASSUME NEW f \in A
      PROVE  f.path # x.path
  <2>1. A = Upto(N, j) \cup From(N, j)
    BY <1>1, <1>3, ListParts
  <2>2. f.path \in Seq(Nat)
    BY DEF Sorted
  <2>3. CASE f \in From(N, j)
    BY <1>5, <1>6, <2>3, LessIrreflexive
  <2>4. CASE f \in Upto(N, j)
    <3>1. Less(f.path, x.path)
      BY <1>5, <2>4 DEF Cuts
    <3> QED
      BY <1>5, <3>1, LessIrreflexive
  <2> QED
    BY <2>1, <2>3, <2>4
<1> QED
  BY <1>3, <1>4, <1>5, <1>7, <1>8

LEMMA PassSecond ==
    ASSUME NEW O, NEW B, Sorted(O, B), NEW N, NEW A, Sorted(N, A),
           NEW i, NEW j, Cuts(O, N, i, j), j <= Len(N),
           i <= Len(O) => Less(N[j].path, O[i].path)
    PROVE  /\ Passes(O, N, i, j, i, j + 1)
           /\ Between(N, j, j + 1) = {N[j]} /\ Between(O, i, i) = {}
           /\ N[j] \in A
           /\ \A f \in B : f.path # N[j].path
<1>1. Cuts(N, O, j, i)
  BY DEF Cuts
<1>2. /\ Passes(N, O, j, i, j + 1, i)
      /\ Between(N, j, j + 1) = {N[j]} /\ Between(O, i, i) = {}
      /\ N[j] \in A /\ \A f \in B : f.path # N[j].path
  BY <1>1, PassFirst
<1> QED
  BY <1>2 DEF Passes

\* Both pass an entry of one path.
LEMMA PassBoth ==
    ASSUME NEW O, NEW B, Sorted(O, B), NEW N, NEW A, Sorted(N, A),
           NEW i, NEW j, Cuts(O, N, i, j), i <= Len(O), j <= Len(N), O[i].path = N[j].path
    PROVE  /\ Passes(O, N, i, j, i + 1, j + 1)
           /\ Between(O, i, i + 1) = {O[i]} /\ Between(N, j, j + 1) = {N[j]}
           /\ O[i] \in B /\ N[j] \in A
           /\ i \in 1 .. Len(O) /\ j \in 1 .. Len(N)
<1>1. i \in 1 .. Len(O) /\ j \in 1 .. Len(N)
  BY SortedIs DEF Cuts
<1>2. /\ i + 1 \in i .. Len(O) + 1 /\ Between(O, i, i + 1) = {O[i]}
      /\ O[i] \in B /\ \A f \in From(O, i + 1) : Less(O[i].path, f.path)
  BY <1>1, HeadOf
<1>3. /\ j + 1 \in j .. Len(N) + 1 /\ Between(N, j, j + 1) = {N[j]}
      /\ N[j] \in A /\ \A f \in From(N, j + 1) : Less(N[j].path, f.path)
  BY <1>1, HeadOf
<1> QED
  BY <1>1, <1>2, <1>3 DEF Passes

----------------------------------------------------------------------------
(* The entries compared.                                                   *)

LEMMA CachedHash ==
    ASSUME NEW e, NEW previous, NEW h, h = resolve_file_hash(e, previous)
    PROVE  \/ h = e.hash /\ Cached(e, previous) = {}
           \/ \E c \in Cached(e, previous) : h = c.hash
<1> DEFINE c == CHOOSE x \in Cached(e, previous) : TRUE
<1>1. CASE Cached(e, previous) = {}
  BY <1>1 DEF resolve_file_hash
<1>2. CASE Cached(e, previous) # {}
  <2>1. c \in Cached(e, previous)
    BY <1>2
  <2>2. h = c.hash
    BY <1>2 DEF resolve_file_hash
  <2> QED
    BY <2>1, <2>2
<1> QED
  BY <1>1, <1>2

\* What Walk makes of an entry.
WalkedAs(e, previous) ==
    [e EXCEPT !.hash = IF e.kind = "File" THEN resolve_file_hash(e, previous) ELSE None]

LEMMA WalkedEntry ==
    ASSUME NEW e, IsEntry(e), NEW previous, NEW f, f = WalkedAs(e, previous)
    PROVE  /\ IsEntry(f)
           /\ f.path = e.path /\ f.kind = e.kind /\ f.metadata = e.metadata
           /\ f.symlink_target = e.symlink_target
           /\ f.hash = IF e.kind = "File" THEN resolve_file_hash(e, previous) ELSE None
<1>1. PICK h : h = IF e.kind = "File" THEN resolve_file_hash(e, previous) ELSE None
  OBVIOUS
<1>2. f = [e EXCEPT !.hash = h]
  BY <1>1 DEF WalkedAs
<1>3. PICK p, k, g, t, z, m, u :
        e = [path |-> p, kind |-> k, hash |-> g, symlink_target |-> t,
             metadata |-> [size |-> z, mode |-> m, mtime |-> u]]
  BY DEF IsEntry
<1>4. f = [path |-> p, kind |-> k, hash |-> h, symlink_target |-> t,
           metadata |-> [size |-> z, mode |-> m, mtime |-> u]]
  BY <1>2, <1>3
<1>5. p \in Seq(Nat) /\ k \in EntryKind
  BY <1>3 DEF IsEntry
<1> QED
  BY <1>1, <1>3, <1>4, <1>5 DEF IsEntry

\* A walk with a cache of files that have hashes finds a file tree.
LEMMA WalkedTree ==
    ASSUME NEW tree, IsFileTree(tree), NEW previous, \A c \in previous : Proper(c)
    PROVE  IsFileTree(Walk(tree, previous))
<1> DEFINE set == Walk(tree, previous)
           w == [e \in tree |-> WalkedAs(e, previous)]
<1>1. \A e \in tree : w[e] = WalkedAs(e, previous)
  OBVIOUS
<1>2. set = {WalkedAs(e, previous) : e \in tree}
  BY DEF Walk, WalkedAs
<1>3. /\ \A f \in set : \E e \in tree : f = w[e]
      /\ \A e \in tree : w[e] \in set
  BY <1>1, <1>2
<1>4. IsFiniteSet(set)
  <2>1. w \in [tree -> set]
    BY <1>3
  <2>2. w \in Surjection(tree, set)
    BY <1>3, <2>1 DEF Surjection
  <2> QED
    BY <2>2, FS_Surjection DEF IsFileTree
<1>5. ASSUME NEW e \in tree
      PROVE  /\ IsEntry(w[e])
             /\ w[e].path = e.path /\ w[e].kind = e.kind /\ w[e].metadata = e.metadata
             /\ w[e].symlink_target = e.symlink_target
             /\ w[e].hash = None <=> e.kind # "File"
  <2>1. IsEntry(e) /\ (e.hash = None <=> e.kind # "File")
    BY DEF IsFileTree
  <2>2. /\ IsEntry(w[e])
        /\ w[e].path = e.path /\ w[e].kind = e.kind /\ w[e].metadata = e.metadata
        /\ w[e].symlink_target = e.symlink_target
        /\ w[e].hash = IF e.kind = "File" THEN resolve_file_hash(e, previous) ELSE None
    BY <1>1, <2>1, WalkedEntry
  <2>3. CASE e.kind = "File"
    <3>1. PICK h : h = resolve_file_hash(e, previous)
      OBVIOUS
    <3>2. h # None
      BY <2>1, <2>3, <3>1, CachedHash DEF Cached, Proper
    <3> QED
      BY <2>2, <2>3, <3>1, <3>2
  <2> QED
    BY <2>2, <2>3
<1> HIDE DEF w, set
<1>6. \A f \in set : /\ IsEntry(f)
                     /\ f.hash = None <=> f.kind # "File"
                     /\ f.symlink_target = None <=> f.kind # "Symlink"
                     /\ f.metadata.mtime \in Int
                     /\ f.kind # "File" => f.metadata.size = 0
  BY <1>3, <1>5 DEF IsFileTree
<1>7. IsTree(set)
  <2>1. ASSUME NEW e \in set, NEW f \in set, e.path = f.path
        PROVE  e = f
    BY <1>3, <1>5, <2>1 DEF IsFileTree, IsTree
  <2>2. ASSUME NEW e \in set, e.path # root
        PROVE  \E d \in At(set, parent(e.path)) : d.kind = "Directory"
    <3>1. PICK x \in tree : e = w[x]
      BY <1>3
    <3>2. PICK d \in At(tree, parent(x.path)) : d.kind = "Directory"
      BY <1>5, <2>2, <3>1 DEF IsFileTree, IsTree
    <3>3. d \in tree /\ d.path = parent(e.path)
      BY <1>5, <3>1, <3>2 DEF At
    <3>4. w[d] \in At(set, parent(e.path)) /\ w[d].kind = "Directory"
      BY <1>3, <1>5, <3>2, <3>3 DEF At
    <3> QED
      BY <3>4
  <2> QED
    BY <2>1, <2>2 DEF IsTree
<1>8. \E f \in set : f.path = root /\ f.kind = "Directory"
  <2>1. PICK e \in tree : e.path = root /\ e.kind = "Directory"
    BY DEF IsFileTree
  <2> QED
    BY <1>3, <1>5, <2>1
<1>9. IsFileTree(set)
  BY <1>4, <1>6, <1>7, <1>8 DEF IsFileTree
<1> QED
  BY <1>9 DEF set

----------------------------------------------------------------------------
(* Applying changes in memory.                                             *)

IsRecord(e) ==
    /\ e = [f \in DOMAIN e |-> e[f]]
    /\ {"path", "kind", "hash", "symlink_target", "metadata"} \subseteq DOMAIN e

IsUpdated(f, e, c) ==
    /\ IsRecord(f) /\ f.path = e.path /\ f.kind = e.kind
    /\ f.metadata = OrElse(c.new_metadata, e.metadata)
    /\ f.hash = IF c.new_hash = None THEN e.hash ELSE c.new_hash
    /\ f.symlink_target = IF c.new_symlink_target = None
                          THEN e.symlink_target ELSE c.new_symlink_target

LEMMA UpdatedIs ==
    ASSUME NEW e, IsRecord(e), NEW c, NEW f, f = Updated(e, c)
    PROVE  IsUpdated(f, e, c)
<1>1. PICK m, h, t :
        /\ m = OrElse(c.new_metadata, e.metadata)
        /\ h = IF c.new_hash = None THEN e.hash ELSE c.new_hash
        /\ t = IF c.new_symlink_target = None THEN e.symlink_target ELSE c.new_symlink_target
  OBVIOUS
<1>2. PICK g : g = [e EXCEPT !.metadata = m]
  OBVIOUS
<1>3. PICK j : j = [g EXCEPT !.hash = h]
  OBVIOUS
<1>4. f = [j EXCEPT !.symlink_target = t]
  <2>1. f = [e EXCEPT !.metadata = m, !.hash = h, !.symlink_target = t]
    BY <1>1 DEF Updated
  <2> QED
    BY <1>2, <1>3, <2>1
<1>5. /\ IsRecord(g) /\ g.path = e.path /\ g.kind = e.kind /\ g.metadata = m
      /\ g.hash = e.hash /\ g.symlink_target = e.symlink_target
  BY <1>2 DEF IsRecord
<1>6. /\ IsRecord(j) /\ j.path = e.path /\ j.kind = e.kind /\ j.metadata = m
      /\ j.hash = h /\ j.symlink_target = e.symlink_target
  BY <1>3, <1>5 DEF IsRecord
<1>7. /\ IsRecord(f) /\ f.path = e.path /\ f.kind = e.kind /\ f.metadata = m
      /\ f.hash = h /\ f.symlink_target = t
  BY <1>4, <1>6 DEF IsRecord
<1> QED
  BY <1>1, <1>7 DEF IsUpdated

\* Induction from one number up to another.
LEMMA Climb ==
    ASSUME NEW i \in Nat, NEW n \in Nat, i <= n, NEW S, i \in S,
           \A k \in i .. n - 1 : k \in S => k + 1 \in S
    PROVE  n \in S
<1> DEFINE Bad == {k \in i .. n : k \notin S}
<1>1. Bad \subseteq Nat
  OBVIOUS
<1> SUFFICES ASSUME Bad # {} PROVE FALSE
  OBVIOUS
<1>2. PICK k \in Bad : \A m \in Bad : k <= m
  <2> HIDE DEF Bad
  <2> QED
    BY <1>1, HasLeast
<1>3. k \in i .. n /\ k \notin S /\ k # i
  OBVIOUS
<1>4. k - 1 \in i .. n - 1 /\ k - 1 \in i .. n /\ ~ k <= k - 1
  BY <1>3
<1>5. k - 1 \in S
  BY <1>2, <1>4
<1>6. k - 1 + 1 = k
  BY <1>3
<1> QED
  BY <1>3, <1>4, <1>5, <1>6

\* The states that applying a list of changes goes through.
Through(st, state, list) ==
    /\ st[0] = state
    /\ \A n \in 1 .. Len(list) : st[n] = SimulateChange(st[n - 1], list[n])

LEMMA ApplySteps ==
    ASSUME NEW state, NEW list, Len(list) \in Nat
    PROVE  \E st : Through(st, state, list) /\ simulate_apply(state, list) = st[Len(list)]
<1>1. PICK L \in Nat : L = Len(list)
  OBVIOUS
<1> DEFINE IsIt(f, m) ==
             f = [n \in 0 .. m |-> IF n = 0 THEN state ELSE SimulateChange(f[n - 1], list[n])]
           Good == {m \in 0 .. L : \E f : IsIt(f, m)}
<1>2. 0 \in Good
  <2>1. PICK f : f = [n \in 0 .. 0 |-> state]
    OBVIOUS
  <2>2. \A n : n \in 0 .. 0 <=> n = 0
    OBVIOUS
  <2>3. IsIt(f, 0)
    BY <2>1, <2>2
  <2> QED
    BY <1>1, <2>3
<1>3. ASSUME NEW k \in 0 .. L - 1, k \in Good
      PROVE  k + 1 \in Good
  <2>1. PICK f : IsIt(f, k)
    BY <1>3
  <2>2. k \in Nat /\ k + 1 \in 0 .. L
    BY <1>1
  <2>3. PICK g : g = [n \in 0 .. k + 1 |->
                        IF n = 0 THEN state ELSE SimulateChange(f[n - 1], list[n])]
    OBVIOUS
  <2>4. \A n \in 0 .. k : g[n] = f[n]
    <3>1. \A n \in 0 .. k : n \in 0 .. k + 1
      BY <2>2
    <3>2. \A n \in 0 .. k : f[n] = IF n = 0 THEN state ELSE SimulateChange(f[n - 1], list[n])
      BY <2>1, Zenon
    <3> QED
      BY <2>3, <3>1, <3>2
  <2>5. ASSUME NEW n \in 0 .. k + 1, n # 0
        PROVE  SimulateChange(f[n - 1], list[n]) = SimulateChange(g[n - 1], list[n])
    <3>1. n - 1 \in 0 .. k
      BY <2>2, <2>5
    <3> QED
      BY <2>4, <3>1
  <2>6. IsIt(g, k + 1)
    <3>1. \A n \in 0 .. k + 1 :
            (IF n = 0 THEN state ELSE SimulateChange(f[n - 1], list[n]))
            = IF n = 0 THEN state ELSE SimulateChange(g[n - 1], list[n])
      BY <2>5
    <3> QED
      BY <2>3, <3>1, Zenon
  <2> HIDE DEF IsIt
  <2> QED
    BY <2>2, <2>6
<1>4. \E f : IsIt(f, L)
  <2>1. L \in Good
    <3> HIDE DEF Good
    <3> QED
      BY <1>2, <1>3, Climb
  <2> QED
    BY <2>1
<1> DEFINE st == CHOOSE f : IsIt(f, L)
<1>5. simulate_apply(state, list) = st[L]
  BY <1>1 DEF simulate_apply
<1>6. IsIt(st, L)
  <2> HIDE DEF IsIt
  <2> QED
    BY <1>4, Zenon
<1> HIDE DEF st
<1>7. \A n \in 0 .. L : st[n] = IF n = 0 THEN state ELSE SimulateChange(st[n - 1], list[n])
  BY <1>6, Zenon
<1>8. Through(st, state, list)
  <2>1. 0 \in 0 .. L /\ \A n \in 1 .. L : n \in 0 .. L /\ n # 0
    BY <1>1
  <2> QED
    BY <1>1, <1>7, <2>1 DEF Through
<1> QED
  BY <1>1, <1>5, <1>8

IsChange(c) ==
    /\ c.path \in Seq(Nat)
    /\ c.op \in {"Removed", "Added", "Modified"}
    /\ c.op = "Added" => IsRecord(c.entry) /\ c.entry.path = c.path

Recorded(state) == \A e \in state : IsRecord(e)

LEMMA OneChange ==
    ASSUME NEW state, Recorded(state), NEW c, IsChange(c),
           NEW next, next = SimulateChange(state, c)
    PROVE  /\ Recorded(next)
           /\ \A p : p # c.path => At(next, p) = At(state, p)
           /\ c.op = "Removed" => At(next, c.path) = {}
           /\ c.op = "Added" => At(next, c.path) = {c.entry}
           /\ c.op = "Modified" =>
                At(next, c.path) = {Updated(e, c) : e \in At(state, c.path)}
<1>1. PICK gone : gone = At(state, c.path)
  OBVIOUS
<1>2. \A e : e \in gone <=> e \in state /\ e.path = c.path
  BY <1>1 DEF At
<1>0. \A e \in state : IsRecord(e)
  BY DEF Recorded
<1>3. CASE c.op = "Removed"
  <2>1. next = state \ gone
    BY <1>1, <1>3 DEF SimulateChange
  <2> QED
    BY <1>0, <1>2, <1>3, <2>1 DEF At, Recorded
<1>4. CASE c.op = "Added"
  <2>1. next = (state \ gone) \cup {c.entry}
    BY <1>1, <1>4 DEF SimulateChange
  <2>2. IsRecord(c.entry) /\ c.entry.path = c.path
    BY <1>4 DEF IsChange
  <2> QED
    BY <1>0, <1>2, <1>4, <2>1, <2>2 DEF At, Recorded
<1>5. CASE c.op = "Modified"
  <2>1. PICK new : new = {Updated(e, c) : e \in gone}
    OBVIOUS
  <2>2. next = (state \ gone) \cup new
    BY <1>1, <1>5, <2>1 DEF SimulateChange
  <2>3. \A e \in new : IsRecord(e) /\ e.path = c.path
    <3>1. ASSUME NEW e \in gone, NEW f, f = Updated(e, c)
          PROVE  IsRecord(f) /\ f.path = c.path
      <4>1. IsRecord(e) /\ e.path = c.path
        BY <1>0, <1>2
      <4>2. IsRecord(f) /\ f.path = e.path
        BY <3>1, <4>1, UpdatedIs DEF IsUpdated
      <4> QED
        BY <4>1, <4>2
    <3> QED
      BY <2>1, <3>1
  <2>4. At(next, c.path) = new
    BY <1>2, <2>2, <2>3 DEF At
  <2>5. \A p : p # c.path => At(next, p) = At(state, p)
    BY <1>2, <2>2, <2>3 DEF At
  <2>6. Recorded(next)
    BY <1>0, <2>2, <2>3 DEF Recorded
  <2> QED
    BY <1>1, <1>5, <2>1, <2>4, <2>5, <2>6
<1> QED
  BY <1>3, <1>4, <1>5 DEF IsChange

\* A list of changes in order.
IsDiff(list) ==
    /\ Len(list) \in Nat
    /\ \A k \in 1 .. Len(list) : IsChange(list[k])
    /\ \A k, l \in 1 .. Len(list) : k < l => Precedes(list[k], list[l])

LEMMA StatesAre ==
    ASSUME NEW state, Recorded(state), NEW list, IsDiff(list),
           NEW st, Through(st, state, list)
    PROVE  \A n \in 0 .. Len(list) : Recorded(st[n])
<1>1. PICK L \in Nat : L = Len(list)
  BY DEF IsDiff
<1> DEFINE S == {n \in 0 .. L : Recorded(st[n])}
<1>2. 0 \in S
  BY <1>1 DEF Through
<1>3. ASSUME NEW k \in 0 .. L - 1, k \in S
      PROVE  k + 1 \in S
  <2>1. k + 1 \in 1 .. L /\ k + 1 - 1 = k /\ k + 1 \in 0 .. L
    BY <1>1
  <2>2. st[k + 1] = SimulateChange(st[k], list[k + 1]) /\ IsChange(list[k + 1])
    BY <1>1, <2>1 DEF Through, IsDiff
  <2>3. Recorded(st[k])
    BY <1>3
  <2>4. Recorded(st[k + 1])
    BY <2>2, <2>3, OneChange
  <2> QED
    BY <2>1, <2>4
<1>4. ASSUME NEW n \in 0 .. L
      PROVE  n \in S
  <2>1. \A k \in 0 .. n - 1 : k \in S => k + 1 \in S
    BY <1>1, <1>3
  <2> HIDE DEF S
  <2> QED
    BY <1>1, <1>2, <2>1, Climb
<1> QED
  BY <1>1, <1>4

\* No change after the first i, up to n, is about p.
Silent(list, i, n, p) == \A k \in i + 1 .. n : list[k].path # p

\* A path stays as it is while no change is about it.
LEMMA Untouched ==
    ASSUME NEW state, Recorded(state), NEW list, IsDiff(list),
           NEW st, Through(st, state, list), NEW p,
           NEW i \in Nat, NEW n \in Nat, i <= n, n <= Len(list),
           Silent(list, i, n, p)
    PROVE  At(st[n], p) = At(st[i], p)
<1>1. PICK L \in Nat : L = Len(list)
  BY DEF IsDiff
<1> DEFINE S == {k \in i .. n : At(st[k], p) = At(st[i], p)}
<1>2. i \in S
  OBVIOUS
<1>3. ASSUME NEW k \in i .. n - 1, k \in S
      PROVE  k + 1 \in S
  <2>1. k + 1 \in 1 .. L /\ k + 1 - 1 = k /\ k \in 0 .. L /\ k + 1 \in i + 1 .. n
        /\ k + 1 \in i .. n
    BY <1>1
  <2>2. st[k + 1] = SimulateChange(st[k], list[k + 1]) /\ IsChange(list[k + 1])
    BY <1>1, <2>1 DEF Through, IsDiff
  <2>3. Recorded(st[k])
    BY <1>1, <2>1, StatesAre
  <2>4. p # list[k + 1].path
    BY <2>1 DEF Silent
  <2>5. At(st[k + 1], p) = At(st[k], p)
    BY <2>2, <2>3, <2>4, OneChange
  <2> QED
    BY <1>3, <2>1, <2>5
<1>4. n \in S
  <2> HIDE DEF S
  <2> QED
    BY <1>2, <1>3, Climb
<1> QED
  BY <1>4

\* What becomes of a path, by the changes about it.
LEMMA AppliedAt ==
    ASSUME NEW state, Recorded(state), NEW list, IsDiff(list),
           NEW result, result = simulate_apply(state, list), NEW p
    PROVE  /\ Recorded(result)
           /\ (\A k \in 1 .. Len(list) : list[k].path # p) => At(result, p) = At(state, p)
           /\ \A k \in 1 .. Len(list) : list[k].path = p =>
                /\ list[k].op = "Added" => At(result, p) = {list[k].entry}
                /\ list[k].op = "Modified" =>
                     At(result, p) = {Updated(e, list[k]) : e \in At(state, p)}
                /\ list[k].op = "Removed"
                   /\ (\A l \in 1 .. Len(list) : list[l].path = p => list[l].op # "Added")
                     => At(result, p) = {}
<1>1. PICK L \in Nat : L = Len(list)
  BY DEF IsDiff
<1>2. PICK st : Through(st, state, list) /\ result = st[L]
  BY <1>1, ApplySteps
<1>3. Recorded(result)
  BY <1>1, <1>2, StatesAre
<1>4. ASSUME \A k \in 1 .. L : list[k].path # p
      PROVE  At(result, p) = At(state, p)
  <2>1. Silent(list, 0, L, p)
    BY <1>4 DEF Silent
  <2>2. st[0] = state
    BY <1>2 DEF Through
  <2>3. At(st[L], p) = At(st[0], p)
    BY <1>1, <1>2, <2>1, Untouched
  <2> QED
    BY <1>2, <2>2, <2>3
<1>5. ASSUME NEW k \in 1 .. L, NEW l \in 1 .. L, list[k].path = p, list[l].path = p, k < l
      PROVE  list[k].op = "Removed" /\ list[l].op = "Added"
  <2>1. Precedes(list[k], list[l]) /\ list[k].path \in Seq(Nat)
    BY <1>1, <1>5 DEF IsDiff, IsChange
  <2>2. ~ Less(list[k].path, list[l].path)
    BY <1>5, <2>1, LessIrreflexive
  <2> QED
    BY <2>1, <2>2 DEF Precedes
<1>6. ASSUME NEW k \in 1 .. L, list[k].path = p,
             \A l \in k + 1 .. L : list[l].path # p
      PROVE  /\ list[k].op = "Removed" => At(result, p) = {}
             /\ list[k].op = "Added" => At(result, p) = {list[k].entry}
             /\ list[k].op = "Modified" =>
                  At(result, p) = {Updated(e, list[k]) : e \in At(st[k - 1], p)}
  <2>1. st[k] = SimulateChange(st[k - 1], list[k]) /\ IsChange(list[k])
    BY <1>1, <1>2 DEF Through, IsDiff
  <2>2. Recorded(st[k - 1])
    <3>1. k - 1 \in 0 .. L
      OBVIOUS
    <3> QED
      BY <1>1, <1>2, <3>1, StatesAre
  <2>3. At(st[L], p) = At(st[k], p)
    <3>1. Silent(list, k, L, p)
      BY <1>6 DEF Silent
    <3> QED
      BY <1>1, <1>2, <3>1, Untouched
  <2> QED
    BY <1>2, <1>6, <2>1, <2>2, <2>3, OneChange
<1>7. ASSUME NEW k \in 1 .. L, list[k].path = p, list[k].op # "Removed"
      PROVE  \A l \in k + 1 .. L : list[l].path # p
  <2>1. \A l \in k + 1 .. L : l \in 1 .. L /\ k < l
    OBVIOUS
  <2> QED
    BY <1>5, <1>7, <2>1
<1>8. ASSUME NEW k \in 1 .. L, list[k].path = p, list[k].op = "Modified"
      PROVE  At(st[k - 1], p) = At(state, p)
  <2>1. Silent(list, 0, k - 1, p)
    <3>1. \A l \in 0 + 1 .. k - 1 : l \in 1 .. L /\ l < k
      BY <1>1
    <3> QED
      BY <1>5, <1>8, <3>1 DEF Silent
  <2>2. k - 1 \in Nat /\ 0 <= k - 1 /\ k - 1 <= L
    OBVIOUS
  <2>3. At(st[k - 1], p) = At(st[0], p)
    BY <1>1, <1>2, <2>1, <2>2, Untouched
  <2> QED
    BY <1>2, <2>3 DEF Through
<1>9. ASSUME NEW k \in 1 .. L, list[k].path = p, list[k].op = "Removed",
             \A l \in 1 .. L : list[l].path = p => list[l].op # "Added"
      PROVE  \A l \in k + 1 .. L : list[l].path # p
  <2>1. \A l \in k + 1 .. L : l \in 1 .. L /\ k < l
    OBVIOUS
  <2> QED
    BY <1>5, <1>9, <2>1
<1>10. ASSUME NEW k \in 1 .. L, list[k].path = p
       PROVE  /\ list[k].op = "Added" => At(result, p) = {list[k].entry}
              /\ list[k].op = "Modified" =>
                   At(result, p) = {Updated(e, list[k]) : e \in At(state, p)}
              /\ list[k].op = "Removed"
                 /\ (\A l \in 1 .. L : list[l].path = p => list[l].op # "Added")
                   => At(result, p) = {}
  <2>1. CASE list[k].op = "Added"
    BY <1>6, <1>7, <1>10, <2>1
  <2>2. CASE list[k].op = "Modified"
    BY <1>6, <1>7, <1>8, <1>10, <2>2
  <2>3. CASE list[k].op = "Removed" /\ \A l \in 1 .. L : list[l].path = p => list[l].op # "Added"
    BY <1>6, <1>9, <1>10, <2>3
  <2> QED
    BY <2>1, <2>2, <2>3
<1> QED
  BY <1>1, <1>3, <1>4, <1>10

\* What becomes of a path when the difference of two trees is applied, to
\* whatever there is.
LEMMA DiffAt ==
    ASSUME NEW b, PathsDistinct(b), NEW a, PathsDistinct(a), Recorded(a),
           NEW list, Enumerates(list, ChangesOf(b, a)),
           NEW state, Recorded(state), NEW result, result = simulate_apply(state, list), NEW p
    PROVE  /\ Recorded(result)
           /\ (\A c \in ChangesOf(b, a) : c.path # p) => At(result, p) = At(state, p)
           /\ \A y \in a : y.path = p /\ (\A x \in b : ~ SamePlace(x, y)) =>
                At(result, p) = {y}
           /\ \A x \in b : x.path = p /\ (\A y \in a : y.path # p) => At(result, p) = {}
           /\ \A x \in b, y \in a : x.path = p /\ SamePlace(x, y) /\ ~ Equivalent(x, y) =>
                At(result, p) = {Updated(e, ModifiedEntry(x, y)) : e \in At(state, p)}
<1>1. /\ DOMAIN list = 1 .. Len(list) /\ Len(list) \in Nat
      /\ \A k \in 1 .. Len(list) : list[k] \in ChangesOf(b, a)
      /\ \A c \in ChangesOf(b, a) : \E k \in 1 .. Len(list) : list[k] = c
      /\ \A k, l \in 1 .. Len(list) : k < l => Precedes(list[k], list[l])
  BY Listed
<1>2. ASSUME NEW c \in ChangesOf(b, a)
      PROVE  IsChange(c)
  <2>1. CASE \E x \in b : c = build_removed_change(x)
    BY <2>1 DEF build_removed_change, IsChange, PathsDistinct
  <2>2. CASE \E y \in a : c = build_added_change(y)
    BY <2>2 DEF build_added_change, IsChange, PathsDistinct, Recorded
  <2>3. CASE \E x \in b, y \in a : c = ModifiedEntry(x, y)
    BY <2>3 DEF ModifiedEntry, IsChange, PathsDistinct
  <2> QED
    BY <2>1, <2>2, <2>3, ChangesOfIs
<1>3. IsDiff(list)
  BY <1>1, <1>2 DEF IsDiff
<1>4. /\ Recorded(result)
      /\ (\A k \in 1 .. Len(list) : list[k].path # p) => At(result, p) = At(state, p)
      /\ \A k \in 1 .. Len(list) : list[k].path = p =>
           /\ list[k].op = "Added" => At(result, p) = {list[k].entry}
           /\ list[k].op = "Modified" =>
                At(result, p) = {Updated(e, list[k]) : e \in At(state, p)}
           /\ list[k].op = "Removed"
              /\ (\A l \in 1 .. Len(list) : list[l].path = p => list[l].op # "Added")
                => At(result, p) = {}
  BY <1>3, AppliedAt
<1>5. (\A c \in ChangesOf(b, a) : c.path # p) => At(result, p) = At(state, p)
  BY <1>1, <1>4
<1>6. ASSUME NEW y \in a, y.path = p, \A x \in b : ~ SamePlace(x, y)
      PROVE  At(result, p) = {y}
  <2>1. PICK c : c = build_added_change(y)
    OBVIOUS
  <2>2. c.path = p /\ c.op = "Added" /\ c.entry = y
    BY <1>6, <2>1 DEF build_added_change
  <2>3. c \in ChangesOf(b, a)
    BY <1>6, <2>1, ChangesOfIs
  <2> QED
    BY <1>1, <1>4, <2>2, <2>3
<1>7. ASSUME NEW x \in b, x.path = p, \A y \in a : y.path # p
      PROVE  At(result, p) = {}
  <2>1. PICK c : c = build_removed_change(x)
    OBVIOUS
  <2>2. c.path = p /\ c.op = "Removed"
    BY <1>7, <2>1 DEF build_removed_change
  <2>3. c \in ChangesOf(b, a)
    BY <1>7, <2>1, ChangesOfIs DEF SamePlace
  <2>4. \A d \in ChangesOf(b, a) : d.path = p => d.op # "Added"
    <3>1. ASSUME NEW d \in ChangesOf(b, a), d.path = p, d.op = "Added"
          PROVE  FALSE
      <4>1. CASE \E u \in b : d = build_removed_change(u)
        BY <3>1, <4>1 DEF build_removed_change
      <4>2. CASE \E y \in a : d = build_added_change(y)
        BY <1>7, <3>1, <4>2 DEF build_added_change
      <4>3. CASE \E u \in b, y \in a : d = ModifiedEntry(u, y)
        BY <3>1, <4>3 DEF ModifiedEntry
      <4> QED
        BY <4>1, <4>2, <4>3, ChangesOfIs
    <3> QED
      BY <3>1
  <2>5. PICK k \in 1 .. Len(list) : list[k] = c
    BY <1>1, <2>3
  <2>6. \A l \in 1 .. Len(list) : list[l].path = p => list[l].op # "Added"
    BY <1>1, <2>4
  <2> QED
    BY <1>4, <2>2, <2>5, <2>6
<1>8. ASSUME NEW x \in b, NEW y \in a, x.path = p, SamePlace(x, y), ~ Equivalent(x, y)
      PROVE  At(result, p) = {Updated(e, ModifiedEntry(x, y)) : e \in At(state, p)}
  <2>1. PICK c : c = ModifiedEntry(x, y)
    OBVIOUS
  <2>2. c.path = p /\ c.op = "Modified"
    BY <1>8, <2>1 DEF ModifiedEntry, SamePlace
  <2>3. c \in ChangesOf(b, a)
    BY <1>8, <2>1, ChangesOfIs
  <2>4. PICK k \in 1 .. Len(list) : list[k] = c
    BY <1>1, <2>3
  <2>5. At(result, p) = {Updated(e, list[k]) : e \in At(state, p)}
    BY <1>4, <2>2, <2>4
  <2> QED
    BY <2>1, <2>4, <2>5
<1> QED
  BY <1>4, <1>5, <1>6, <1>7, <1>8

\* A change between two entries makes the one the other, but for what was
\* equal enough.
LEMMA UpdatedFits ==
    ASSUME NEW x, NEW y, Proper(x), Proper(y), SamePlace(x, y),
           NEW e, IsRecord(e), NEW f, f = Updated(e, ModifiedEntry(x, y))
    PROVE  /\ IsRecord(f) /\ f.path = e.path /\ f.kind = e.kind
           /\ f.hash = IF x.hash = y.hash THEN e.hash ELSE y.hash
           /\ f.symlink_target = IF x.symlink_target = y.symlink_target
                                 THEN e.symlink_target ELSE y.symlink_target
           /\ f.metadata = IF ~ matches(x.metadata, y.metadata) \/ (x.hash # y.hash /\ y.kind = "File")
                           THEN y.metadata ELSE e.metadata
<1>1. PICK c : c = ModifiedEntry(x, y)
  OBVIOUS
<1>2. f = Updated(e, c)
  BY <1>1
<1>3. /\ IsRecord(f) /\ f.path = e.path /\ f.kind = e.kind
      /\ f.metadata = OrElse(c.new_metadata, e.metadata)
      /\ f.hash = IF c.new_hash = None THEN e.hash ELSE c.new_hash
      /\ f.symlink_target = IF c.new_symlink_target = None
                            THEN e.symlink_target ELSE c.new_symlink_target
  <2>1. IsUpdated(f, e, c)
    BY <1>2, UpdatedIs
  <2> QED
    BY <2>1 DEF IsUpdated
<1>4. x.hash # y.hash => y.hash # None
  BY DEF Proper, SamePlace
<1>5. x.symlink_target # y.symlink_target => y.symlink_target # None
  BY DEF Proper, SamePlace
<1>6. /\ c.new_hash = IF x.hash # y.hash THEN y.hash ELSE None
      /\ c.new_symlink_target = IF x.symlink_target # y.symlink_target
                                THEN y.symlink_target ELSE None
      /\ c.new_metadata = IF ~ matches(x.metadata, y.metadata) \/ (x.hash # y.hash /\ y.kind = "File")
                          THEN Some(y.metadata) ELSE None
  BY <1>1 DEF ModifiedEntry
<1>7. OrElse(None, e.metadata) = e.metadata
  BY DEF OrElse
<1>8. OrElse(Some(y.metadata), e.metadata) = y.metadata
  BY DEF OrElse, Some, None
<1>9. f.hash = IF x.hash = y.hash THEN e.hash ELSE y.hash
  BY <1>3, <1>4, <1>6
<1>10. f.symlink_target = IF x.symlink_target = y.symlink_target
                          THEN e.symlink_target ELSE y.symlink_target
  BY <1>3, <1>5, <1>6
<1>11. f.metadata = IF ~ matches(x.metadata, y.metadata) \/ (x.hash # y.hash /\ y.kind = "File")
                    THEN y.metadata ELSE e.metadata
  BY <1>3, <1>6, <1>7, <1>8
<1> QED
  BY <1>3, <1>9, <1>10, <1>11

\* Entries like those of another set, but for the metadata.
Resembles(s, b) ==
    /\ \A e \in s : \E x \in b : x.path = e.path
    /\ \A x \in b : \E e \in s : x.path = e.path
    /\ \A e \in s, x \in b : x.path = e.path =>
         e.kind = x.kind /\ e.hash = x.hash /\ e.symlink_target = x.symlink_target

\* The same, but that a hash may be that of a third set already.
NearlyResembles(s, b, a) ==
    /\ \A e \in s : \E x \in b : x.path = e.path
    /\ \A x \in b : \E e \in s : x.path = e.path
    /\ \A e \in s, x \in b : x.path = e.path =>
         /\ e.kind = x.kind /\ e.symlink_target = x.symlink_target
         /\ e.hash = x.hash \/ \A y \in a : SamePlace(x, y) => e.hash = y.hash

\* The difference of two trees makes one like the first one like the second;
\* metadata come from there, or stay where the two trees' match.
LEMMA DiffLeads ==
    ASSUME NEW b, PathsDistinct(b), \A x \in b : Proper(x),
           NEW a, PathsDistinct(a), \A y \in a : Proper(y), Recorded(a),
           NEW list, Enumerates(list, ChangesOf(b, a)),
           NEW s, Recorded(s), NearlyResembles(s, b, a),
           NEW result, result = simulate_apply(s, list)
    PROVE  /\ Resembles(result, a)
           /\ \A f \in result, y \in a : f.path = y.path =>
                \/ f.metadata = y.metadata
                \/ \E e \in s, x \in b :
                     /\ e.path = f.path /\ x.path = f.path
                     /\ f.metadata = e.metadata /\ matches(x.metadata, y.metadata)
<1>1. ASSUME NEW y \in a
      PROVE  /\ \E f \in result : f.path = y.path
             /\ \A f \in result : f.path = y.path =>
                  /\ f.kind = y.kind /\ f.hash = y.hash
                  /\ f.symlink_target = y.symlink_target
                  /\ \/ f.metadata = y.metadata
                     \/ \E e \in s, x \in b :
                          /\ e.path = f.path /\ x.path = f.path
                          /\ f.metadata = e.metadata /\ matches(x.metadata, y.metadata)
  <2>1. PICK p : p = y.path
    OBVIOUS
  <2>2. \A f : f \in At(result, p) <=> f \in result /\ f.path = p
    BY DEF At
  <2>3. CASE \A x \in b : ~ SamePlace(x, y)
    <3>1. At(result, p) = {y}
      BY <2>1, <2>3, DiffAt
    <3> QED
      BY <2>1, <2>2, <3>1
  <2>4. ASSUME NEW x \in b, SamePlace(x, y)
        PROVE  /\ \E f \in result : f.path = p
               /\ \A f \in result : f.path = p =>
                    /\ f.kind = y.kind /\ f.hash = y.hash
                    /\ f.symlink_target = y.symlink_target
                    /\ \/ f.metadata = y.metadata
                       \/ \E e \in s : /\ e.path = p /\ f.metadata = e.metadata
                                       /\ matches(x.metadata, y.metadata)
    <3>1. x.path = p /\ x.kind = y.kind /\ Proper(x) /\ Proper(y)
      BY <2>1, <2>4 DEF SamePlace
    <3>2. \A e : e \in At(s, p) <=> e \in s /\ e.path = p
      BY DEF At
    <3>3. \E e \in At(s, p) : TRUE
      BY <3>1, <3>2 DEF NearlyResembles
    <3>4. \A e \in At(s, p) : /\ IsRecord(e) /\ e.path = p /\ e.kind = x.kind
                              /\ e.hash = x.hash \/ e.hash = y.hash
                              /\ e.symlink_target = x.symlink_target
      BY <2>4, <3>1, <3>2 DEF NearlyResembles, Recorded
    <3>5. CASE Equivalent(x, y)
      <4>1. \A c \in ChangesOf(b, a) : c.path # p
        <5>1. ~ Mismatch(p, b, a, {})
          BY <2>1, <3>1, <3>5 DEF Mismatch, At, PathsDistinct, Equivalent
        <5> QED
          BY <5>1, PathsThatChange
      <4>2. At(result, p) = At(s, p)
        BY <4>1, DiffAt
      <4> QED
        BY <2>2, <3>1, <3>2, <3>3, <3>4, <3>5, <4>2 DEF Equivalent
    <3>6. CASE ~ Equivalent(x, y)
      <4>1. At(result, p) = {Updated(e, ModifiedEntry(x, y)) : e \in At(s, p)}
        BY <2>4, <3>1, <3>6, DiffAt
      <4>2. ASSUME NEW e \in At(s, p), NEW f, f = Updated(e, ModifiedEntry(x, y))
            PROVE  /\ f.kind = y.kind /\ f.hash = y.hash
                   /\ f.symlink_target = y.symlink_target
                   /\ \/ f.metadata = y.metadata
                      \/ f.metadata = e.metadata /\ matches(x.metadata, y.metadata)
        <5>1. /\ f.path = e.path /\ f.kind = e.kind
              /\ f.hash = IF x.hash = y.hash THEN e.hash ELSE y.hash
              /\ f.symlink_target = IF x.symlink_target = y.symlink_target
                                    THEN e.symlink_target ELSE y.symlink_target
              /\ f.metadata = IF ~ matches(x.metadata, y.metadata)
                                 \/ (x.hash # y.hash /\ y.kind = "File")
                              THEN y.metadata ELSE e.metadata
          BY <2>4, <3>1, <3>4, <4>2, UpdatedFits
        <5> QED
          BY <3>1, <3>4, <5>1
      <4> QED
        BY <2>2, <3>2, <3>3, <4>1, <4>2
    <3> QED
      BY <3>5, <3>6
  <2> QED
    BY <2>1, <2>3, <2>4 DEF SamePlace
<1>2. ASSUME NEW f \in result
      PROVE  \E y \in a : y.path = f.path
  <2> SUFFICES ASSUME \A y \in a : y.path # f.path PROVE FALSE
    OBVIOUS
  <2>1. PICK p : p = f.path
    OBVIOUS
  <2>2. f \in At(result, p)
    BY <2>1 DEF At
  <2>3. CASE \E x \in b : x.path = p
    <3>1. At(result, p) = {}
      BY <2>1, <2>3, DiffAt
    <3> QED
      BY <2>2, <3>1
  <2>4. CASE \A x \in b : x.path # p
    <3>1. \A c \in ChangesOf(b, a) : c.path # p
      BY <2>1, <2>4, ChangePath
    <3>2. At(result, p) = At(s, p)
      BY <3>1, DiffAt
    <3>3. f \in s /\ f.path = p
      BY <2>2, <3>2 DEF At
    <3> QED
      BY <2>4, <3>3 DEF NearlyResembles
  <2> QED
    BY <2>3, <2>4
<1> QED
  BY <1>1, <1>2 DEF Resembles

LEMMA HashedAreRecords ==
    ASSUME NEW tree
    PROVE  Recorded(HashedEntries(tree))
<1>1. ASSUME NEW e, NEW hashes
      PROVE  IsRecord(with_dir_hash(e, hashes))
  BY DEF with_dir_hash, IsRecord
<1> QED
  BY <1>1 DEF Recorded, HashedEntries
=============================================================================
