---------------------------- MODULE VerifyProofs ---------------------------
(***************************************************************************)
(* Theorems about MerkleDiff and Verify, for all trees.                    *)
(*                                                                         *)
(* At every step of the merge the changes found are the difference of what *)
(* the two iterators have left behind.  It stays so because the iterators  *)
(* move together: all that either has left behind comes before all that    *)
(* the other has ahead, so that a path is left behind on both sides or on  *)
(* neither.  The short circuit keeps that too, for what is underneath a    *)
(* directory is contiguous in the order of paths; and it adds nothing to   *)
(* the difference, for where the hash is the same, so is all underneath.   *)
(*                                                                         *)
(* So a diff is the difference of two trees, which says path by path what  *)
(* simulate_apply leaves at the target.  That need not be a tree, for the  *)
(* target may be any; but its paths are distinct, and whatever has the     *)
(* place of an entry of the snapshot has the shape of one, so that equal   *)
(* hashes of directories still mean equal contents: all that the snapshot  *)
(* has underneath, the simulated state has as well.  Only the other way    *)
(* round does it take a tree.                                              *)
(***************************************************************************)
EXTENDS Verify, EntriesProofs

----------------------------------------------------------------------------
(* The merge of two snapshots.                                             *)

\* From i to j a list of set has the directory d and all underneath it.
Subtree(list, set, d, i, j) ==
    /\ i \in 1 .. Len(list)
    /\ list[i].path = d
    /\ j \in i + 1 .. Len(list) + 1
    /\ Between(list, i, j) = {list[i]} \cup Under(set, d)
    /\ \A f \in From(list, j) : Less(d, f.path) /\ ~ contains(d, f.path)

\* skip_subtree passes the entries underneath, all of them and no others.
LEMMA SkipsSubtree ==
    ASSUME NEW list, NEW set, Sorted(list, set), NEW i \in 1 .. Len(list),
           NEW d, list[i].path = d, NEW j, j = skip_subtree(i, list)
    PROVE  Subtree(list, set, d, i, j)
<1>1. PICK L \in Nat :
        /\ L = Len(list)
        /\ \A k \in 1 .. L : list[k] \in set /\ list[k].path \in Seq(Nat)
        /\ \A e \in set : \E n \in 1 .. L : list[n] = e
        /\ \A m, n \in 1 .. L : m < n => Less(list[m].path, list[n].path)
  BY SortedIs
<1>2. i \in 1 .. L /\ i \in Nat /\ d \in Seq(Nat)
  BY <1>1
<1> DEFINE Stop(n) == /\ \A k \in i + 1 .. n - 1 : contains(list[i].path, list[k].path)
                      /\ n <= L => ~ contains(list[i].path, list[n].path)
<1>3. \E n \in i + 1 .. L + 1 : Stop(n)
  <2> DEFINE ends == {n \in i + 1 .. L + 1 :
                        n <= L => ~ contains(list[i].path, list[n].path)}
  <2>1. L + 1 \in ends
    BY <1>1, <1>2
  <2>2. ends \subseteq Nat
    BY <1>1, <1>2
  <2>3. PICK n \in ends : \A m \in ends : n <= m
    <3> HIDE DEF ends
    <3> QED
      BY <2>1, <2>2, HasLeast
  <2>4. n \in i + 1 .. L + 1 /\ (n <= L => ~ contains(list[i].path, list[n].path))
    OBVIOUS
  <2>5. ASSUME NEW k \in i + 1 .. n - 1
        PROVE  contains(list[i].path, list[k].path)
    <3>1. k \in i + 1 .. L + 1 /\ ~ n <= k
      BY <1>1, <1>2, <2>4
    <3> QED
      BY <2>3, <3>1
  <2> QED
    BY <2>4, <2>5
<1>4. j \in i + 1 .. L + 1 /\ Stop(j)
  <2>1. j = CHOOSE n \in i + 1 .. L + 1 : Stop(n)
    BY <1>1 DEF skip_subtree
  <2> HIDE DEF Stop
  <2> QED
    BY <1>3, <2>1
<1>5. ASSUME NEW k \in j .. L
      PROVE  Less(d, list[k].path) /\ ~ contains(d, list[k].path)
  <2>1. k \in 1 .. L /\ i < k /\ j \in 1 .. L /\ i < j
    BY <1>1, <1>2, <1>4
  <2>2. Less(d, list[k].path) /\ Less(d, list[j].path) /\ ~ contains(d, list[j].path)
    BY <1>1, <1>4, <2>1
  <2>3. CASE k = j
    BY <2>2, <2>3
  <2>4. CASE k # j
    <3> SUFFICES ASSUME contains(d, list[k].path) PROVE FALSE
      BY <2>2
    <3>1. Less(list[k].path, list[j].path)
      BY <1>1, <1>2, <2>1, <2>2, BelowIsNext
    <3>2. Less(list[j].path, list[k].path)
      BY <1>1, <1>4, <2>1, <2>4
    <3>3. list[k].path \in Seq(Nat) /\ list[j].path \in Seq(Nat)
      BY <1>1, <2>1
    <3> QED
      BY <3>1, <3>2, <3>3, LessIrreflexive, LessTransitive
  <2> QED
    BY <2>3, <2>4
<1>6. \A f \in From(list, j) : Less(d, f.path) /\ ~ contains(d, f.path)
  BY <1>1, <1>5 DEF From
<1>7. ASSUME NEW e
      PROVE  e \in Between(list, i, j) <=> e = list[i] \/ e \in Under(set, d)
  <2>1. ASSUME NEW k \in i .. j - 1, k # i
        PROVE  list[k] \in Under(set, d)
    <3>1. k \in i + 1 .. j - 1 /\ k \in 1 .. L
      BY <1>1, <1>2, <1>4, <2>1
    <3> QED
      BY <1>1, <1>4, <3>1 DEF Under
  <2>2. i \in i .. j - 1
    BY <1>2, <1>4
  <2>3. ASSUME e \in Under(set, d)
        PROVE  \E k \in i .. j - 1 : list[k] = e
    <3>1. PICK n \in 1 .. L : list[n] = e
      BY <1>1, <2>3 DEF Under
    <3>2. contains(d, list[n].path) /\ Less(d, list[n].path) /\ list[n].path \in Seq(Nat)
      BY <1>1, <1>2, <2>3, <3>1, BelowIsGreater DEF Under
    <3>3. ~ n < i
      <4> SUFFICES ASSUME n < i PROVE FALSE
        OBVIOUS
      <4>1. Less(list[n].path, d)
        BY <1>1
      <4> QED
        BY <1>2, <3>2, <4>1, LessIrreflexive, LessTransitive
    <3>4. ~ n \in j .. L
      BY <1>5, <3>2
    <3>5. n \in i .. j - 1
      BY <1>1, <1>2, <1>4, <3>1, <3>3, <3>4
    <3> QED
      BY <3>1, <3>5
  <2> QED
    BY <2>1, <2>2, <2>3 DEF Between
<1>8. j \in i + 1 .. Len(list) + 1
  BY <1>1, <1>4
<1>9. Between(list, i, j) = {list[i]} \cup Under(set, d)
  BY <1>7
<1> QED
  BY <1>6, <1>8, <1>9 DEF Subtree

\* Both iterators skip the subtrees of a directory.
LEMMA PassSubtrees ==
    ASSUME NEW O, NEW B, Sorted(O, B), NEW N, NEW A, Sorted(N, A),
           NEW d, NEW i, NEW k, Subtree(O, B, d, i, k),
           NEW j, NEW l, Subtree(N, A, d, j, l)
    PROVE  Passes(O, N, i, j, k, l)
<1>1. /\ i \in 1 .. Len(O) /\ O[i].path = d
      /\ k \in i + 1 .. Len(O) + 1
      /\ Between(O, i, k) = {O[i]} \cup Under(B, d)
      /\ \A f \in From(O, k) : Less(d, f.path) /\ ~ contains(d, f.path)
  BY DEF Subtree
<1>2. /\ j \in 1 .. Len(N) /\ N[j].path = d
      /\ l \in j + 1 .. Len(N) + 1
      /\ Between(N, j, l) = {N[j]} \cup Under(A, d)
      /\ \A f \in From(N, l) : Less(d, f.path) /\ ~ contains(d, f.path)
  BY DEF Subtree
<1>3. k \in i .. Len(O) + 1 /\ l \in j .. Len(N) + 1 /\ k \in Nat \ {0} /\ l \in Nat \ {0}
  <2>1. PICK L, M : L \in Nat /\ M \in Nat /\ L = Len(O) /\ M = Len(N)
    BY SortedIs
  <2> QED
    BY <1>1, <1>2, <2>1
<1>4. From(O, k) \subseteq B /\ From(N, l) \subseteq A
  BY <1>3, FromSubset
<1>5. O[i] \in B /\ d \in Seq(Nat)
  BY <1>1, SortedIs
<1>6. ASSUME NEW e \in {O[i], N[j]} \cup Under(B, d) \cup Under(A, d),
             NEW f \in From(O, k) \cup From(N, l)
      PROVE  Less(e.path, f.path)
  <2>1. f.path \in Seq(Nat)
    BY <1>4 DEF Sorted
  <2>2. Less(d, f.path) /\ ~ contains(d, f.path)
    BY <1>1, <1>2
  <2>3. e.path = d \/ (contains(d, e.path) /\ e.path \in Seq(Nat))
    BY <1>1, <1>2 DEF Under, Sorted
  <2> QED
    BY <1>5, <2>1, <2>2, <2>3, BelowIsNext
<1> QED
  BY <1>1, <1>2, <1>3, <1>6 DEF Passes

\* What the merge is given.
Sources ==
    /\ old_entries \in Snapshots
    /\ disk \in Trees
    /\ new_entries = Snapshot(Walk(disk, Before))

LEMMA SnapshotSet ==
    ASSUME NEW tree, WellFormed(tree), NEW list, list = Snapshot(tree)
    PROVE  ToSet(list) = HashedEntries(tree) /\ Sorted(list, HashedEntries(tree))
<1>1. Lists(list, HashedEntries(tree)) /\ PathsDistinct(HashedEntries(tree))
  BY SnapshotLists
<1>2. Sorted(list, HashedEntries(tree))
  BY <1>1 DEF Sorted, PathsDistinct
<1>3. list \in Seq(HashedEntries(tree))
  BY <1>1 DEF Lists
<1>4. DOMAIN list = 1 .. Len(list)
  BY <1>3
<1>5. ToSet(list) = HashedEntries(tree)
  BY <1>2, <1>4, SortedIs DEF ToSet
<1> QED
  BY <1>2, <1>5

LEMMA Given ==
    ASSUME Sources
    PROVE  \E t, u :
             /\ IsFileTree(t) /\ IsFileTree(u) /\ u = Walk(disk, Before)
             /\ Before = HashedEntries(t) /\ Sorted(old_entries, Before)
             /\ After = HashedEntries(u) /\ Sorted(new_entries, After)
             /\ \A e \in Before \cup After : Proper(e)
             /\ PathsDistinct(Before) /\ PathsDistinct(After)
<1>1. PICK t \in Trees : old_entries = Snapshot(t)
  BY DEF Sources, Snapshots
<1>2. IsFileTree(t) /\ IsFileTree(disk)
  BY TreesAssumption DEF Sources
<1>3. /\ Before = HashedEntries(t) /\ Sorted(old_entries, Before)
      /\ PathsDistinct(Before) /\ \A e \in Before : Proper(e)
  BY <1>1, <1>2, SnapshotSet, SnapshotLists, FileTrees DEF Before
<1>4. PICK u : u = Walk(disk, Before)
  OBVIOUS
<1>5. IsFileTree(u)
  BY <1>2, <1>3, <1>4, WalkedTree
<1>6. /\ After = HashedEntries(u) /\ Sorted(new_entries, After)
      /\ PathsDistinct(After) /\ \A e \in After : Proper(e)
  BY <1>4, <1>5, SnapshotSet, SnapshotLists, FileTrees DEF After, Sources
<1> QED
  BY <1>2, <1>3, <1>4, <1>5, <1>6

----------------------------------------------------------------------------
(* The invariant.                                                          *)

\* The changes are the difference of what the iterators have left behind.
MergeInv ==
    /\ Sources
    /\ Cuts(old_entries, new_entries, old_iter, new_iter)
    /\ Enumerates(changes, ChangesOf(Upto(old_entries, old_iter), Upto(new_entries, new_iter)))
    /\ pc = "done" => ~ MoreOld /\ ~ MoreNew

LEMMA MergeInit == Init => MergeInv
<1> SUFFICES ASSUME Init PROVE MergeInv
  OBVIOUS
<1>1. Sources
  BY DEF Init, Sources, Before
<1>2. Len(old_entries) \in Nat /\ Len(new_entries) \in Nat
  BY <1>1, Given, SortedIs
<1>3. /\ Cuts(old_entries, new_entries, 1, 1)
      /\ Upto(old_entries, 1) = {} /\ Upto(new_entries, 1) = {}
  BY <1>2, CutsFirst
<1>4. ChangesOf({}, {}) = {}
  BY ChangesOfIs
<1>5. Enumerates(<<>>, ChangesOf({}, {}))
  BY <1>4, NothingEnumerates
<1> QED
  BY <1>1, <1>3, <1>5 DEF Init, MergeInv

\* A step that appends the differences of what it passes.
LEMMA AdvanceKeeps ==
    ASSUME MergeInv, NEW k, NEW l,
           Passes(old_entries, new_entries, old_iter, new_iter, k, l),
           NEW xs, xs = Between(old_entries, old_iter, k),
           NEW ys, ys = Between(new_entries, new_iter, l),
           NEW found, Enumerates(found, ChangesOf(xs, ys)),
           Advance(k, l, found)
    PROVE  MergeInv'
<1>1. Sorted(old_entries, Before) /\ Sorted(new_entries, After)
  BY Given DEF MergeInv
<1>2. PICK b, a : b = Upto(old_entries, old_iter) /\ a = Upto(new_entries, new_iter)
  OBVIOUS
<1>3. /\ Cuts(old_entries, new_entries, k, l)
      /\ Upto(old_entries, k) = b \cup xs /\ Upto(new_entries, l) = a \cup ys
      /\ \A e \in Upto(old_entries, k) \cup Upto(new_entries, l) : e.path \in Seq(Nat)
      /\ \A e \in b \cup a, f \in xs \cup ys : Less(e.path, f.path)
  BY <1>1, <1>2, CutsFurther DEF MergeInv
<1>4. Enumerates(changes \o found, ChangesOf(b \cup xs, a \cup ys))
  <2>1. PICK list : list = changes
    OBVIOUS
  <2>2. Enumerates(list, ChangesOf(b, a))
    BY <1>2, <2>1 DEF MergeInv
  <2>3. \A e \in b \cup a \cup xs \cup ys : e.path \in Seq(Nat)
    BY <1>3
  <2> QED
    BY <1>3, <2>1, <2>2, <2>3, Appended
<1>5. Sources'
  BY DEF MergeInv, Advance, Sources, Before
<1>6. Cuts(old_entries, new_entries, old_iter, new_iter)'
  BY <1>3 DEF Advance
<1>7. Enumerates(changes, ChangesOf(Upto(old_entries, old_iter), Upto(new_entries, new_iter)))'
  BY <1>3, <1>4 DEF Advance
<1>8. pc' # "done"
  BY DEF Advance
<1> QED
  BY <1>5, <1>6, <1>7, <1>8 DEF MergeInv

LEMMA OnlyOldKeeps ==
    ASSUME MergeInv, OnlyOld
    PROVE  MergeInv'
<1>1. Sorted(old_entries, Before) /\ Sorted(new_entries, After)
  BY Given DEF MergeInv
<1>2. /\ Cuts(old_entries, new_entries, old_iter, new_iter)
      /\ old_iter <= Len(old_entries)
      /\ new_iter <= Len(new_entries) =>
           Less(old_entries[old_iter].path, new_entries[new_iter].path)
  BY DEF MergeInv, OnlyOld, MoreOld, MoreNew, old, new
<1>3. /\ Passes(old_entries, new_entries, old_iter, new_iter, old_iter + 1, new_iter)
      /\ Between(old_entries, old_iter, old_iter + 1) = {old}
      /\ Between(new_entries, new_iter, new_iter) = {}
  BY <1>1, <1>2, PassFirst DEF old
<1>4. Enumerates(<<build_removed_change(old)>>, ChangesOf({old}, {}))
  BY OnlyOldChanges
<1>5. Advance(old_iter + 1, new_iter, <<build_removed_change(old)>>)
  BY DEF OnlyOld
<1> QED
  BY <1>3, <1>4, <1>5, AdvanceKeeps

LEMMA OnlyNewKeeps ==
    ASSUME MergeInv, OnlyNew
    PROVE  MergeInv'
<1>1. Sorted(old_entries, Before) /\ Sorted(new_entries, After)
  BY Given DEF MergeInv
<1>2. /\ Cuts(old_entries, new_entries, old_iter, new_iter)
      /\ new_iter <= Len(new_entries)
      /\ old_iter <= Len(old_entries) =>
           Less(new_entries[new_iter].path, old_entries[old_iter].path)
  BY DEF MergeInv, OnlyNew, MoreOld, MoreNew, old, new
<1>3. /\ Passes(old_entries, new_entries, old_iter, new_iter, old_iter, new_iter + 1)
      /\ Between(old_entries, old_iter, old_iter) = {}
      /\ Between(new_entries, new_iter, new_iter + 1) = {new}
  BY <1>1, <1>2, PassSecond DEF new
<1>4. Enumerates(<<build_added_change(new)>>, ChangesOf({}, {new}))
  BY OnlyNewChanges
<1>5. Advance(old_iter, new_iter + 1, <<build_added_change(new)>>)
  BY DEF OnlyNew
<1> QED
  BY <1>3, <1>4, <1>5, AdvanceKeeps

\* Where both iterators stand on one path.
LEMMA BothHeads ==
    ASSUME MergeInv, OnBoth
    PROVE  /\ Passes(old_entries, new_entries, old_iter, new_iter, old_iter + 1, new_iter + 1)
           /\ Between(old_entries, old_iter, old_iter + 1) = {old}
           /\ Between(new_entries, new_iter, new_iter + 1) = {new}
           /\ old \in Before /\ new \in After /\ old.path = new.path
           /\ old_iter \in 1 .. Len(old_entries) /\ new_iter \in 1 .. Len(new_entries)
<1>1. Sorted(old_entries, Before) /\ Sorted(new_entries, After)
  BY Given DEF MergeInv
<1>2. /\ Cuts(old_entries, new_entries, old_iter, new_iter)
      /\ old_iter <= Len(old_entries) /\ new_iter <= Len(new_entries)
      /\ old_entries[old_iter].path = new_entries[new_iter].path
  BY DEF MergeInv, OnBoth, MoreOld, MoreNew, old, new
<1> QED
  BY <1>1, <1>2, PassBoth DEF old, new

LEMMA KindChangedKeeps ==
    ASSUME MergeInv, KindChanged
    PROVE  MergeInv'
<1>1. OnBoth /\ old.kind # new.kind
      /\ Advance(old_iter + 1, new_iter + 1,
                 <<build_removed_change(old), build_added_change(new)>>)
  BY DEF KindChanged
<1>2. old.path = new.path
  BY <1>1, BothHeads
<1>3. Enumerates(<<build_removed_change(old), build_added_change(new)>>,
                 ChangesOf({old}, {new}))
  BY <1>1, <1>2, KindChanges
<1> QED
  BY <1>1, <1>3, BothHeads, AdvanceKeeps

LEMMA SameKindKeeps ==
    ASSUME MergeInv, SameKind
    PROVE  MergeInv'
<1>1. OnBoth /\ old.kind = new.kind
      /\ Advance(old_iter + 1, new_iter + 1, compute_entry_diff(old, new))
  BY DEF SameKind
<1>2. old.path = new.path
  BY <1>1, BothHeads
<1>3. Enumerates(compute_entry_diff(old, new), ChangesOf({old}, {new}))
  BY <1>1, <1>2, EntryChanges DEF SamePlace
<1> QED
  BY <1>1, <1>3, BothHeads, AdvanceKeeps

LEMMA SkipSubtreeKeeps ==
    ASSUME MergeInv, SkipSubtree
    PROVE  MergeInv'
<1>1. PICK k, l : /\ k = skip_subtree(old_iter, old_entries)
                  /\ l = skip_subtree(new_iter, new_entries)
  OBVIOUS
<1>2. OnBoth /\ SameHash /\ Advance(k, l, compute_entry_diff(old, new))
  BY <1>1 DEF SkipSubtree
<1>3. PICK d : d = old.path /\ d = new.path
  BY <1>2 DEF OnBoth
<1>4. PICK t, u :
        /\ IsFileTree(t) /\ IsFileTree(u)
        /\ Before = HashedEntries(t) /\ Sorted(old_entries, Before)
        /\ After = HashedEntries(u) /\ Sorted(new_entries, After)
        /\ PathsDistinct(Before) /\ PathsDistinct(After)
  BY Given DEF MergeInv
<1>5. /\ old_iter \in 1 .. Len(old_entries) /\ new_iter \in 1 .. Len(new_entries)
      /\ old \in Before /\ new \in After
  BY <1>2, BothHeads
<1>6. /\ Passes(old_entries, new_entries, old_iter, new_iter, k, l)
      /\ Between(old_entries, old_iter, k) = {old} \cup Under(Before, d)
      /\ Between(new_entries, new_iter, l) = {new} \cup Under(After, d)
  <2>1. /\ old = old_entries[old_iter] /\ d = old_entries[old_iter].path
        /\ new = new_entries[new_iter] /\ d = new_entries[new_iter].path
    BY <1>3 DEF old, new
  <2>2. Sorted(old_entries, Before) /\ Sorted(new_entries, After)
    BY <1>4
  <2>3. /\ Subtree(old_entries, Before, d, old_iter, k)
        /\ Subtree(new_entries, After, d, new_iter, l)
    BY <1>1, <1>5, <2>1, <2>2, SkipsSubtree
  <2>4. Passes(old_entries, new_entries, old_iter, new_iter, k, l)
    BY <2>2, <2>3, PassSubtrees
  <2> QED
    BY <2>1, <2>3, <2>4 DEF Subtree
<1>7. Mirrored(Under(Before, d), Under(After, d))
  BY <1>2, <1>3, <1>4, <1>5, HashMirrors DEF SameHash
<1>8. Enumerates(compute_entry_diff(old, new),
                 ChangesOf({old} \cup Under(Before, d), {new} \cup Under(After, d)))
  <2>1. SamePlace(old, new)
    BY <1>2, <1>3 DEF SamePlace, SameHash
  <2>2. \A e \in Under(Before, d) \cup Under(After, d) : e.path # old.path
    BY <1>3, <1>4, ContainsIs DEF Under, PathsDistinct
  <2>3. \A e, f \in Under(After, d) : e.path = f.path => e = f
    BY <1>4 DEF PathsDistinct, Under
  <2> QED
    BY <1>7, <2>1, <2>2, <2>3, MirroredChanges
<1> QED
  BY <1>2, <1>6, <1>8, AdvanceKeeps

LEMMA MergeStep ==
    ASSUME MergeInv, [Next]_vars
    PROVE  MergeInv'
<1>1. CASE OnlyOld
  BY <1>1, OnlyOldKeeps
<1>2. CASE OnlyNew
  BY <1>2, OnlyNewKeeps
<1>3. CASE SkipSubtree
  BY <1>3, SkipSubtreeKeeps
<1>4. CASE KindChanged
  BY <1>4, KindChangedKeeps
<1>5. CASE SameKind
  BY <1>5, SameKindKeeps
<1>6. CASE BothExhausted
  BY <1>6 DEF BothExhausted, MergeInv, Sources, Before, MoreOld, MoreNew
<1>7. CASE UNCHANGED vars
  BY <1>7 DEF vars, MergeInv, Sources, Before, MoreOld, MoreNew
<1> QED
  BY <1>1, <1>2, <1>3, <1>4, <1>5, <1>6, <1>7 DEF Next

\* The iterators and what is found always fit together.
LEMMA SpecMergeInv == Spec => []MergeInv
<1>1. MergeInv /\ [Next]_vars => MergeInv'
  BY MergeStep
<1> QED
  BY <1>1, MergeInit, PTL DEF Spec

----------------------------------------------------------------------------
(* Theorems.                                                               *)

LEMMA PrefixSet ==
    ASSUME NEW list, NEW set, Sorted(list, set), NEW i \in 1 .. Len(list) + 1
    PROVE  ToSet(SubSeq(list, 1, i - 1)) = Upto(list, i)
<1>1. PICK n \in Nat : n = i - 1 /\ n <= Len(list)
  BY SortedIs
<1>2. list \in Seq(set)
  BY DEF Sorted, Lists
<1>3. PICK q : q = SubSeq(list, 1, n)
  OBVIOUS
<1>4. DOMAIN q = 1 .. n /\ \A k \in 1 .. n : q[k] = list[k]
  BY <1>1, <1>2, <1>3
<1> QED
  BY <1>1, <1>3, <1>4 DEF ToSet, Upto

\* What both iterators have left behind is all there is of the paths behind.
LEMMA LeftBehind ==
    ASSUME MergeInv
    PROVE  \E b, a :
             /\ b \subseteq Before /\ a \subseteq After
             /\ Behind = {e.path : e \in b \cup a}
             /\ \A p \in Behind : At(Before, p) = At(b, p) /\ At(After, p) = At(a, p)
             /\ Enumerates(changes, ChangesOf(b, a))
             /\ pc = "done" => b = Before /\ a = After
<1>1. Sorted(old_entries, Before) /\ Sorted(new_entries, After)
  BY Given DEF MergeInv
<1>2. /\ old_iter \in 1 .. Len(old_entries) + 1 /\ Len(old_entries) \in Nat
      /\ new_iter \in 1 .. Len(new_entries) + 1 /\ Len(new_entries) \in Nat
  BY <1>1, SortedIs DEF MergeInv, Cuts
<1>3. old_iter \in old_iter .. Len(old_entries) + 1 /\ new_iter \in new_iter .. Len(new_entries) + 1
  BY <1>2
<1>4. PICK b, a, x, y : /\ b = Upto(old_entries, old_iter) /\ x = From(old_entries, old_iter)
                        /\ a = Upto(new_entries, new_iter) /\ y = From(new_entries, new_iter)
  OBVIOUS
<1>5. Before = b \cup x /\ Apart(b, x)
  BY <1>1, <1>2, <1>3, <1>4, ListParts
<1>6. After = a \cup y /\ Apart(a, y)
  BY <1>1, <1>2, <1>3, <1>4, ListParts
<1>7. Behind = {e.path : e \in b \cup a}
  BY <1>1, <1>2, <1>4, PrefixSet DEF Behind
<1>8. Apart(b, y) /\ Apart(a, x)
  <2>1. /\ \A e \in b, f \in y : Less(e.path, f.path)
        /\ \A e \in a, f \in x : Less(e.path, f.path)
    BY <1>4 DEF MergeInv, Cuts
  <2>2. \A e \in b \cup a : e.path \in Seq(Nat)
    BY <1>1, <1>5, <1>6 DEF Sorted
  <2> QED
    BY <2>1, <2>2, LessIrreflexive DEF Apart
<1>9. ASSUME NEW p \in Behind
      PROVE  At(Before, p) = At(b, p) /\ At(After, p) = At(a, p)
  <2>1. PICK e \in b \cup a : e.path = p
    BY <1>7
  <2>2. \A f \in x \cup y : f.path # p
    BY <1>5, <1>6, <1>8, <2>1 DEF Apart
  <2> QED
    BY <1>5, <1>6, <2>2 DEF At
<1>10. Enumerates(changes, ChangesOf(b, a))
  BY <1>4 DEF MergeInv
<1>11. ASSUME pc = "done"
       PROVE  x = {} /\ y = {}
  <2>1. ~ old_iter <= Len(old_entries) /\ ~ new_iter <= Len(new_entries)
    BY <1>11 DEF MergeInv, MoreOld, MoreNew
  <2> QED
    BY <1>2, <1>4, <2>1 DEF From
<1>12. b \subseteq Before /\ a \subseteq After
  BY <1>5, <1>6
<1>13. pc = "done" => b = Before /\ a = After
  BY <1>5, <1>6, <1>11
<1>14. \A p \in Behind : At(Before, p) = At(b, p) /\ At(After, p) = At(a, p)
  BY <1>9
<1> QED
  BY <1>7, <1>10, <1>12, <1>13, <1>14, Zenon

LEMMA HidesNothing ==
    ASSUME MergeInv
    PROVE  NothingHidden
<1>1. PICK b, a :
        /\ b \subseteq Before /\ a \subseteq After
        /\ Behind = {e.path : e \in b \cup a}
        /\ \A p \in Behind : At(Before, p) = At(b, p) /\ At(After, p) = At(a, p)
        /\ Enumerates(changes, ChangesOf(b, a))
        /\ pc = "done" => b = Before /\ a = After
  BY LeftBehind
<1>2. PathsDistinct(b) /\ PathsDistinct(a)
  BY <1>1, Given DEF MergeInv, PathsDistinct
<1>3. ASSUME NEW p
      PROVE  (\E k \in DOMAIN changes : changes[k].path = p) <=> p \in Behind /\ Differs(p)
  <2>1. (\E k \in DOMAIN changes : changes[k].path = p)
        <=> \E c \in ChangesOf(b, a) : c.path = p
    BY <1>1, Listed
  <2>2. p \in Behind <=> \E e \in b \cup a : e.path = p
    BY <1>1
  <2>3. p \in Behind => (Differs(p) <=> Mismatch(p, b, a, {}))
    BY <1>1 DEF Differs, Mismatch
  <2>4. (\E c \in ChangesOf(b, a) : c.path = p)
        <=> (\E e \in b \cup a : e.path = p) /\ Mismatch(p, b, a, {})
    BY <1>2, PathsThatChange
  <2> QED
    BY <2>1, <2>2, <2>3, <2>4
<1>4. {changes[k].path : k \in DOMAIN changes} = {p \in Behind : Differs(p)}
  BY <1>3
<1>5. pc = "done" => ToSet(changes) = ChangesOf(Before, After)
  BY <1>1, Listed
<1>6. \A k, l \in DOMAIN changes : k < l => Precedes(changes[k], changes[l])
  BY <1>1, Listed
<1> QED
  BY <1>4, <1>5, <1>6 DEF NothingHidden

\* For all trees and every state of the merge, a path left behind has changes
\* exactly if its entries differ: neither the short circuit on equal hashes of
\* directories nor the tolerance of mtimes hides one.  At the end the list is the
\* difference of the snapshots, each change once and in order.
THEOREM DiffIsComplete == Spec => []NothingHidden
<1>1. MergeInv => NothingHidden
  BY HidesNothing
<1> QED
  BY <1>1, SpecMergeInv, PTL

LEMMA FindsEdits ==
    ASSUME MergeInv
    PROVE  EditsFound
<1> SUFFICES ASSUME pc = "done", NEW b \in Before, NEW n \in disk,
                    b.path = n.path, b.kind = "File", n.kind = "File",
                    b.hash # n.hash,
                    \A k \in DOMAIN changes : changes[k].path # b.path
             PROVE  /\ b.metadata.size = n.metadata.size
                    /\ mtime_sec(b.metadata) = mtime_sec(n.metadata)
  BY DEF EditsFound
<1>1. PICK t, u :
        /\ IsFileTree(t) /\ IsFileTree(u) /\ u = Walk(disk, Before)
        /\ After = HashedEntries(u) /\ PathsDistinct(Before)
  BY Given DEF MergeInv
<1>2. IsFileTree(disk)
  BY TreesAssumption DEF MergeInv, Sources
\* The entry of the walk for n.
<1>3. PICK f \in After : /\ f.path = n.path /\ f.kind = n.kind
                         /\ f.hash = resolve_file_hash(n, Before)
  <2>1. PICK w : w = WalkedAs(n, Before)
    OBVIOUS
  <2>2. w \in u
    BY <1>1, <2>1 DEF Walk, WalkedAs
  <2>3. w.path = n.path /\ w.kind = n.kind /\ w.hash = resolve_file_hash(n, Before)
    BY <1>2, <2>1, WalkedEntry DEF IsFileTree
  <2>4. PICK g : g = with_dir_hash(w, DirHashes(u))
    OBVIOUS
  <2>5. g \in After
    BY <1>1, <2>2, <2>4 DEF HashedEntries
  <2> QED
    BY <2>3, <2>4, <2>5, WithDirHash
<1>4. b.hash = f.hash
  <2>1. b.path \in Behind
    BY LeftBehind
  <2>2. ~ Differs(b.path)
    BY <2>1, HidesNothing DEF NothingHidden
  <2>3. b \in At(Before, b.path) /\ f \in At(After, b.path)
    BY <1>3 DEF At
  <2> QED
    BY <2>2, <2>3 DEF Differs, Mismatch
<1>5. PICK c \in Cached(n, Before) : f.hash = c.hash
  <2>1. PICK h : h = resolve_file_hash(n, Before)
    OBVIOUS
  <2> QED
    BY <1>3, <1>4, <2>1, CachedHash
<1>6. c \in Before /\ c.path = n.path /\ size_and_mtime_match(c.metadata, n.metadata)
  BY DEF Cached
<1>7. c = b
  BY <1>1, <1>6 DEF PathsDistinct
<1> QED
  BY <1>6, <1>7 DEF size_and_mtime_match

\* For all trees, a file whose content changed without a change in the diff
\* has kept its size and the second of its mtime, so that the cache of hashes
\* took it for the same file (resolve_file_hash).
THEOREM EditsEscapeOnlyTheCache == Spec => []EditsFound
<1>1. MergeInv => EditsFound
  BY FindsEdits
<1> QED
  BY <1>1, SpecMergeInv, PTL

LEMMA SizesCarried ==
    ASSUME MergeInv
    PROVE  ContentHasSize
<1> SUFFICES ASSUME NEW k \in DOMAIN changes, changes[k].op # "Removed",
                    changes[k].has_content
             PROVE  \E n \in At(After, changes[k].path) :
                      /\ n.kind = "File"
                      /\ IF changes[k].op = "Added"
                         THEN changes[k].entry.metadata.size = n.metadata.size
                         ELSE \E m \in changes[k].new_metadata : m.size = n.metadata.size
  BY DEF ContentHasSize
<1>1. PICK b, a : a \subseteq After /\ Enumerates(changes, ChangesOf(b, a))
  BY LeftBehind
<1>2. PICK c \in ChangesOf(b, a) : c = changes[k]
  BY <1>1, Listed
<1>3. CASE \E x \in b : c = build_removed_change(x)
  BY <1>2, <1>3 DEF build_removed_change
<1>4. CASE \E y \in a : c = build_added_change(y)
  <2>1. PICK y \in a : c = build_added_change(y)
    BY <1>4
  <2>2. /\ c.path = y.path /\ c.op = "Added" /\ c.entry = y
        /\ c.has_content <=> y.kind = "File"
    BY <2>1 DEF build_added_change
  <2>3. y \in At(After, c.path) /\ y.kind = "File"
    BY <1>1, <1>2, <2>2 DEF At
  <2> QED
    BY <1>2, <2>2, <2>3
<1>5. CASE \E x \in b, y \in a : c = ModifiedEntry(x, y)
  <2>1. PICK x \in b, y \in a : c = ModifiedEntry(x, y)
    BY <1>5
  <2>2. /\ c.path = y.path /\ c.op = "Modified"
        /\ c.has_content <=> x.hash # y.hash /\ y.kind = "File"
        /\ x.hash # y.hash /\ y.kind = "File" => c.new_metadata = Some(y.metadata)
    BY <2>1 DEF ModifiedEntry
  <2>3. y \in At(After, c.path) /\ y.kind = "File" /\ c.new_metadata = {y.metadata}
    BY <1>1, <1>2, <2>2 DEF At, Some
  <2> QED
    BY <1>2, <2>2, <2>3
<1> QED
  BY <1>3, <1>4, <1>5, ChangesOfIs

\* For all trees, every change that announces content carries the size of that
\* content: compute_entry_diff includes the metadata whenever the hash differs,
\* which is what apply reads file contents by.
THEOREM SizesAreCarried == Spec => []ContentHasSize
<1>1. MergeInv => ContentHasSize
  BY SizesCarried
<1> QED
  BY <1>1, SpecMergeInv, PTL

LEMMA AppliesBack ==
    ASSUME MergeInv
    PROVE  RoundTrip
<1> SUFFICES ASSUME pc = "done",
                    NEW result, result = simulate_apply(Before, changes)
             PROVE  /\ {e.path : e \in result} = {e.path : e \in After}
                    /\ \A e \in result : \E n \in After :
                         /\ n.path = e.path
                         /\ n.kind = e.kind
                         /\ n.hash = e.hash
                         /\ n.symlink_target = e.symlink_target
                         /\ matches(n.metadata, e.metadata)
  BY DEF RoundTrip
<1>1. PICK t, u :
        /\ Before = HashedEntries(t) /\ After = HashedEntries(u)
        /\ \A e \in Before \cup After : Proper(e)
        /\ PathsDistinct(Before) /\ PathsDistinct(After)
  BY Given DEF MergeInv
<1>2. PICK b, a : b = Before /\ a = After
  OBVIOUS
<1>3. Recorded(b) /\ Recorded(a)
  BY <1>1, <1>2, HashedAreRecords
<1>4. Enumerates(changes, ChangesOf(b, a))
  BY <1>2, LeftBehind
<1>5. NearlyResembles(b, b, a)
  BY <1>1, <1>2 DEF NearlyResembles, PathsDistinct
<1>6. PICK list : list = changes
  OBVIOUS
<1>7. /\ Resembles(result, a)
      /\ \A f \in result, y \in a : f.path = y.path =>
           \/ f.metadata = y.metadata
           \/ \E e \in b, x \in b :
                /\ e.path = f.path /\ x.path = f.path
                /\ f.metadata = e.metadata /\ matches(x.metadata, y.metadata)
  <2>1. PathsDistinct(b) /\ PathsDistinct(a)
        /\ (\A x \in b : Proper(x)) /\ (\A y \in a : Proper(y))
    BY <1>1, <1>2
  <2>2. Enumerates(list, ChangesOf(b, a)) /\ result = simulate_apply(b, list)
    BY <1>2, <1>4, <1>6
  <2> QED
    BY <1>3, <1>5, <2>1, <2>2, DiffLeads
<1>8. ASSUME NEW f \in result, NEW y \in a, f.path = y.path
      PROVE  matches(y.metadata, f.metadata)
  <2>1. y.metadata.mtime \in Int
    BY <1>1, <1>2 DEF Proper
  <2>2. CASE f.metadata = y.metadata
    BY <2>1, <2>2, ToleranceAssumption DEF matches, mtime_matches
  <2>3. CASE \E e \in b, x \in b :
               /\ e.path = f.path /\ x.path = f.path
               /\ f.metadata = e.metadata /\ matches(x.metadata, y.metadata)
    <3>1. PICK x \in b : f.metadata = x.metadata /\ matches(x.metadata, y.metadata)
      BY <1>1, <1>2, <2>3 DEF PathsDistinct
    <3>2. x.metadata.mtime \in Int
      BY <1>1, <1>2 DEF Proper
    <3> QED
      BY <2>1, <3>1, <3>2, ToleranceAssumption DEF matches, mtime_matches
  <2> QED
    BY <1>7, <1>8, <2>2, <2>3
<1>9. {e.path : e \in result} = {e.path : e \in a}
  BY <1>7 DEF Resembles
<1>10. \A e \in result : \E n \in a :
         /\ n.path = e.path
         /\ n.kind = e.kind
         /\ n.hash = e.hash
         /\ n.symlink_target = e.symlink_target
         /\ matches(n.metadata, e.metadata)
  BY <1>7, <1>8 DEF Resembles
<1> QED
  BY <1>2, <1>9, <1>10

\* For all trees, applying the diff in memory (simulate_apply) to the old
\* entries yields the new ones: paths, kinds, contents and link targets, and
\* metadata within the tolerance of the comparison.
THEOREM DiffRoundTrips == Spec => []RoundTrip
<1>1. MergeInv => RoundTrip
  BY AppliesBack
<1> QED
  BY <1>1, SpecMergeInv, PTL

----------------------------------------------------------------------------
(* What a diff makes of any tree.                                          *)

\* What there may be at a path in the end.
Outcomes(p, here, there, b, a) ==
    \/ here = there /\ \A c \in ChangesOf(b, a) : c.path # p
    \/ here = {}
    \/ \E y \in a : y.path = p /\ here = {y}
    \/ \E x \in b, y \in a : /\ x.path = p /\ SamePlace(x, y)
                             /\ here = {Updated(e, ModifiedEntry(x, y)) : e \in there}

\* Two sets of entries and the list of changes between them.
IsDifference(b, a, list) ==
    /\ PathsDistinct(b) /\ \A x \in b : Proper(x)
    /\ PathsDistinct(a) /\ Recorded(a) /\ \A y \in a : Proper(y)
    /\ Enumerates(list, ChangesOf(b, a))

LEMMA OutcomeAt ==
    ASSUME NEW b, NEW a, NEW list, IsDifference(b, a, list),
           NEW s, Recorded(s), NEW result, result = simulate_apply(s, list), NEW p
    PROVE  Outcomes(p, At(result, p), At(s, p), b, a)
<1>1. /\ PathsDistinct(b) /\ PathsDistinct(a) /\ Recorded(a)
      /\ Enumerates(list, ChangesOf(b, a))
  BY DEF IsDifference
<1>2. CASE \A c \in ChangesOf(b, a) : c.path # p
  <2>1. At(result, p) = At(s, p)
    BY <1>1, <1>2, DiffAt
  <2> QED
    BY <1>2, <2>1 DEF Outcomes
<1>3. ASSUME NEW c \in ChangesOf(b, a), c.path = p
      PROVE  Outcomes(p, At(result, p), At(s, p), b, a)
  <2>1. CASE \A y \in a : y.path # p
    <3>1. PICK x \in b : x.path = p
      BY <1>3, <2>1, ChangePath
    <3>2. At(result, p) = {}
      BY <1>1, <2>1, <3>1, DiffAt
    <3> QED
      BY <3>2 DEF Outcomes
  <2>2. ASSUME NEW y \in a, y.path = p, \A x \in b : ~ SamePlace(x, y)
        PROVE  Outcomes(p, At(result, p), At(s, p), b, a)
    <3>1. At(result, p) = {y}
      BY <1>1, <2>2, DiffAt
    <3> QED
      BY <2>2, <3>1 DEF Outcomes
  <2>3. ASSUME NEW y \in a, y.path = p, NEW x \in b, SamePlace(x, y)
        PROVE  Outcomes(p, At(result, p), At(s, p), b, a)
    <3>1. x.path = p
      BY <2>3 DEF SamePlace
    <3>2. ~ Equivalent(x, y)
      <4>1. Mismatch(p, b, a, {})
        BY <1>1, <1>3, PathsThatChange
      <4>2. At(b, p) = {x} /\ At(a, p) = {y}
        BY <1>1, <2>3, <3>1 DEF At, PathsDistinct
      <4> QED
        BY <2>3, <4>1, <4>2 DEF Mismatch, Equivalent, SamePlace
    <3>3. At(result, p) = {Updated(e, ModifiedEntry(x, y)) : e \in At(s, p)}
      BY <1>1, <2>3, <3>1, <3>2, DiffAt
    <3> QED
      BY <2>3, <3>1, <3>3 DEF Outcomes
  <2> QED
    BY <2>1, <2>2, <2>3
<1> QED
  BY <1>2, <1>3

\* An entry that is left at a path.
LEMMA LeftAt ==
    ASSUME NEW b, NEW a, NEW list, IsDifference(b, a, list),
           NEW s, Recorded(s), PathsDistinct(s), \A e \in s : Proper(e),
           NEW result, result = simulate_apply(s, list),
           NEW p, NEW f \in At(result, p)
    PROVE  /\ At(result, p) = {f}
           /\ f.path = p
           /\ f.kind \in EntryKind
           /\ \E e \in s \cup a : e.path = p
           /\ \A y \in a : SamePlace(f, y) => Proper(f)
<1>1. \A e : e \in At(s, p) <=> e \in s /\ e.path = p
  BY DEF At
<1>2. f.path = p
  BY DEF At
<1>3. Outcomes(p, At(result, p), At(s, p), b, a)
  BY OutcomeAt
<1>4. CASE At(result, p) = At(s, p)
  <2>1. f \in s /\ Proper(f) /\ f.kind \in EntryKind
    BY <1>1, <1>4 DEF Proper
  <2>2. At(s, p) = {f}
    BY <1>1, <1>2, <2>1 DEF PathsDistinct
  <2> QED
    BY <1>2, <1>4, <2>1, <2>2
<1>5. CASE \E y \in a : y.path = p /\ At(result, p) = {y}
  <2>1. f \in a /\ At(result, p) = {f}
    BY <1>5
  <2>2. Proper(f) /\ f.kind \in EntryKind
    BY <2>1 DEF IsDifference, Proper
  <2> QED
    BY <1>2, <2>1, <2>2
<1>6. ASSUME NEW x \in b, NEW y \in a, x.path = p, SamePlace(x, y),
             At(result, p) = {Updated(e, ModifiedEntry(x, y)) : e \in At(s, p)}
      PROVE  /\ At(result, p) = {f}
             /\ f.kind \in EntryKind
             /\ \E e \in s \cup a : e.path = p
             /\ \A z \in a : SamePlace(f, z) => Proper(f)
  <2>1. PICK e \in At(s, p) : f = Updated(e, ModifiedEntry(x, y))
    BY <1>6
  <2>2. e \in s /\ e.path = p /\ Proper(e) /\ IsRecord(e)
    BY <1>1, <2>1 DEF Recorded
  <2>3. At(s, p) = {e}
    BY <1>1, <2>2 DEF PathsDistinct
  <2>4. At(result, p) = {f}
    BY <1>6, <2>1, <2>3
  <2>5. Proper(x) /\ Proper(y)
    BY DEF IsDifference
  <2>6. /\ f.path = e.path /\ f.kind = e.kind
        /\ f.hash = IF x.hash = y.hash THEN e.hash ELSE y.hash
        /\ f.symlink_target = IF x.symlink_target = y.symlink_target
                              THEN e.symlink_target ELSE y.symlink_target
        /\ f.metadata = IF ~ matches(x.metadata, y.metadata)
                           \/ (x.hash # y.hash /\ y.kind = "File")
                        THEN y.metadata ELSE e.metadata
    BY <1>6, <2>1, <2>2, <2>5, UpdatedFits
  <2>7. f.kind \in EntryKind
    BY <2>2, <2>6 DEF Proper
  <2>8. ASSUME NEW z \in a, SamePlace(f, z)
        PROVE  Proper(f)
    <3>1. y.path = p /\ z.path = p
      BY <1>2, <1>6, <2>8 DEF SamePlace
    <3>2. z = y
      BY <3>1 DEF IsDifference, PathsDistinct
    <3>3. e.kind = y.kind
      BY <2>6, <2>8, <3>2 DEF SamePlace
    <3>4. f.hash = None <=> f.kind # "File"
      BY <2>2, <2>5, <2>6, <3>3 DEF Proper
    <3>5. f.symlink_target = None <=> f.kind # "Symlink"
      BY <2>2, <2>5, <2>6, <3>3 DEF Proper
    <3>6. f.metadata.mtime \in Int /\ f.path \in Seq(Nat)
      BY <2>2, <2>5, <2>6 DEF Proper
    <3> QED
      BY <2>7, <3>4, <3>5, <3>6 DEF Proper
  <2> QED
    BY <2>2, <2>4, <2>7, <2>8
<1> QED
  BY <1>2, <1>3, <1>4, <1>5, <1>6 DEF Outcomes

\* The outcome need not be a tree, but it has what the hashes take.
LEMMA SimulatedFits ==
    ASSUME NEW b, NEW a, NEW list, IsDifference(b, a, list), IsFiniteSet(a),
           NEW s, IsFileTree(s), Recorded(s),
           NEW result, result = simulate_apply(s, list)
    PROVE  /\ WellFormed(result)
           /\ \A f \in result, y \in a : SamePlace(f, y) => Proper(f) /\ Proper(y)
<1>1. IsFiniteSet(s) /\ PathsDistinct(s) /\ \A e \in s : Proper(e)
  BY FileTrees DEF WellFormed
<1>2. ASSUME NEW f \in result
      PROVE  /\ At(result, f.path) = {f}
             /\ f.kind \in EntryKind
             /\ \E e \in s \cup a : e.path = f.path
             /\ \A y \in a : SamePlace(f, y) => Proper(f)
  <2>1. PICK p : p = f.path
    OBVIOUS
  <2>2. f \in At(result, p)
    BY <2>1 DEF At
  <2> QED
    BY <1>1, <2>1, <2>2, LeftAt
<1>3. \A e, f \in result : e.path = f.path => e = f
  BY <1>2 DEF At
<1>4. PICK paths : paths = {e.path : e \in s \cup a}
  OBVIOUS
<1>5. \A p \in paths : p \in Seq(Nat)
  BY <1>1, <1>4 DEF PathsDistinct, IsDifference
<1>6. IsFiniteSet(paths)
  <2>1. PICK all : all = s \cup a
    OBVIOUS
  <2>2. IsFiniteSet(all)
    BY <1>1, <2>1, FS_Union
  <2>3. PICK h : h = [e \in all |-> e.path]
    OBVIOUS
  <2>4. h \in Surjection(all, paths)
    BY <1>4, <2>1, <2>3 DEF Surjection
  <2> QED
    BY <2>2, <2>4, FS_Surjection
<1>7. IsFiniteSet(result)
  <2>1. PICK h : h = [f \in result |-> f.path]
    OBVIOUS
  <2>2. h \in [result -> paths]
    BY <1>2, <1>4, <2>1
  <2>3. h \in Injection(result, paths)
    BY <1>3, <2>1, <2>2 DEF Injection, IsInjective
  <2> QED
    BY <1>6, <2>3, FS_Injection
<1>8. WellFormed(result)
  <2>1. \A f \in result : f.path \in Seq(Nat) /\ f.kind \in EntryKind
    BY <1>2, <1>4, <1>5
  <2> QED
    BY <1>3, <1>7, <2>1 DEF WellFormed, PathsDistinct
<1>9. \A y \in a : Proper(y)
  BY DEF IsDifference
<1> QED
  BY <1>2, <1>8, <1>9

LEMMA TreeOfHashed ==
    ASSUME NEW s, IsTree(HashedEntries(s)), PathsDistinct(s)
    PROVE  IsTree(s)
<1>1. ASSUME NEW e \in s, e.path # root
      PROVE  \E d \in At(s, parent(e.path)) : d.kind = "Directory"
  <2>1. PICK x : x = with_dir_hash(e, DirHashes(s))
    OBVIOUS
  <2>2. x \in HashedEntries(s) /\ x.path = e.path
    BY <2>1, WithDirHash DEF HashedEntries
  <2>3. PICK y \in HashedEntries(s) : y.path = parent(e.path) /\ y.kind = "Directory"
    BY <1>1, <2>2 DEF IsTree, At
  <2>4. PICK d \in s : y = with_dir_hash(d, DirHashes(s))
    BY DEF HashedEntries
  <2>5. d.path = parent(e.path) /\ d.kind = "Directory"
    BY <2>3, <2>4, WithDirHash
  <2> QED
    BY <2>5 DEF At
<1> QED
  BY <1>1 DEF IsTree, PathsDistinct

----------------------------------------------------------------------------
(* The comparison of two entries.                                          *)

Kinds == {"KIND", "METADATA", "HASH", "SYMLINK", "EXTRA", "MISSING"}
Discrepancy == [what : Kinds, path : Seq(Nat)]

\* A discrepancy between two entries, if there is one.
Found(what, differs, p) == IF differs THEN <<[what |-> what, path |-> p]>> ELSE <<>>

\* A list of the discrepancies of a path, empty if there are none.
ListsOf(found, differs, p) ==
    /\ found \in Seq(Discrepancy)
    /\ \A d \in ToSet(found) : d.path = p
    /\ found = <<>> <=> ~ differs

LEMMA FoundIs ==
    ASSUME NEW p \in Seq(Nat), NEW what \in Kinds, NEW differs \in BOOLEAN,
           NEW found, found = Found(what, differs, p)
    PROVE  ListsOf(found, differs, p)
<1>1. PICK d : d = [what |-> what, path |-> p]
  OBVIOUS
<1>2. d \in Discrepancy /\ d.path = p
  BY <1>1 DEF Discrepancy
<1>3. CASE differs
  <2>1. found = <<d>>
    BY <1>1, <1>3 DEF Found
  <2>2. found \in Seq(Discrepancy) /\ found # <<>>
    BY <1>2, <2>1
  <2>3. ASSUME NEW e \in ToSet(found)
        PROVE  e = d
    <3>1. DOMAIN found = {1} /\ found[1] = d
      BY <2>1
    <3> QED
      BY <3>1 DEF ToSet
  <2>4. \A e \in ToSet(found) : e.path = p
    BY <1>2, <2>3
  <2> QED
    BY <1>3, <2>2, <2>4 DEF ListsOf
<1>4. CASE ~ differs
  <2>1. found = <<>>
    BY <1>4 DEF Found
  <2>2. found \in Seq(Discrepancy) /\ DOMAIN found = {}
    BY <2>1
  <2>3. ToSet(found) = {}
    BY <2>2 DEF ToSet
  <2> QED
    BY <1>4, <2>1, <2>2, <2>3 DEF ListsOf
<1> QED
  BY <1>3, <1>4

\* Two lists of discrepancies, one after the other.
LEMMA OneAfterOther ==
    ASSUME NEW s \in Seq(Discrepancy), NEW t \in Seq(Discrepancy), NEW u, u = s \o t
    PROVE  /\ u \in Seq(Discrepancy)
           /\ ToSet(u) = ToSet(s) \cup ToSet(t)
           /\ u = <<>> <=> s = <<>> /\ t = <<>>
<1>1. PICK m \in Nat, n \in Nat : m = Len(s) /\ n = Len(t)
  OBVIOUS
<1>2. /\ u \in Seq(Discrepancy) /\ Len(u) = m + n /\ DOMAIN u = 1 .. m + n
      /\ DOMAIN s = 1 .. m /\ DOMAIN t = 1 .. n
      /\ \A k \in 1 .. m : u[k] = s[k]
      /\ \A k \in 1 .. n : u[k + m] = t[k]
  BY <1>1
<1>3. ToSet(u) = ToSet(s) \cup ToSet(t)
  <2>1. \A k \in 1 .. m + n : k \in 1 .. m \/ k - m \in 1 .. n
    OBVIOUS
  <2>2. \A k \in 1 .. m + n : k - m + m = k
    OBVIOUS
  <2>3. /\ \A k \in 1 .. m : k \in 1 .. m + n
        /\ \A k \in 1 .. n : k + m \in 1 .. m + n
    OBVIOUS
  <2>4. ASSUME NEW d \in ToSet(u)
        PROVE  d \in ToSet(s) \cup ToSet(t)
    <3>1. PICK k \in 1 .. m + n : d = u[k]
      BY <1>2 DEF ToSet
    <3>2. CASE k \in 1 .. m
      BY <1>2, <3>1, <3>2 DEF ToSet
    <3>3. CASE k - m \in 1 .. n
      <4>1. d = t[k - m]
        BY <1>2, <2>2, <3>1, <3>3
      <4> QED
        BY <1>2, <3>3, <4>1 DEF ToSet
    <3> QED
      BY <2>1, <3>2, <3>3
  <2>5. ASSUME NEW d \in ToSet(s)
        PROVE  d \in ToSet(u)
    BY <1>2, <2>3 DEF ToSet
  <2>6. ASSUME NEW d \in ToSet(t)
        PROVE  d \in ToSet(u)
    <3>1. PICK k \in 1 .. n : d = t[k]
      BY <1>2 DEF ToSet
    <3>2. PICK j \in 1 .. m + n : j = k + m
      BY <2>3
    <3>3. d = u[j] /\ j \in DOMAIN u
      BY <1>2, <3>1, <3>2
    <3> QED
      BY <3>3 DEF ToSet
  <2> QED
    BY <2>4, <2>5, <2>6
<1>4. u = <<>> <=> s = <<>> /\ t = <<>>
  <2>1. u = <<>> <=> Len(u) = 0
    BY <1>2
  <2>2. s = <<>> <=> m = 0
    BY <1>1
  <2>3. t = <<>> <=> n = 0
    BY <1>1
  <2> QED
    BY <1>2, <2>1, <2>2, <2>3
<1> QED
  BY <1>2, <1>3, <1>4

LEMMA FoundBoth ==
    ASSUME NEW p, NEW s, NEW a \in BOOLEAN, ListsOf(s, a, p),
           NEW t, NEW b \in BOOLEAN, ListsOf(t, b, p), NEW u, u = s \o t,
           NEW c \in BOOLEAN, c <=> a \/ b
    PROVE  ListsOf(u, c, p)
<1>1. s \in Seq(Discrepancy) /\ t \in Seq(Discrepancy)
  BY DEF ListsOf
<1>2. /\ u \in Seq(Discrepancy)
      /\ ToSet(u) = ToSet(s) \cup ToSet(t)
      /\ u = <<>> <=> s = <<>> /\ t = <<>>
  BY <1>1, OneAfterOther
<1> QED
  BY <1>2 DEF ListsOf

LEMMA EntryCompared ==
    ASSUME NEW s, NEW t, s.path = t.path, NEW p \in Seq(Nat), p = t.path,
           NEW implicit, NEW found, found = compare_single_entry(s, t, implicit),
           NEW got, NEW expected, At(got, p) = {s}, At(expected, p) = {t}
    PROVE  ListsOf(found, Mismatch(p, got, expected, implicit), p)
<1>1. PICK kind \in BOOLEAN, meta \in BOOLEAN, hash \in BOOLEAN, link \in BOOLEAN :
        /\ kind <=> s.kind # t.kind
        /\ meta <=> p \notin implicit /\ ~ matches(s.metadata, t.metadata)
        /\ hash <=> s.hash # t.hash
        /\ link <=> s.symlink_target # t.symlink_target
  OBVIOUS
<1>2. PICK k, m, h, l : /\ k = Found("KIND", kind, p) /\ m = Found("METADATA", meta, p)
                        /\ h = Found("HASH", hash, p) /\ l = Found("SYMLINK", link, p)
  OBVIOUS
<1>3. found = k \o m \o h \o l
  BY <1>1, <1>2 DEF compare_single_entry, Found
<1>4. /\ ListsOf(k, kind, p) /\ ListsOf(m, meta, p)
      /\ ListsOf(h, hash, p) /\ ListsOf(l, link, p)
  <2>1. {"KIND", "METADATA", "HASH", "SYMLINK"} \subseteq Kinds
    BY DEF Kinds
  <2>2. ListsOf(k, kind, p)
    BY <1>2, <2>1, FoundIs
  <2>3. ListsOf(m, meta, p)
    BY <1>2, <2>1, FoundIs
  <2>4. ListsOf(h, hash, p)
    BY <1>2, <2>1, FoundIs
  <2>5. ListsOf(l, link, p)
    BY <1>2, <2>1, FoundIs
  <2> QED
    BY <2>2, <2>3, <2>4, <2>5
<1>5. PICK km : km = k \o m
  OBVIOUS
<1>6. PICK kmh : kmh = km \o h
  OBVIOUS
<1>7. found = kmh \o l
  BY <1>3, <1>5, <1>6
<1>8. PICK x \in BOOLEAN : x <=> kind \/ meta
  OBVIOUS
<1>9. PICK y \in BOOLEAN : y <=> x \/ hash
  OBVIOUS
<1>10. PICK z \in BOOLEAN : z <=> y \/ link
  OBVIOUS
<1>11. ListsOf(km, x, p)
  BY <1>4, <1>5, <1>8, FoundBoth
<1>12. ListsOf(kmh, y, p)
  <2>1. ListsOf(km, x, p) /\ ListsOf(h, hash, p)
    BY <1>4, <1>11
  <2> QED
    BY <1>6, <1>9, <2>1, FoundBoth
<1>13. ListsOf(found, z, p)
  <2>1. ListsOf(kmh, y, p) /\ ListsOf(l, link, p)
    BY <1>4, <1>12
  <2> QED
    BY <1>7, <1>10, <2>1, FoundBoth
<1>14. Mismatch(p, got, expected, implicit) <=> z
  <2>1. Mismatch(p, got, expected, implicit) <=>
          \/ s.kind # t.kind
          \/ s.hash # t.hash
          \/ s.symlink_target # t.symlink_target
          \/ p \notin implicit /\ ~ matches(s.metadata, t.metadata)
    BY DEF Mismatch
  <2>2. z <=> kind \/ meta \/ hash \/ link
    BY <1>8, <1>9, <1>10
  <2> QED
    BY <1>1, <2>1, <2>2
<1> QED
  BY <1>13, <1>14 DEF ListsOf

----------------------------------------------------------------------------
(* The invariant.                                                          *)

Passed == Upto(simulated, sim_iter) \cup Upto(target, tgt_iter)

\* The paths on which the short circuit can be relied on: what the snapshot has
\* is never skipped unless it is there, what is there only if it is a tree.
Reliable(p) == IsTree(Simulated) \/ \E t \in After : t.path = p

IsReported(p) == \E d \in ToSet(discrepancies) : d.path = p

\* Of what both iterators have left behind, the discrepancies are reported.
CompareInv ==
    /\ MergeInv
    /\ vpc \in {"idle", "compare", "ok", "failed"}
    /\ discrepancies \in Seq(Discrepancy)
    /\ vpc = "idle" => simulated = <<>> /\ discrepancies = <<>> /\ sim_iter = 1 /\ tgt_iter = 1
    /\ vpc # "idle" =>
         /\ pc = "done"
         /\ present \in Trees
         /\ simulated = Snapshot(simulate_apply(Walk(present, After), changes))
         /\ Cuts(simulated, target, sim_iter, tgt_iter)
         /\ \A d \in ToSet(discrepancies) :
              Disagree(d.path) /\ \E e \in Passed : e.path = d.path
         /\ \A e \in Passed :
              Disagree(e.path) /\ Reliable(e.path) => IsReported(e.path)
    /\ vpc = "failed" => discrepancies # <<>>
    /\ vpc = "ok" => discrepancies = <<>> /\ ~ MoreSim /\ ~ MoreTgt

\* What is compared.
Grounds(tree, list, s, result, u) ==
    /\ s = Walk(tree, After) /\ IsFileTree(s) /\ Recorded(s)
    /\ IsDifference(Before, After, changes)
    /\ result = simulate_apply(s, changes) /\ WellFormed(result)
    /\ ToSet(list) = HashedEntries(result)
    /\ Sorted(list, ToSet(list)) /\ PathsDistinct(ToSet(list))
    /\ IsFileTree(u) /\ After = HashedEntries(u)
    /\ Sorted(target, After) /\ PathsDistinct(After)
    /\ Comparable(u, result) /\ Comparable(result, u)

LEMMA HasGrounds ==
    ASSUME MergeInv, pc = "done", NEW tree \in Trees,
           NEW list, list = Snapshot(simulate_apply(Walk(tree, After), changes))
    PROVE  \E s, result, u : Grounds(tree, list, s, result, u)
<1>1. PICK t, u :
        /\ IsFileTree(t) /\ IsFileTree(u)
        /\ Before = HashedEntries(t) /\ After = HashedEntries(u)
        /\ Sorted(new_entries, After)
        /\ \A e \in Before \cup After : Proper(e)
        /\ PathsDistinct(Before) /\ PathsDistinct(After)
  BY Given DEF MergeInv
<1>2. IsDifference(Before, After, changes)
  <2>1. Enumerates(changes, ChangesOf(Before, After))
    BY LeftBehind
  <2>2. Recorded(After)
    BY <1>1, HashedAreRecords
  <2> QED
    BY <1>1, <2>1, <2>2 DEF IsDifference
<1>3. PICK s : s = Walk(tree, After)
  OBVIOUS
<1>4. IsFileTree(s)
  BY <1>1, <1>3, TreesAssumption, WalkedTree
<1>5. Recorded(s)
  BY <1>4 DEF IsFileTree, IsEntry, Recorded, IsRecord
<1>6. PICK result : result = simulate_apply(s, changes)
  OBVIOUS
<1>7. IsFiniteSet(After)
  BY <1>1, HashedFinite DEF IsFileTree
<1>8. /\ WellFormed(result)
      /\ \A f \in result, y \in After : SamePlace(f, y) => Proper(f) /\ Proper(y)
  BY <1>2, <1>4, <1>5, <1>6, <1>7, SimulatedFits
<1>9. /\ ToSet(list) = HashedEntries(result)
      /\ Sorted(list, ToSet(list)) /\ PathsDistinct(ToSet(list))
  BY <1>3, <1>6, <1>8, SnapshotSet, SnapshotLists
<1>10. Comparable(u, result) /\ Comparable(result, u)
  <2>1. ASSUME NEW f \in result, NEW e \in u, f.path = e.path, f.kind = e.kind
        PROVE  Proper(f) /\ Proper(e)
    <3>1. PICK y : y = with_dir_hash(e, DirHashes(u))
      OBVIOUS
    <3>2. y \in After /\ SamePlace(f, y)
      BY <1>1, <2>1, <3>1, WithDirHash DEF HashedEntries, SamePlace
    <3> QED
      BY <1>1, <1>8, <3>2, FileTrees
  <2> QED
    BY <2>1 DEF Comparable, SamePlace
<1> QED
  BY <1>1, <1>2, <1>3, <1>4, <1>5, <1>6, <1>8, <1>9, <1>10 DEF Grounds, target

LEMMA CompareInit == VerifyInit => CompareInv
<1> SUFFICES ASSUME VerifyInit PROVE CompareInv
  OBVIOUS
<1>1. MergeInv
  BY MergeInit DEF VerifyInit
<1>2. <<>> \in Seq(Discrepancy)
  OBVIOUS
<1> QED
  BY <1>1, <1>2 DEF VerifyInit, CompareInv

\* The steps of the diff precede the comparison.
LEMMA DiffKeeps ==
    ASSUME CompareInv, DiffStep
    PROVE  CompareInv'
<1>1. MergeInv'
  BY MergeStep DEF CompareInv, DiffStep
<1>2. pc = "merge"
  BY DEF DiffStep, Next, OnlyOld, OnlyNew, SkipSubtree, KindChanged, SameKind, BothExhausted,
         Advance
<1>3. vpc = "idle"
  BY <1>2 DEF CompareInv
<1>4. UNCHANGED verifyVars
  BY DEF DiffStep
<1> QED
  BY <1>1, <1>3, <1>4 DEF CompareInv, verifyVars

LEMMA SimulateKeeps ==
    ASSUME CompareInv, SimulateDiff
    PROVE  CompareInv'
<1>1. MergeInv' /\ UNCHANGED <<old_entries, new_entries, changes, pc>>
  <2>1. [Next]_vars /\ UNCHANGED <<old_entries, new_entries, changes, pc>>
    BY DEF SimulateDiff, diffVars, vars
  <2> QED
    BY <2>1, MergeStep DEF CompareInv
<1>2. /\ vpc = "idle" /\ vpc' = "compare" /\ pc = "done"
      /\ UNCHANGED <<sim_iter, tgt_iter, discrepancies>>
  BY DEF SimulateDiff
<1>3. discrepancies = <<>> /\ sim_iter = 1 /\ tgt_iter = 1
  BY <1>2 DEF CompareInv
<1>4. PICK tree \in Trees :
        /\ present' = tree
        /\ simulated' = Snapshot(simulate_apply(Walk(tree, ToSet(target)), changes))
  BY DEF SimulateDiff
<1>5. After' = After /\ ToSet(target) = After
  BY <1>1 DEF After, target
<1>6. /\ present' \in Trees /\ pc' = "done"
      /\ simulated' = Snapshot(simulate_apply(Walk(present', After'), changes'))
  BY <1>1, <1>2, <1>4, <1>5
<1>7. Len(simulated') \in Nat /\ Len(target') \in Nat
  <2>1. PICK list : list = simulated'
    OBVIOUS
  <2>2. PICK s, result, u : Grounds(tree, list, s, result, u)
    BY <1>2, <1>4, <1>5, <2>1, HasGrounds DEF CompareInv
  <2>3. target' = target
    BY <1>1 DEF target
  <2> QED
    BY <2>1, <2>2, <2>3, SortedIs DEF Grounds
<1>8. /\ Cuts(simulated', target', 1, 1)
      /\ Upto(simulated', 1) = {} /\ Upto(target', 1) = {}
  BY <1>7, CutsFirst
<1>9. Passed' = {}
  BY <1>2, <1>3, <1>8 DEF Passed
<1>10. ToSet(discrepancies') = {}
  BY <1>2, <1>3 DEF ToSet
<1> QED
  BY <1>1, <1>2, <1>3, <1>6, <1>8, <1>9, <1>10 DEF CompareInv

\* A step that reports what disagrees of what it passes.
LEMMA ProceedKeeps ==
    ASSUME CompareInv, vpc = "compare", NEW k, NEW l,
           Passes(simulated, target, sim_iter, tgt_iter, k, l),
           NEW xs, xs = Between(simulated, sim_iter, k),
           NEW ys, ys = Between(target, tgt_iter, l),
           NEW found \in Seq(Discrepancy), Proceed(k, l, found),
           \A d \in ToSet(found) : Disagree(d.path) /\ \E e \in xs \cup ys : e.path = d.path,
           \A e \in xs \cup ys : Disagree(e.path) /\ Reliable(e.path) =>
               \E d \in ToSet(found) : d.path = e.path
    PROVE  CompareInv'
<1>1. PICK s, result, u : Grounds(present, simulated, s, result, u)
  BY HasGrounds DEF CompareInv
<1>2. Sorted(simulated, Simulated) /\ Sorted(target, After)
  BY <1>1 DEF Grounds, Simulated
<1>3. /\ Cuts(simulated, target, k, l)
      /\ Upto(simulated, k) = Upto(simulated, sim_iter) \cup xs
      /\ Upto(target, l) = Upto(target, tgt_iter) \cup ys
  BY <1>2, CutsFurther DEF CompareInv
<1>4. /\ vpc' = "compare" /\ sim_iter' = k /\ tgt_iter' = l
      /\ discrepancies' = discrepancies \o found
      /\ UNCHANGED <<diffVars, present, simulated, implicit_dirs>>
  BY DEF Proceed
<1>5. /\ After' = After /\ target' = target /\ changes' = changes /\ pc' = pc
      /\ Simulated' = Simulated /\ simulated' = simulated /\ present' = present
  BY <1>4 DEF diffVars, vars, After, target, Simulated
<1>6. MergeInv'
  BY <1>4, MergeStep DEF CompareInv, diffVars
<1>7. /\ \A p : Disagree(p)' <=> Disagree(p)
      /\ \A p : Reliable(p)' <=> Reliable(p)
  BY <1>4, <1>5 DEF Disagree, Reliable
<1>8. Passed' = Passed \cup xs \cup ys
  BY <1>3, <1>4, <1>5 DEF Passed
<1>9. /\ discrepancies' \in Seq(Discrepancy)
      /\ ToSet(discrepancies') = ToSet(discrepancies) \cup ToSet(found)
  BY <1>4, OneAfterOther DEF CompareInv
<1>10. \A p : IsReported(p)' <=> IsReported(p) \/ \E d \in ToSet(found) : d.path = p
  BY <1>9 DEF IsReported
<1>11. ASSUME NEW d \in ToSet(discrepancies)'
       PROVE  Disagree(d.path)' /\ \E e \in Passed' : e.path = d.path
  <2>1. Disagree(d.path) /\ \E e \in Passed \cup xs \cup ys : e.path = d.path
    BY <1>9 DEF CompareInv
  <2> QED
    BY <1>7, <1>8, <2>1
<1>12. ASSUME NEW e \in Passed', Disagree(e.path)', Reliable(e.path)'
       PROVE  IsReported(e.path)'
  <2>1. Disagree(e.path) /\ Reliable(e.path) /\ e \in Passed \cup xs \cup ys
    BY <1>7, <1>8, <1>12
  <2>2. CASE e \in Passed
    BY <1>10, <2>1, <2>2 DEF CompareInv
  <2>3. CASE e \in xs \cup ys
    BY <1>10, <2>1, <2>3
  <2> QED
    BY <2>1, <2>2, <2>3
<1>13. /\ pc' = "done" /\ present' \in Trees
       /\ simulated' = Snapshot(simulate_apply(Walk(present', After'), changes'))
  BY <1>5 DEF CompareInv
<1>14. Cuts(simulated', target', sim_iter', tgt_iter')
  BY <1>3, <1>4, <1>5
<1> QED
  BY <1>4, <1>6, <1>9, <1>11, <1>12, <1>13, <1>14 DEF CompareInv

LEMMA Reports ==
    ASSUME NEW found, NEW differs, NEW p, ListsOf(found, differs, p)
    PROVE  differs <=> \E d \in ToSet(found) : d.path = p
<1>1. PICK n \in Nat : n = Len(found) /\ DOMAIN found = 1 .. n
  BY DEF ListsOf
<1>2. found = <<>> <=> n = 0
  BY <1>1 DEF ListsOf
<1>3. ASSUME differs
      PROVE  \E d \in ToSet(found) : d.path = p
  <2>1. 1 \in 1 .. n
    BY <1>1, <1>2, <1>3 DEF ListsOf
  <2>2. found[1] \in ToSet(found)
    BY <1>1, <2>1 DEF ToSet
  <2> QED
    BY <2>2 DEF ListsOf
<1>4. ASSUME ~ differs
      PROVE  ToSet(found) = {}
  BY <1>1, <1>2, <1>4 DEF ListsOf, ToSet
<1> QED
  BY <1>3, <1>4

\* A path on one side only.
LEMMA LeftOver ==
    ASSUME NEW p \in Seq(Nat), NEW what \in Kinds,
           NEW found, found = <<[what |-> what, path |-> p]>>
    PROVE  ListsOf(found, TRUE, p)
<1>1. found = Found(what, TRUE, p)
  BY DEF Found
<1> QED
  BY <1>1, FoundIs

LEMMA ExtraKeeps ==
    ASSUME CompareInv, Extra
    PROVE  CompareInv'
<1>1. vpc = "compare" /\ Proceed(sim_iter + 1, tgt_iter, <<[what |-> "EXTRA", path |-> sim.path]>>)
  BY DEF Extra, Proceed
<1>2. PICK s, result, u : Grounds(present, simulated, s, result, u)
  BY <1>1, HasGrounds DEF CompareInv
<1>3. Sorted(simulated, Simulated) /\ Sorted(target, After)
  BY <1>2 DEF Grounds, Simulated
<1>4. /\ sim_iter <= Len(simulated)
      /\ tgt_iter <= Len(target) => Less(simulated[sim_iter].path, target[tgt_iter].path)
  BY DEF Extra, MoreSim, MoreTgt, sim, tgt
<1>5. Cuts(simulated, target, sim_iter, tgt_iter)
  BY <1>1 DEF CompareInv
<1>6. /\ Passes(simulated, target, sim_iter, tgt_iter, sim_iter + 1, tgt_iter)
      /\ Between(simulated, sim_iter, sim_iter + 1) = {sim}
      /\ Between(target, tgt_iter, tgt_iter) = {}
      /\ sim \in Simulated /\ \A t \in After : t.path # sim.path
  BY <1>3, <1>4, <1>5, PassFirst DEF sim
<1>7. PICK p : p = sim.path
  OBVIOUS
<1>8. p \in Seq(Nat)
  BY <1>3, <1>6, <1>7 DEF Sorted
<1>9. Disagree(p)
  <2>1. ToSet(target) = After
    BY DEF After, target
  <2>2. At(ToSet(target), p) = {}
    BY <1>6, <1>7, <2>1 DEF At
  <2> QED
    BY <2>2 DEF Disagree, Mismatch
<1>10. PICK found : found = <<[what |-> "EXTRA", path |-> sim.path]>>
  OBVIOUS
<1>11. ListsOf(found, TRUE, p)
  BY <1>7, <1>8, <1>10, LeftOver DEF Kinds
<1>12. /\ found \in Seq(Discrepancy)
       /\ \A d \in ToSet(found) : d.path = p
       /\ \E d \in ToSet(found) : d.path = p
  BY <1>11, Reports DEF ListsOf
<1>13. Proceed(sim_iter + 1, tgt_iter, found)
  BY <1>1, <1>10
<1> QED
  BY <1>1, <1>6, <1>7, <1>9, <1>12, <1>13, ProceedKeeps

LEMMA AbsentKeeps ==
    ASSUME CompareInv, Absent
    PROVE  CompareInv'
<1>1. vpc = "compare" /\ Proceed(sim_iter, tgt_iter + 1, <<[what |-> "MISSING", path |-> tgt.path]>>)
  BY DEF Absent, Proceed
<1>2. PICK s, result, u : Grounds(present, simulated, s, result, u)
  BY <1>1, HasGrounds DEF CompareInv
<1>3. Sorted(simulated, Simulated) /\ Sorted(target, After)
  BY <1>2 DEF Grounds, Simulated
<1>4. /\ tgt_iter <= Len(target)
      /\ sim_iter <= Len(simulated) => Less(target[tgt_iter].path, simulated[sim_iter].path)
  BY DEF Absent, MoreSim, MoreTgt, sim, tgt
<1>5. Cuts(simulated, target, sim_iter, tgt_iter)
  BY <1>1 DEF CompareInv
<1>6. /\ Passes(simulated, target, sim_iter, tgt_iter, sim_iter, tgt_iter + 1)
      /\ Between(simulated, sim_iter, sim_iter) = {}
      /\ Between(target, tgt_iter, tgt_iter + 1) = {tgt}
      /\ tgt \in After /\ \A e \in Simulated : e.path # tgt.path
  BY <1>3, <1>4, <1>5, PassSecond DEF tgt
<1>7. PICK p : p = tgt.path
  OBVIOUS
<1>8. p \in Seq(Nat)
  BY <1>3, <1>6, <1>7 DEF Sorted
<1>9. Disagree(p)
  <2>1. At(Simulated, p) = {}
    BY <1>6, <1>7 DEF At
  <2> QED
    BY <2>1 DEF Disagree, Mismatch
<1>10. PICK found : found = <<[what |-> "MISSING", path |-> tgt.path]>>
  OBVIOUS
<1>11. ListsOf(found, TRUE, p)
  BY <1>7, <1>8, <1>10, LeftOver DEF Kinds
<1>12. /\ found \in Seq(Discrepancy)
       /\ \A d \in ToSet(found) : d.path = p
       /\ \E d \in ToSet(found) : d.path = p
  BY <1>11, Reports DEF ListsOf
<1>13. Proceed(sim_iter, tgt_iter + 1, found)
  BY <1>1, <1>10
<1> QED
  BY <1>1, <1>6, <1>7, <1>9, <1>12, <1>13, ProceedKeeps

\* Both iterators are at an entry of one path.
LEMMA HeadsCompared ==
    ASSUME CompareInv, vpc = "compare", OnBothSides,
           NEW p, p = tgt.path,
           NEW found, found = compare_single_entry(sim, tgt, implicit_dirs)
    PROVE  /\ sim_iter \in 1 .. Len(simulated) /\ tgt_iter \in 1 .. Len(target)
           /\ sim \in Simulated /\ tgt \in After /\ sim.path = p
           /\ Passes(simulated, target, sim_iter, tgt_iter, sim_iter + 1, tgt_iter + 1)
           /\ Between(simulated, sim_iter, sim_iter + 1) = {sim}
           /\ Between(target, tgt_iter, tgt_iter + 1) = {tgt}
           /\ found \in Seq(Discrepancy)
           /\ \A d \in ToSet(found) : d.path = p
           /\ Disagree(p) <=> \E d \in ToSet(found) : d.path = p
<1>1. PICK s, result, u : Grounds(present, simulated, s, result, u)
  BY HasGrounds DEF CompareInv
<1>2. /\ Sorted(simulated, Simulated) /\ Sorted(target, After)
      /\ PathsDistinct(Simulated) /\ PathsDistinct(After)
  BY <1>1 DEF Grounds, Simulated
<1>3. /\ sim_iter <= Len(simulated) /\ tgt_iter <= Len(target)
      /\ simulated[sim_iter].path = target[tgt_iter].path
  BY DEF OnBothSides, MoreSim, MoreTgt, sim, tgt
<1>4. Cuts(simulated, target, sim_iter, tgt_iter)
  BY DEF CompareInv
<1>5. /\ Passes(simulated, target, sim_iter, tgt_iter, sim_iter + 1, tgt_iter + 1)
      /\ Between(simulated, sim_iter, sim_iter + 1) = {sim}
      /\ Between(target, tgt_iter, tgt_iter + 1) = {tgt}
      /\ sim \in Simulated /\ tgt \in After
      /\ sim_iter \in 1 .. Len(simulated) /\ tgt_iter \in 1 .. Len(target)
  BY <1>2, <1>3, <1>4, PassBoth DEF sim, tgt
<1>6. sim.path = p /\ p \in Seq(Nat)
  BY <1>2, <1>5 DEF OnBothSides, PathsDistinct
<1>7. At(Simulated, p) = {sim} /\ At(After, p) = {tgt}
  BY <1>2, <1>5, <1>6 DEF At, PathsDistinct
<1>8. ListsOf(found, Mismatch(p, Simulated, After, implicit_dirs), p)
  <2>1. PICK x, y : x = sim /\ y = tgt
    OBVIOUS
  <2>2. x.path = y.path /\ p = y.path /\ found = compare_single_entry(x, y, implicit_dirs)
        /\ At(Simulated, p) = {x} /\ At(After, p) = {y}
    BY <1>6, <1>7, <2>1
  <2> QED
    BY <1>6, <2>2, EntryCompared
<1>9. Disagree(p) <=> Mismatch(p, Simulated, After, implicit_dirs)
  BY DEF Disagree, target, After
<1>10. /\ found \in Seq(Discrepancy)
       /\ \A d \in ToSet(found) : d.path = p
       /\ Mismatch(p, Simulated, After, implicit_dirs) <=> \E d \in ToSet(found) : d.path = p
  BY <1>8, Reports DEF ListsOf
<1> QED
  BY <1>5, <1>6, <1>9, <1>10

LEMMA CompareEntryKeeps ==
    ASSUME CompareInv, CompareEntry
    PROVE  CompareInv'
<1>1. PICK p, found : p = tgt.path /\ found = compare_single_entry(sim, tgt, implicit_dirs)
  OBVIOUS
<1>2. /\ vpc = "compare" /\ OnBothSides
      /\ Proceed(sim_iter + 1, tgt_iter + 1, found)
  BY <1>1 DEF CompareEntry, Proceed
<1>3. /\ sim.path = p
      /\ Passes(simulated, target, sim_iter, tgt_iter, sim_iter + 1, tgt_iter + 1)
      /\ Between(simulated, sim_iter, sim_iter + 1) = {sim}
      /\ Between(target, tgt_iter, tgt_iter + 1) = {tgt}
      /\ found \in Seq(Discrepancy)
      /\ \A d \in ToSet(found) : d.path = p
      /\ Disagree(p) <=> \E d \in ToSet(found) : d.path = p
  BY <1>1, <1>2, HeadsCompared
<1>4. \A d \in ToSet(found) : Disagree(d.path) /\ \E e \in {sim} \cup {tgt} : e.path = d.path
  BY <1>1, <1>3
<1>5. \A e \in {sim} \cup {tgt} : Disagree(e.path) => \E d \in ToSet(found) : d.path = e.path
  BY <1>1, <1>3
<1> QED
  BY <1>2, <1>3, <1>4, <1>5, ProceedKeeps

LEMMA Agree ==
    ASSUME NEW got, PathsDistinct(got), NEW expected, PathsDistinct(expected),
           NEW x \in got, NEW y \in expected, SamePlace(x, y), Equivalent(x, y), NEW implicit
    PROVE  ~ Mismatch(y.path, got, expected, implicit)
<1>1. PICK p : p = y.path /\ p = x.path
  BY DEF SamePlace
<1>2. At(got, p) = {x} /\ At(expected, p) = {y}
  BY <1>1 DEF At, PathsDistinct
<1> QED
  BY <1>1, <1>2 DEF Mismatch, SamePlace, Equivalent

\* Where the short circuit applies, nothing underneath disagrees, of the
\* snapshot; and if the simulated state is a tree, nothing of it either.
LEMMA SameTreeAgrees ==
    ASSUME NEW list, NEW tree, NEW s, NEW result, NEW u, Grounds(tree, list, s, result, u),
           NEW got, got = ToSet(list), NEW x \in got, NEW y \in After, NEW d,
           x.path = d, y.path = d, x.kind = "Directory", y.kind = "Directory",
           x.dir_hash = y.dir_hash, NEW implicit
    PROVE  /\ \A v \in Under(After, d) : ~ Mismatch(v.path, got, After, implicit)
           /\ IsTree(got) =>
                \A w \in Under(got, d) : ~ Mismatch(w.path, got, After, implicit)
<1>1. /\ WellFormed(result) /\ IsFileTree(u)
      /\ got = HashedEntries(result) /\ After = HashedEntries(u)
      /\ PathsDistinct(got) /\ PathsDistinct(After)
      /\ Comparable(u, result) /\ Comparable(result, u)
  BY DEF Grounds
<1>2. WellFormed(u) /\ IsTree(u)
  BY <1>1, FileTrees
<1>3. d \in DirPaths(result) /\ d \in DirPaths(u) /\ DirHashes(result)[d] = DirHashes(u)[d]
  <2>1. d \in DirPaths(result) /\ x.dir_hash = {DirHashes(result)[d]}
    BY <1>1, DirHashIs
  <2>2. d \in DirPaths(u) /\ y.dir_hash = {DirHashes(u)[d]}
    BY <1>1, DirHashIs
  <2> QED
    BY <2>1, <2>2
<1>4. ASSUME NEW v \in Under(After, d)
      PROVE  ~ Mismatch(v.path, got, After, implicit)
  <2>1. PICK w \in Under(got, d) :
          SamePlace(v, w) /\ Equivalent(v, w) /\ Proper(v) /\ Proper(w)
    BY <1>1, <1>2, <1>3, BelowEquivalent
  <2>2. SamePlace(w, v) /\ Equivalent(w, v)
    BY <2>1, EquivalentBack
  <2>3. w \in got /\ v \in After
    BY DEF Under
  <2> QED
    BY <1>1, <2>2, <2>3, Agree
<1>5. ASSUME IsTree(got), NEW w \in Under(got, d)
      PROVE  ~ Mismatch(w.path, got, After, implicit)
  <2>1. IsTree(result)
    BY <1>1, <1>5, TreeOfHashed DEF WellFormed
  <2>2. PICK v \in Under(After, d) : SamePlace(w, v) /\ Equivalent(w, v)
    BY <1>1, <1>2, <1>3, <2>1, BelowEquivalent
  <2>3. w.path = v.path
    BY <2>2 DEF SamePlace
  <2> QED
    BY <1>4, <2>3
<1> QED
  BY <1>4, <1>5

LEMMA SkipTreeKeeps ==
    ASSUME CompareInv, SkipTree
    PROVE  CompareInv'
<1>1. PICK p, found, k, l :
        /\ p = tgt.path /\ found = compare_single_entry(sim, tgt, implicit_dirs)
        /\ k = skip_subtree(sim_iter, simulated) /\ l = skip_subtree(tgt_iter, target)
  OBVIOUS
<1>2. vpc = "compare" /\ OnBothSides /\ SameTree /\ Proceed(k, l, found)
  BY <1>1 DEF SkipTree, Proceed
<1>3. /\ sim_iter \in 1 .. Len(simulated) /\ tgt_iter \in 1 .. Len(target)
      /\ sim \in Simulated /\ tgt \in After /\ sim.path = p
      /\ found \in Seq(Discrepancy)
      /\ \A d \in ToSet(found) : d.path = p
      /\ Disagree(p) <=> \E d \in ToSet(found) : d.path = p
  BY <1>1, <1>2, HeadsCompared
<1>4. PICK s, result, u : Grounds(present, simulated, s, result, u)
  BY <1>2, HasGrounds DEF CompareInv
<1>5. Sorted(simulated, Simulated) /\ Sorted(target, After)
  BY <1>4 DEF Grounds, Simulated
<1>6. Subtree(simulated, Simulated, p, sim_iter, k) /\ Subtree(target, After, p, tgt_iter, l)
  <2>1. simulated[sim_iter].path = p /\ target[tgt_iter].path = p
    BY <1>1, <1>3 DEF sim, tgt
  <2> QED
    BY <1>1, <1>3, <1>5, <2>1, SkipsSubtree
<1>7. Passes(simulated, target, sim_iter, tgt_iter, k, l)
  BY <1>5, <1>6, PassSubtrees
<1>8. /\ Between(simulated, sim_iter, k) = {sim} \cup Under(Simulated, p)
      /\ Between(target, tgt_iter, l) = {tgt} \cup Under(After, p)
  BY <1>6 DEF Subtree, sim, tgt
<1>9. /\ \A v \in Under(After, p) : ~ Mismatch(v.path, Simulated, After, implicit_dirs)
      /\ IsTree(Simulated) =>
           \A w \in Under(Simulated, p) : ~ Mismatch(w.path, Simulated, After, implicit_dirs)
  <2>1. PICK x, y : x = sim /\ y = tgt
    OBVIOUS
  <2>2. /\ x \in Simulated /\ y \in After /\ x.path = p /\ y.path = p
        /\ x.kind = "Directory" /\ y.kind = "Directory" /\ x.dir_hash = y.dir_hash
    BY <1>1, <1>2, <1>3, <2>1 DEF SameTree
  <2>3. Simulated = ToSet(simulated)
    BY DEF Simulated
  <2> QED
    BY <1>4, <2>2, <2>3, SameTreeAgrees
<1>10. \A q : Disagree(q) <=> Mismatch(q, Simulated, After, implicit_dirs)
  BY DEF Disagree, target, After
<1>11. \A d \in ToSet(found) :
          /\ Disagree(d.path)
          /\ \E e \in Between(simulated, sim_iter, k) \cup Between(target, tgt_iter, l) :
               e.path = d.path
  BY <1>1, <1>3, <1>8
<1>12. ASSUME NEW e \in Between(simulated, sim_iter, k) \cup Between(target, tgt_iter, l),
              Disagree(e.path), Reliable(e.path)
       PROVE  \E d \in ToSet(found) : d.path = e.path
  <2>1. CASE e.path = p
    BY <1>3, <1>12, <2>1
  <2>2. CASE e \in Under(After, p)
    BY <1>9, <1>10, <1>12, <2>2
  <2>3. CASE e \in Under(Simulated, p) /\ IsTree(Simulated)
    BY <1>9, <1>10, <1>12, <2>3
  <2>4. CASE e \in Under(Simulated, p) /\ \E t \in After : t.path = e.path
    <3>1. PICK t \in Under(After, p) : t.path = e.path
      BY <2>4 DEF Under
    <3> QED
      BY <1>9, <1>10, <1>12, <3>1
  <2>5. e.path = p \/ e \in Under(After, p) \/ e \in Under(Simulated, p)
    BY <1>1, <1>3, <1>8
  <2> QED
    BY <1>12, <2>1, <2>2, <2>3, <2>4, <2>5 DEF Reliable
<1> QED
  BY <1>2, <1>3, <1>7, <1>11, <1>12, ProceedKeeps

LEMMA VerdictKeeps ==
    ASSUME CompareInv, Verdict
    PROVE  CompareInv'
<1>1. /\ vpc = "compare" /\ ~ MoreSim /\ ~ MoreTgt
      /\ vpc' = IF discrepancies = <<>> THEN "ok" ELSE "failed"
      /\ UNCHANGED <<diffVars, present, simulated, implicit_dirs, sim_iter, tgt_iter, discrepancies>>
  BY DEF Verdict
<1>2. /\ After' = After /\ target' = target /\ changes' = changes /\ pc' = pc
      /\ Simulated' = Simulated
  BY <1>1 DEF diffVars, vars, After, target, Simulated
<1>3. MergeInv'
  BY <1>1, MergeStep DEF CompareInv, diffVars
<1>4. /\ \A p : Disagree(p)' <=> Disagree(p)
      /\ \A p : Reliable(p)' <=> Reliable(p)
      /\ \A p : IsReported(p)' <=> IsReported(p)
      /\ Passed' = Passed
  BY <1>1, <1>2 DEF Disagree, Reliable, IsReported, Passed
<1>5. (MoreSim <=> MoreSim') /\ (MoreTgt <=> MoreTgt')
  BY <1>1, <1>2 DEF MoreSim, MoreTgt
<1> QED
  BY <1>1, <1>2, <1>3, <1>4, <1>5 DEF CompareInv

LEMMA CompareStep ==
    ASSUME CompareInv, [VerifyNext]_<<diffVars, verifyVars>>
    PROVE  CompareInv'
<1>1. CASE DiffStep
  BY <1>1, DiffKeeps
<1>2. CASE SimulateDiff
  BY <1>2, SimulateKeeps
<1>3. CASE Extra
  BY <1>3, ExtraKeeps
<1>4. CASE Absent
  BY <1>4, AbsentKeeps
<1>5. CASE SkipTree
  BY <1>5, SkipTreeKeeps
<1>6. CASE CompareEntry
  BY <1>6, CompareEntryKeeps
<1>7. CASE Verdict
  BY <1>7, VerdictKeeps
<1>8. CASE UNCHANGED <<diffVars, verifyVars>>
  <2>1. MergeInv'
    BY <1>8, MergeStep DEF CompareInv, diffVars
  <2>2. /\ UNCHANGED verifyVars /\ After' = After /\ target' = target /\ changes' = changes
        /\ pc' = pc
    BY <1>8 DEF diffVars, vars, After, target
  <2>3. Simulated' = Simulated
    BY <2>2 DEF verifyVars, Simulated
  <2>4. /\ \A p : Disagree(p)' <=> Disagree(p)
        /\ \A p : Reliable(p)' <=> Reliable(p)
        /\ \A p : IsReported(p)' <=> IsReported(p)
        /\ Passed' = Passed /\ (MoreSim <=> MoreSim') /\ (MoreTgt <=> MoreTgt')
    BY <2>2, <2>3 DEF verifyVars, Disagree, Reliable, IsReported, Passed, MoreSim, MoreTgt
  <2> QED
    BY <2>1, <2>2, <2>3, <2>4 DEF CompareInv, verifyVars
<1> QED
  BY <1>1, <1>2, <1>3, <1>4, <1>5, <1>6, <1>7, <1>8 DEF VerifyNext, Compare

LEMMA SpecCompareInv == VerifySpec => []CompareInv
<1>1. CompareInv /\ [VerifyNext]_<<diffVars, verifyVars>> => CompareInv'
  BY CompareStep
<1> QED
  BY <1>1, CompareInit, PTL DEF VerifySpec

----------------------------------------------------------------------------
(* Theorems.                                                               *)

LEMMA ComparedIs ==
    ASSUME CompareInv
    PROVE  Compared = {e.path : e \in Passed}
<1>1. /\ \E set : Sorted(simulated, set)
      /\ sim_iter \in 1 .. Len(simulated) + 1 /\ tgt_iter \in 1 .. Len(target) + 1
  <2>1. CASE vpc = "idle"
    <3>1. simulated = <<>> /\ sim_iter = 1 /\ tgt_iter = 1
      BY <2>1 DEF CompareInv
    <3>2. Sorted(simulated, {})
      BY <3>1 DEF Sorted, Lists
    <3>3. Len(target) \in Nat /\ Len(simulated) \in Nat
      <4>1. Sorted(target, After)
        BY Given DEF CompareInv, MergeInv, target
      <4> QED
        BY <3>1, <4>1, SortedIs
    <3> QED
      BY <3>1, <3>2, <3>3
  <2>2. CASE vpc # "idle"
    <3>1. PICK s, result, u : Grounds(present, simulated, s, result, u)
      BY <2>2, HasGrounds DEF CompareInv
    <3>2. Cuts(simulated, target, sim_iter, tgt_iter)
      BY <2>2 DEF CompareInv
    <3> QED
      BY <3>1, <3>2 DEF Grounds, Cuts
  <2> QED
    BY <2>1, <2>2
<1>2. Sorted(target, After)
  BY Given DEF CompareInv, MergeInv, target
<1>3. PICK set : Sorted(simulated, set)
  BY <1>1
<1>4. /\ ToSet(SubSeq(simulated, 1, sim_iter - 1)) = Upto(simulated, sim_iter)
      /\ ToSet(SubSeq(target, 1, tgt_iter - 1)) = Upto(target, tgt_iter)
  BY <1>1, <1>2, <1>3, PrefixSet
<1> QED
  BY <1>4 DEF Compared, Passed

LEMMA Exact ==
    ASSUME CompareInv
    PROVE  ReportsExactly
<1>1. \A p : p \in Compared <=> \E e \in Passed : e.path = p
  BY ComparedIs
<1>2. \A p : p \in Reported <=> IsReported(p)
  BY DEF Reported, IsReported
<1>3. CASE vpc = "idle"
  <2>1. /\ discrepancies = <<>> /\ simulated = <<>> /\ sim_iter = 1 /\ tgt_iter = 1
    BY <1>3 DEF CompareInv
  <2>2. Upto(simulated, sim_iter) = {} /\ Upto(target, tgt_iter) = {}
    BY <2>1 DEF Upto
  <2>3. Passed = {}
    BY <2>2 DEF Passed
  <2>4. ToSet(discrepancies) = {}
    BY <2>1 DEF ToSet
  <2>5. Reported = {} /\ Compared = {}
    BY <1>1, <2>3, <2>4 DEF Reported
  <2> QED
    BY <2>5 DEF ReportsExactly
<1>4. CASE vpc # "idle"
  <2>1. ASSUME NEW p \in Reported
        PROVE  p \in Compared /\ Disagree(p)
    BY <1>1, <1>2, <1>4 DEF CompareInv, IsReported
  <2>2. ASSUME IsTree(Simulated), NEW p \in Compared, Disagree(p)
        PROVE  p \in Reported
    BY <1>1, <1>2, <1>4, <2>2 DEF CompareInv, Reliable
  <2> QED
    BY <2>1, <2>2 DEF ReportsExactly
<1> QED
  BY <1>3, <1>4

\* For all trees, at every step of the comparison: what is reported disagrees
\* and has been compared, and when the simulated state is a tree all that
\* disagrees is reported, the subtrees skipped for their hash included.
THEOREM VerifyReportsExactly == VerifySpec => []ReportsExactly
<1>1. CompareInv => ReportsExactly
  BY Exact
<1> QED
  BY <1>1, SpecCompareInv, PTL

\* After success, all paths of the snapshot agree.
LEMMA SuccessMeans ==
    ASSUME CompareInv, vpc = "ok", NEW t \in After
    PROVE  ~ Disagree(t.path)
<1>1. PICK s, result, u : Grounds(present, simulated, s, result, u)
  BY HasGrounds DEF CompareInv
<1>2. Sorted(target, After) /\ Len(target) \in Nat
  BY <1>1, SortedIs DEF Grounds
<1>3. tgt_iter \in 1 .. Len(target) + 1 /\ ~ tgt_iter <= Len(target)
  BY DEF CompareInv, Cuts, MoreTgt
<1>4. tgt_iter = Len(target) + 1
  BY <1>2, <1>3
<1>5. t \in Upto(target, tgt_iter)
  <2>1. PICK n \in 1 .. Len(target) : target[n] = t
    BY <1>2, SortedIs
  <2>2. n \in 1 .. tgt_iter - 1
    BY <1>2, <1>4
  <2> QED
    BY <2>1, <2>2 DEF Upto
<1>6. t \in Passed /\ Reliable(t.path)
  BY <1>5 DEF Passed, Reliable
<1>7. ~ IsReported(t.path)
  BY DEF CompareInv, IsReported, ToSet
<1> QED
  BY <1>6, <1>7 DEF CompareInv

LEMMA CacheHides ==
    ASSUME CompareInv
    PROVE  HiddenByCacheOnly
<1> SUFFICES ASSUME vpc = "ok", NEW f \in present, NEW t \in After,
                    f.path = t.path, f.kind = "File", t.kind = "File", f.hash # t.hash,
                    \A i \in DOMAIN changes : changes[i].path # f.path
             PROVE  /\ f.metadata.size = t.metadata.size
                    /\ mtime_sec(f.metadata) = mtime_sec(t.metadata)
  BY DEF HiddenByCacheOnly, target, After
<1>1. PICK s, result, u : Grounds(present, simulated, s, result, u)
  BY HasGrounds DEF CompareInv
<1>2. PICK p : p = f.path
  OBVIOUS
<1>3. PICK g : g = WalkedAs(f, After)
  OBVIOUS
<1>4. g \in s
  BY <1>1, <1>3 DEF Grounds, Walk, WalkedAs
<1>5. IsEntry(f)
  BY TreesAssumption DEF CompareInv, IsFileTree
<1>6. g.path = p /\ g.kind = "File" /\ g.hash = resolve_file_hash(f, After)
  BY <1>2, <1>3, <1>5, WalkedEntry
<1>7. g \in result
  <2>1. \A c \in ChangesOf(Before, After) : c.path # p
    <3>1. Enumerates(changes, ChangesOf(Before, After))
      BY <1>1 DEF Grounds, IsDifference
    <3> QED
      BY <1>2, <3>1, Listed
  <2>2. At(result, p) = At(s, p)
    <3>1. /\ PathsDistinct(Before) /\ PathsDistinct(After) /\ Recorded(After) /\ Recorded(s)
          /\ Enumerates(changes, ChangesOf(Before, After))
          /\ result = simulate_apply(s, changes)
      BY <1>1 DEF Grounds, IsDifference
    <3>2. PICK list : list = changes
      OBVIOUS
    <3> QED
      BY <2>1, <3>1, <3>2, DiffAt
  <2> QED
    BY <1>4, <1>6, <2>2 DEF At
<1>8. PICK x : x \in Simulated /\ x.path = p /\ x.hash = g.hash
  <2>1. PICK x : x = with_dir_hash(g, DirHashes(result))
    OBVIOUS
  <2>2. x \in Simulated
    BY <1>1, <1>7, <2>1 DEF Grounds, HashedEntries, Simulated
  <2> QED
    BY <1>6, <2>1, <2>2, WithDirHash
<1>9. x.hash = t.hash
  <2>1. ~ Mismatch(p, Simulated, After, implicit_dirs)
    BY <1>2, SuccessMeans DEF Disagree, target, After
  <2>2. x \in At(Simulated, p) /\ t \in At(After, p)
    BY <1>2, <1>8 DEF At
  <2> QED
    BY <2>1, <2>2 DEF Mismatch
<1>10. PICK c \in Cached(f, After) : TRUE
  <2>1. PICK h : h = resolve_file_hash(f, After)
    OBVIOUS
  <2>2. h # f.hash
    BY <1>6, <1>8, <1>9, <2>1
  <2> QED
    BY <2>1, <2>2, CachedHash
<1>11. c = t
  BY <1>1, <1>10 DEF Cached, Grounds, PathsDistinct
<1> QED
  BY <1>10, <1>11 DEF Cached, size_and_mtime_match

\* Over every target, diff and snapshot: when verify succeeds over a file that
\* is neither what the snapshot says nor mentioned by the diff, its size and
\* the second of its mtime are those of the snapshot, so that the cache hid it.
THEOREM OnlyTheCacheHides == VerifySpec => []HiddenByCacheOnly
<1>1. CompareInv => HiddenByCacheOnly
  BY CacheHides
<1> QED
  BY <1>1, SpecCompareInv, PTL

\* An entry at the target is as the old snapshot has it, but for the metadata
\* of directories that apply leaves alone.
AsBefore(f, e) ==
    /\ f.path = e.path
    /\ f.kind = e.kind
    /\ f.hash = e.hash
    /\ f.symlink_target = e.symlink_target
    /\ f.metadata = e.metadata \/ f.path \in implicit_dirs

\* The walk of such a target has the old entries, some with the new hash.
LEMMA WalkedAsBefore ==
    ASSUME NEW tree, IsFileTree(tree), NEW b, PathsDistinct(b), \A x \in b : Proper(x),
           NEW a, PathsDistinct(a),
           \A e \in b : \E f \in tree : AsBefore(f, e),
           \A f \in tree : \E e \in b : AsBefore(f, e),
           NEW s, s = Walk(tree, a)
    PROVE  /\ NearlyResembles(s, b, a)
           /\ \A e \in s, x \in b : e.path = x.path =>
                e.metadata = x.metadata \/ e.path \in implicit_dirs
<1>1. s = {WalkedAs(f, a) : f \in tree}
  BY DEF Walk, WalkedAs
<1>2. ASSUME NEW f \in tree, NEW e, e = WalkedAs(f, a)
      PROVE  /\ e.path = f.path /\ e.kind = f.kind /\ e.metadata = f.metadata
             /\ e.symlink_target = f.symlink_target
             /\ e.hash = IF f.kind = "File" THEN resolve_file_hash(f, a) ELSE None
  <2>1. IsEntry(f)
    BY DEF IsFileTree
  <2> QED
    BY <1>2, <2>1, WalkedEntry
<1>3. ASSUME NEW e \in s, NEW x \in b, x.path = e.path
      PROVE  /\ e.kind = x.kind /\ e.symlink_target = x.symlink_target
             /\ e.hash = x.hash \/ \A y \in a : SamePlace(x, y) => e.hash = y.hash
             /\ e.metadata = x.metadata \/ e.path \in implicit_dirs
  <2>1. PICK f \in tree : e = WalkedAs(f, a)
    BY <1>1
  <2>2. /\ e.path = f.path /\ e.kind = f.kind /\ e.metadata = f.metadata
        /\ e.symlink_target = f.symlink_target
        /\ e.hash = IF f.kind = "File" THEN resolve_file_hash(f, a) ELSE None
    BY <1>2, <2>1
  <2>3. AsBefore(f, x)
    <3>1. PICK z \in b : AsBefore(f, z)
      OBVIOUS
    <3>2. z = x
      BY <1>3, <2>2, <3>1 DEF AsBefore, PathsDistinct
    <3> QED
      BY <3>1, <3>2
  <2>4. CASE f.kind # "File"
    <3>1. x.hash = None
      BY <2>3, <2>4 DEF AsBefore, Proper
    <3> QED
      BY <2>2, <2>3, <2>4, <3>1 DEF AsBefore
  <2>5. CASE f.kind = "File"
    <3>1. PICK h : h = resolve_file_hash(f, a)
      OBVIOUS
    <3>2. CASE h = f.hash
      BY <2>2, <2>3, <2>5, <3>1, <3>2 DEF AsBefore
    <3>3. ASSUME NEW c \in Cached(f, a), h = c.hash
          PROVE  \A y \in a : SamePlace(x, y) => e.hash = y.hash
      <4>1. c \in a /\ c.path = f.path
        BY DEF Cached
      <4> QED
        BY <1>3, <2>2, <2>5, <3>1, <3>3, <4>1 DEF SamePlace, PathsDistinct
    <3>4. h = f.hash \/ \E c \in Cached(f, a) : h = c.hash
      BY <3>1, CachedHash
    <3> QED
      BY <2>2, <2>3, <3>2, <3>3, <3>4 DEF AsBefore
  <2> QED
    BY <2>4, <2>5
<1>4. ASSUME NEW e \in s
      PROVE  \E x \in b : x.path = e.path
  BY <1>1, <1>2 DEF AsBefore
<1>5. ASSUME NEW x \in b
      PROVE  \E e \in s : x.path = e.path
  <2>1. PICK f \in tree : AsBefore(f, x)
    OBVIOUS
  <2>2. PICK e \in s : e = WalkedAs(f, a)
    BY <1>1
  <2> QED
    BY <1>2, <2>1, <2>2 DEF AsBefore
<1> QED
  BY <1>3, <1>4, <1>5 DEF NearlyResembles

LEMMA NoAlarm ==
    ASSUME CompareInv
    PROVE  NoFalseAlarm
<1> SUFFICES ASSUME \A e \in Before : \E f \in present : AsBefore(f, e),
                    \A f \in present : \E e \in Before : AsBefore(f, e),
                    vpc = "failed"
             PROVE  FALSE
  BY DEF NoFalseAlarm, AsBefore
<1>1. PICK s, result, u : Grounds(present, simulated, s, result, u)
  BY HasGrounds DEF CompareInv
<1>2. PICK a, b, list : a = After /\ b = Before /\ list = changes
  OBVIOUS
<1>3. /\ PathsDistinct(b) /\ (\A x \in b : Proper(x))
      /\ PathsDistinct(a) /\ Recorded(a) /\ (\A y \in a : Proper(y))
      /\ Enumerates(list, ChangesOf(b, a))
      /\ Recorded(s) /\ result = simulate_apply(s, list)
  BY <1>1, <1>2 DEF Grounds, IsDifference
<1>4. /\ NearlyResembles(s, b, a)
      /\ \A e \in s, x \in b : e.path = x.path =>
           e.metadata = x.metadata \/ e.path \in implicit_dirs
  <2>1. IsFileTree(present)
    BY TreesAssumption DEF CompareInv
  <2>2. /\ \A e \in b : \E f \in present : AsBefore(f, e)
        /\ \A f \in present : \E e \in b : AsBefore(f, e)
        /\ s = Walk(present, a)
    BY <1>1, <1>2 DEF Grounds
  <2> QED
    BY <1>3, <2>1, <2>2, WalkedAsBefore
<1>5. /\ Resembles(result, a)
      /\ \A f \in result, y \in a : f.path = y.path =>
           \/ f.metadata = y.metadata
           \/ \E e \in s, x \in b :
                /\ e.path = f.path /\ x.path = f.path
                /\ f.metadata = e.metadata /\ matches(x.metadata, y.metadata)
  BY <1>3, <1>4, DiffLeads
<1>6. ASSUME NEW f \in result, NEW y \in a, f.path = y.path, f.path \notin implicit_dirs
      PROVE  matches(f.metadata, y.metadata)
  <2>1. CASE f.metadata = y.metadata
    BY <1>3, <2>1, ToleranceAssumption DEF matches, mtime_matches, Proper
  <2>2. CASE \E e \in s, x \in b :
               /\ e.path = f.path /\ x.path = f.path
               /\ f.metadata = e.metadata /\ matches(x.metadata, y.metadata)
    BY <1>4, <1>6, <2>2
  <2> QED
    BY <1>5, <1>6, <2>1, <2>2
<1>7. Simulated = HashedEntries(result) /\ PathsDistinct(Simulated)
  BY <1>1 DEF Grounds, Simulated
<1>8. ASSUME NEW p, \E e \in Simulated \cup a : e.path = p
      PROVE  ~ Disagree(p)
  <2>1. \A x \in Simulated : \E f \in result :
          /\ x.path = f.path /\ x.kind = f.kind /\ x.hash = f.hash
          /\ x.metadata = f.metadata /\ x.symlink_target = f.symlink_target
    BY <1>7, WithDirHash DEF HashedEntries
  <2>2. \A f \in result : \E x \in Simulated : x.path = f.path
    BY <1>7, WithDirHash DEF HashedEntries
  <2>3. /\ \E x \in Simulated : x.path = p
        /\ \E y \in a : y.path = p
    <3>1. /\ \A f \in result : \E y \in a : y.path = f.path
          /\ \A y \in a : \E f \in result : y.path = f.path
      BY <1>5 DEF Resembles
    <3>2. \E f \in result : f.path = p
      <4>1. CASE \E x \in Simulated : x.path = p
        BY <2>1, <4>1
      <4>2. CASE \E y \in a : y.path = p
        BY <3>1, <4>2
      <4> QED
        BY <1>8, <4>1, <4>2
    <3>3. PICK f \in result : f.path = p
      BY <3>2
    <3>4. PICK x \in Simulated, y \in a : x.path = f.path /\ y.path = f.path
      BY <2>2, <3>1
    <3> QED
      BY <3>3, <3>4
  <2>4. ASSUME NEW x \in Simulated, NEW y \in a, x.path = p, y.path = p
        PROVE  /\ x.kind = y.kind /\ x.hash = y.hash /\ x.symlink_target = y.symlink_target
               /\ p \notin implicit_dirs => matches(x.metadata, y.metadata)
    <3>1. PICK f \in result :
            /\ x.path = f.path /\ x.kind = f.kind /\ x.hash = f.hash
            /\ x.metadata = f.metadata /\ x.symlink_target = f.symlink_target
      BY <2>1
    <3> QED
      BY <1>5, <1>6, <2>4, <3>1 DEF Resembles
  <2>5. ~ Mismatch(p, Simulated, a, implicit_dirs)
    BY <2>3, <2>4 DEF Mismatch, At
  <2> QED
    BY <1>2, <2>5 DEF Disagree, target, After
<1>9. PICK d \in ToSet(discrepancies) : TRUE
  <2>1. discrepancies \in Seq(Discrepancy) /\ discrepancies # <<>>
    BY DEF CompareInv
  <2>2. 1 \in DOMAIN discrepancies
    BY <2>1
  <2> QED
    BY <2>2 DEF ToSet
<1>10. Disagree(d.path) /\ \E e \in Passed : e.path = d.path
  BY DEF CompareInv
<1>11. Passed \subseteq Simulated \cup a
  <2>1. Sorted(simulated, Simulated) /\ Sorted(target, a)
    BY <1>1, <1>2 DEF Grounds, Simulated
  <2>2. /\ sim_iter \in 1 .. Len(simulated) + 1 /\ tgt_iter \in 1 .. Len(target) + 1
        /\ Len(simulated) \in Nat /\ Len(target) \in Nat
    BY <2>1, SortedIs DEF CompareInv, Cuts
  <2>3. sim_iter \in sim_iter .. Len(simulated) + 1 /\ tgt_iter \in tgt_iter .. Len(target) + 1
    BY <2>2
  <2>4. Upto(simulated, sim_iter) \subseteq Simulated /\ Upto(target, tgt_iter) \subseteq a
    BY <2>1, <2>2, <2>3, ListParts
  <2> QED
    BY <2>4 DEF Passed
<1> QED
  BY <1>8, <1>10, <1>11

\* A target still as the old snapshot has it never fails: neither drift of
\* mtimes within the tolerance, nor the metadata of directories left alone, nor
\* hashes taken from the snapshot raise an alarm.
THEOREM UnchangedTargetPasses == VerifySpec => []NoFalseAlarm
<1>1. CompareInv => NoFalseAlarm
  BY NoAlarm
<1> QED
  BY <1>1, SpecCompareInv, PTL
=============================================================================
