----------------------------- MODULE ApplyProofs ----------------------------
(***************************************************************************)
(* Theorems about Apply, for all trees, diffs, users, faults and any       *)
(* number of runs.                                                         *)
(*                                                                         *)
(* The first part is about one relation, Kept: what a step leaves as it    *)
(* was.  Every step of apply is a few operations of the file system at the *)
(* path of one change, and each of them keeps whatever is elsewhere,       *)
(* provided that what is there is a tree (Sound): a file has nothing       *)
(* underneath that could get lost with it, and the directory whose mtime   *)
(* moves is a directory.                                                   *)
(*                                                                         *)
(* The second part is about the outcome.  Any run, also one that was       *)
(* killed, leaves every entry as one of the old tree or one of the new     *)
(* (HalfwayInv).  In a run without a fault every change that is done is    *)
(* settled (SettledInv), because nothing that is there can make it fail.   *)
(* For a first run there is more: what each change still to be done will   *)
(* find (SureInv), and that the run meets no error (CalmInv).              *)
(***************************************************************************)
EXTENDS Apply, EntriesProofs

\* A path only a tempfile has.
IsTemp(p) == p # root /\ Last(p) = Temp

\* A tree, whose tempfiles are files.
Sound(fs) ==
    /\ \A e \in fs : IsEntry(e) /\ (IsTemp(e.path) => e.kind = "File")
    /\ IsTree(fs)

\* Entries alike in all that Stamp leaves alone; the same, but for the mtime
\* of directories.
Like(e, f) ==
    /\ e.path = f.path /\ e.kind = f.kind /\ e.hash = f.hash
    /\ e.symlink_target = f.symlink_target
    /\ e.metadata.size = f.metadata.size
Same(e, f) ==
    /\ Like(e, f)
    /\ e.metadata.mode = f.metadata.mode
    /\ f.kind # "Directory" => e.metadata.mtime = f.metadata.mtime

\* Nothing was lost or altered, except on `paths' and of tempfiles.
Kept(fs, later, paths) ==
    \A f \in fs : f.path \notin paths /\ ~ IsTemp(f.path) =>
        \E e \in later : Same(e, f)

HasDirectory(fs, p) == \E d \in fs : d.path = p /\ d.kind = "Directory"
NothingBelow(fs, p) == \A e \in fs : ~ contains(p, e.path)

----------------------------------------------------------------------------
(* Paths and trees.                                                        *)

LEMMA Paths ==
    ASSUME NEW p \in Seq(Nat)
    PROVE  /\ \A n \in 0 .. Len(p) : SubSeq(p, 1, n) \in Seq(Nat) /\ Len(SubSeq(p, 1, n)) = n
           /\ parent(p) \in Seq(Nat)
           /\ p # root => /\ parent(p) = SubSeq(p, 1, Len(p) - 1)
                          /\ Len(p) \in Nat \ {0}
                          /\ parent(p) # p
                          /\ contains(parent(p), p)
           /\ parent(root) = root
           /\ \A q \in Seq(Nat) : contains(q, p) =>
                /\ Len(q) \in 0 .. Len(p) - 1
                /\ q = SubSeq(p, 1, Len(q))
           /\ \A n \in 0 .. Len(p) : \A k \in 0 .. n :
                SubSeq(SubSeq(p, 1, n), 1, k) = SubSeq(p, 1, k)
<1>1. \A n \in 0 .. Len(p) : SubSeq(p, 1, n) \in Seq(Nat) /\ Len(SubSeq(p, 1, n)) = n
  OBVIOUS
<1>2. parent(p) \in Seq(Nat)
  BY DEF parent, Front
<1>3. ASSUME p # root
      PROVE  /\ parent(p) = SubSeq(p, 1, Len(p) - 1)
             /\ Len(p) \in Nat \ {0}
             /\ parent(p) # p
             /\ contains(parent(p), p)
  BY <1>3 DEF parent, Front, contains, IsStrictPrefix, IsPrefix, root
<1>4. parent(root) = root
  BY DEF parent, Front, root
<1>5. ASSUME NEW q \in Seq(Nat), contains(q, p)
      PROVE  /\ Len(q) \in 0 .. Len(p) - 1
             /\ q = SubSeq(p, 1, Len(q))
  BY <1>5 DEF contains, IsStrictPrefix, IsPrefix
<1>6. ASSUME NEW n \in 0 .. Len(p), NEW k \in 0 .. n
      PROVE  SubSeq(SubSeq(p, 1, n), 1, k) = SubSeq(p, 1, k)
  OBVIOUS
<1> QED
  BY <1>1, <1>2, <1>3, <1>4, <1>5, <1>6

\* What is in a tree has all of its ancestors there, as directories.
LEMMA Ancestors ==
    ASSUME NEW fs, Sound(fs), NEW e \in fs, NEW n \in 0 .. Len(e.path) - 1
    PROVE  HasDirectory(fs, SubSeq(e.path, 1, n))
<1> DEFINE p == e.path
           Bad == {k \in 1 .. Len(p) : ~ HasDirectory(fs, SubSeq(p, 1, Len(p) - k))}
<1>1. p \in Seq(Nat) /\ Len(p) \in Nat
  BY DEF Sound, IsEntry
<1> HIDE DEF Bad
<1>2. Bad = {}
  <2> SUFFICES ASSUME Bad # {} PROVE FALSE
    OBVIOUS
  <2>1. PICK k \in Bad : \A j \in Bad : k <= j
    <3>1. Bad \subseteq Nat
      BY DEF Bad
    <3> QED
      BY <3>1, HasLeast
  <2>2. k \in 1 .. Len(p) /\ ~ HasDirectory(fs, SubSeq(p, 1, Len(p) - k))
    BY <2>1 DEF Bad
  <2>3. PICK d \in fs : d.path = SubSeq(p, 1, Len(p) - k + 1)
    <3>1. CASE k = 1
      <4>1. p = SubSeq(p, 1, Len(p) - k + 1)
        BY <3>1, <1>1
      <4> QED
        BY <4>1
    <3>2. CASE k # 1
      <4>1. k - 1 \in 1 .. Len(p) /\ k - 1 \notin Bad
        BY <2>1, <2>2, <3>2
      <4>2. HasDirectory(fs, SubSeq(p, 1, Len(p) - (k - 1)))
        BY <4>1 DEF Bad
      <4>3. Len(p) - (k - 1) = Len(p) - k + 1
        BY <1>1, <2>2
      <4> QED
        BY <4>2, <4>3 DEF HasDirectory
    <3> QED
      BY <3>1, <3>2
  <2>4. Len(p) - k + 1 \in 1 .. Len(p)
    BY <1>1, <2>2
  <2>5. d.path \in Seq(Nat) /\ Len(d.path) = Len(p) - k + 1 /\ d.path # root
    <3>1. d.path \in Seq(Nat) /\ Len(d.path) = Len(p) - k + 1
      BY <1>1, <2>3, <2>4, Paths
    <3> QED
      BY <3>1, <2>4 DEF root
  <2>6. parent(d.path) = SubSeq(p, 1, Len(p) - k)
    <3>1. parent(d.path) = SubSeq(d.path, 1, Len(d.path) - 1)
      BY <2>5, Paths
    <3>2. Len(d.path) - 1 = Len(p) - k /\ Len(p) - k \in 0 .. Len(p) - k + 1
      BY <2>5, <2>2, <1>1
    <3>3. SubSeq(SubSeq(p, 1, Len(p) - k + 1), 1, Len(p) - k) = SubSeq(p, 1, Len(p) - k)
      <4>1. PICK m \in 0 .. Len(p) : m = Len(p) - k + 1
        BY <2>4
      <4>2. PICK l \in 0 .. m : l = Len(p) - k
        BY <3>2, <4>1
      <4>3. SubSeq(SubSeq(p, 1, m), 1, l) = SubSeq(p, 1, l)
        BY <1>1, Paths
      <4> QED
        BY <4>1, <4>2, <4>3
    <3> QED
      BY <3>1, <3>2, <3>3, <2>3
  <2>7. HasDirectory(fs, parent(d.path))
    BY <2>5 DEF Sound, IsTree, At, HasDirectory
  <2> QED
    BY <2>2, <2>6, <2>7
<1>3. Len(p) - n \in 1 .. Len(p) /\ Len(p) - (Len(p) - n) = n
  BY <1>1
<1> QED
  BY <1>2, <1>3 DEF Bad

\* Below what is no directory, or is not there, is nothing.
LEMMA Leaf ==
    ASSUME NEW fs, Sound(fs), NEW p \in Seq(Nat), ~ HasDirectory(fs, p)
    PROVE  NothingBelow(fs, p)
<1> SUFFICES ASSUME NEW e \in fs, contains(p, e.path)
             PROVE  FALSE
  BY DEF NothingBelow
<1>1. e.path \in Seq(Nat)
  BY DEF Sound, IsEntry
<1>2. Len(p) \in 0 .. Len(e.path) - 1 /\ p = SubSeq(e.path, 1, Len(p))
  BY <1>1, Paths
<1> QED
  BY <1>2, Ancestors

LEMMA KeptTrans ==
    ASSUME NEW a, NEW b, NEW c, NEW S, Kept(a, b, S), Kept(b, c, S)
    PROVE  Kept(a, c, S)
  BY DEF Kept, Same, Like

LEMMA KeptFewer ==
    ASSUME NEW a, NEW b, NEW S, NEW T, Kept(a, b, S), S \subseteq T
    PROVE  Kept(a, b, T)
  BY DEF Kept

LEMMA KeptDirectory ==
    ASSUME NEW a, NEW b, NEW S, Kept(a, b, S), NEW p, p \notin S, ~ IsTemp(p),
           HasDirectory(a, p)
    PROVE  HasDirectory(b, p)
  BY DEF Kept, Same, Like, HasDirectory

----------------------------------------------------------------------------
(* What the operations of the file system do to a tree.                    *)

\* Entries are altered one by one, in their metadata.
LEMMA Altered ==
    ASSUME NEW fs, Sound(fs), NEW g,
           \A x \in fs : IsEntry(g[x]) /\ Like(g[x], x)
    PROVE  Sound({g[x] : x \in fs})
<1> DEFINE later == {g[x] : x \in fs}
<1>1. ASSUME NEW e \in later
      PROVE  IsEntry(e) /\ (IsTemp(e.path) => e.kind = "File")
  <2>1. PICK x \in fs : e = g[x]
    OBVIOUS
  <2> QED
    BY <2>1 DEF Sound, Like
<1>2. ASSUME NEW e \in later, NEW f \in later, e.path = f.path
      PROVE  e = f
  <2>1. PICK x \in fs : e = g[x]
    OBVIOUS
  <2>2. PICK y \in fs : f = g[y]
    OBVIOUS
  <2>3. x.path = y.path
    BY <2>1, <2>2, <1>2 DEF Like
  <2> QED
    BY <2>1, <2>2, <2>3 DEF Sound, IsTree
<1>3. ASSUME NEW e \in later, e.path # root
      PROVE  \E d \in At(later, parent(e.path)) : d.kind = "Directory"
  <2>1. PICK x \in fs : e = g[x]
    OBVIOUS
  <2>2. PICK y \in fs : y.path = parent(x.path) /\ y.kind = "Directory"
    BY <2>1, <1>3 DEF Sound, IsTree, At, Like
  <2>3. g[y] \in later /\ g[y].path = parent(e.path) /\ g[y].kind = "Directory"
    BY <2>1, <2>2 DEF Like
  <2> QED
    BY <2>3 DEF At
<1>4. Sound(later)
  <2> HIDE DEF later
  <2> QED
    BY <1>1, <1>2, <1>3 DEF Sound, IsTree
<1> QED
  BY <1>4

LEMMA WithMtime ==
    ASSUME NEW e, IsEntry(e), NEW mtime,
           NEW later, later = [e EXCEPT !.metadata.mtime = mtime]
    PROVE  /\ IsEntry(later) /\ Like(later, e)
           /\ later.metadata.mode = e.metadata.mode
           /\ later.metadata.mtime = mtime
  BY DEF IsEntry, Like

LEMMA SetMtime ==
    ASSUME NEW fs, Sound(fs), NEW p, NEW mtime,
           \A e \in fs : e.path = p => e.kind = "Directory"
    PROVE  /\ Sound(set_mtime(fs, p, mtime))
           /\ Kept(fs, set_mtime(fs, p, mtime), {})
           /\ \A e \in set_mtime(fs, p, mtime) : \E x \in fs : Like(e, x)
           /\ \A x \in fs : \E e \in set_mtime(fs, p, mtime) : Like(e, x)
<1> DEFINE g == [e \in fs |-> IF e.path = p THEN [e EXCEPT !.metadata.mtime = mtime]
                                            ELSE e]
<1>1. set_mtime(fs, p, mtime) = {g[x] : x \in fs}
  BY DEF set_mtime
<1>2. ASSUME NEW x \in fs
      PROVE  IsEntry(g[x]) /\ Like(g[x], x) /\ Same(g[x], x)
  <2>1. IsEntry(x)
    BY DEF Sound
  <2>2. CASE x.path = p
    <3>1. g[x] = [x EXCEPT !.metadata.mtime = mtime]
      BY <2>2
    <3>2. x.kind = "Directory"
      BY <2>2
    <3> HIDE DEF g
    <3>3. PICK y : y = [x EXCEPT !.metadata.mtime = mtime]
      OBVIOUS
    <3>4. IsEntry(y) /\ Like(y, x)
      BY <2>1, <3>3, WithMtime
    <3>5. y.metadata.mode = x.metadata.mode
      BY <2>1, <3>3 DEF IsEntry
    <3> QED
      BY <3>1, <3>2, <3>3, <3>4, <3>5 DEF Same
  <2>3. CASE x.path # p
    <3>1. g[x] = x
      BY <2>3
    <3> HIDE DEF g
    <3> QED
      BY <2>1, <3>1 DEF Same, Like
  <2> QED
    BY <2>2, <2>3
<1> HIDE DEF g
<1>3. Sound({g[x] : x \in fs})
  BY <1>2, Altered
<1> QED
  BY <1>1, <1>2, <1>3 DEF Kept

\* What an entry is given of the metadata set on it.
Granted(e, metadata, granted) ==
    [e EXCEPT !.metadata.mode = IF "mode" \in granted THEN metadata.mode ELSE @,
              !.metadata.mtime = IF "mtime" \in granted THEN metadata.mtime ELSE @]

LEMMA GrantedIs ==
    ASSUME NEW e, IsEntry(e), NEW metadata, NEW granted,
           NEW later, later = Granted(e, metadata, granted)
    PROVE  /\ IsEntry(later) /\ Like(later, e)
           /\ later.metadata.mode =
                  (IF "mode" \in granted THEN metadata.mode ELSE e.metadata.mode)
           /\ later.metadata.mtime =
                  (IF "mtime" \in granted THEN metadata.mtime ELSE e.metadata.mtime)
<1>1. PICK mode : mode = IF "mode" \in granted THEN metadata.mode ELSE e.metadata.mode
  OBVIOUS
<1>2. PICK mtime :
         mtime = IF "mtime" \in granted THEN metadata.mtime ELSE e.metadata.mtime
  OBVIOUS
<1>3. PICK between : between = [e EXCEPT !.metadata.mode = mode]
  OBVIOUS
<1>4. /\ IsEntry(between) /\ Like(between, e)
      /\ between.metadata.mode = mode /\ between.metadata.mtime = e.metadata.mtime
  BY <1>3 DEF IsEntry, Like
<1>5. later = [between EXCEPT !.metadata.mtime = mtime]
  <2>1. later = [e EXCEPT !.metadata.mode = mode, !.metadata.mtime = mtime]
    BY <1>1, <1>2, Zenon DEF Granted
  <2>2. later = [[e EXCEPT !.metadata.mode = mode] EXCEPT !.metadata.mtime = mtime]
    BY <2>1, Zenon
  <2> QED
    BY ONLY <1>3, <2>2
<1>6. /\ IsEntry(later) /\ Like(later, between)
      /\ later.metadata.mode = between.metadata.mode /\ later.metadata.mtime = mtime
  <2>1. IsEntry(between)
    BY <1>4
  <2> QED
    BY ONLY <2>1, <1>5 DEF IsEntry, Like
<1>7. Like(later, e)
  BY <1>4, <1>6 DEF Like
<1> QED
  BY <1>1, <1>2, <1>4, <1>6, <1>7

LEMMA SetMetadata ==
    ASSUME NEW fs, Sound(fs), NEW p, NEW metadata, NEW granted
    PROVE  /\ Sound(set_metadata(fs, p, metadata, granted))
           /\ Kept(fs, set_metadata(fs, p, metadata, granted), {p})
           /\ \A x \in fs : \E e \in set_metadata(fs, p, metadata, granted) : Like(e, x)
<1> DEFINE g == [e \in fs |-> IF e.path = p THEN Granted(e, metadata, granted) ELSE e]
<1>1. set_metadata(fs, p, metadata, granted) = {g[x] : x \in fs}
  BY DEF set_metadata, Granted
<1>2. ASSUME NEW x \in fs
      PROVE  IsEntry(g[x]) /\ Like(g[x], x) /\ (x.path # p => g[x] = x)
  <2>1. IsEntry(x)
    BY DEF Sound
  <2>2. CASE x.path = p
    <3>1. PICK later : later = Granted(x, metadata, granted)
      OBVIOUS
    <3>2. g[x] = later
      BY <2>2, <3>1
    <3> HIDE DEF g
    <3> QED
      BY <2>1, <2>2, <3>1, <3>2, GrantedIs
  <2>3. CASE x.path # p
    <3>1. g[x] = x
      BY <2>3
    <3> HIDE DEF g
    <3> QED
      BY <2>1, <3>1 DEF Like
  <2> QED
    BY <2>2, <2>3
<1> HIDE DEF g
<1>3. Sound({g[x] : x \in fs})
  BY <1>2, Altered
<1> QED
  BY <1>1, <1>2, <1>3 DEF Kept, Same, Like

\* What is underneath a path has it for its parent, if anything has.
LEMMA NoChild ==
    ASSUME NEW fs, Sound(fs), NEW p, NothingBelow(fs, p),
           NEW e \in fs, e.path # root
    PROVE  parent(e.path) # p
<1>1. e.path \in Seq(Nat)
  BY DEF Sound, IsEntry
<1>2. contains(parent(e.path), e.path)
  BY <1>1, Paths
<1> QED
  BY <1>2 DEF NothingBelow

LEMMA Without ==
    ASSUME NEW fs, Sound(fs), NEW p, NothingBelow(fs, p)
    PROVE  /\ Sound(fs \ At(fs, p))
           /\ Kept(fs, fs \ At(fs, p), {p})
<1> DEFINE later == fs \ At(fs, p)
<1>1. \A e \in fs : e \in later <=> e.path # p
  BY DEF At
<1>2. ASSUME NEW e \in later, e.path # root
      PROVE  \E d \in At(later, parent(e.path)) : d.kind = "Directory"
  <2>1. e \in fs
    OBVIOUS
  <2>2. PICK d \in fs : d.path = parent(e.path) /\ d.kind = "Directory"
    BY <2>1, <1>2 DEF Sound, IsTree, At
  <2>3. d.path # p
    BY <2>1, <2>2, <1>2, NoChild
  <2> QED
    BY <2>2, <2>3, <1>1 DEF At
<1>3. later \subseteq fs
  OBVIOUS
<1>4. Kept(fs, later, {p})
  BY <1>1 DEF Kept, Same, Like
<1> HIDE DEF later
<1>5. Sound(later)
  BY <1>2, <1>3 DEF Sound, IsTree
<1> QED
  BY <1>4, <1>5 DEF later

LEMMA UnlinkMoves ==
    ASSUME NEW fs, Sound(fs), NEW p, NothingBelow(fs, p),
           HasDirectory(fs, parent(p))
    PROVE  /\ Sound(Unlink(fs, p))
           /\ Kept(fs, Unlink(fs, p), {p})
           /\ \A e \in Unlink(fs, p) : \E x \in fs : Like(e, x)
<1> DEFINE rest == fs \ At(fs, p)
<1>1. Sound(rest) /\ Kept(fs, rest, {p})
  BY Without
<1>2. rest \subseteq fs
  OBVIOUS
<1>3. \A e \in rest : e.path = parent(p) => e.kind = "Directory"
  BY <1>2 DEF Sound, IsTree, HasDirectory
<1>4. Unlink(fs, p) = set_mtime(rest, parent(p), Now)
  BY DEF Unlink
<1> HIDE DEF rest
<1>5. /\ Sound(set_mtime(rest, parent(p), Now))
      /\ Kept(rest, set_mtime(rest, parent(p), Now), {})
      /\ \A e \in set_mtime(rest, parent(p), Now) : \E x \in rest : Like(e, x)
  BY <1>1, <1>3, SetMtime
<1>6. Kept(rest, set_mtime(rest, parent(p), Now), {p})
  BY <1>5, KeptFewer
<1>7. Kept(fs, set_mtime(rest, parent(p), Now), {p})
  BY <1>1, <1>6, KeptTrans
<1> QED
  BY <1>2, <1>4, <1>5, <1>7

LEMMA PutMoves ==
    ASSUME NEW fs, Sound(fs), NEW e, IsEntry(e), e.path # root,
           IsTemp(e.path) => e.kind = "File",
           NothingBelow(fs, e.path), HasDirectory(fs, parent(e.path))
    PROVE  /\ Sound(Put(fs, e))
           /\ Kept(fs, Put(fs, e), {e.path})
           /\ \E x \in Put(fs, e) : Like(x, e)
<1> DEFINE p == e.path
           rest == fs \ At(fs, p)
           later == rest \cup {e}
<1>1. Sound(rest) /\ Kept(fs, rest, {p})
  BY Without
<1>2. \A x \in rest : x \in fs /\ x.path # p
  BY DEF At
<1>3. parent(p) # p
  BY Paths DEF IsEntry
<1>4. HasDirectory(rest, parent(p))
  BY <1>3 DEF HasDirectory, At
<1>5. Put(fs, e) = set_mtime(later, parent(p), Now)
  BY DEF Put
<1> HIDE DEF rest
<1>6. Sound(later)
  <2>1. \A x \in later : IsEntry(x) /\ (IsTemp(x.path) => x.kind = "File")
    BY <1>1 DEF Sound
  <2>2. \A x, y \in later : x.path = y.path => x = y
    BY <1>1, <1>2 DEF Sound, IsTree
  <2>3. ASSUME NEW x \in later, x.path # root
        PROVE  \E d \in At(later, parent(x.path)) : d.kind = "Directory"
    <3>1. CASE x \in rest
      BY <1>1, <2>3, <3>1 DEF Sound, IsTree, At
    <3>2. CASE x = e
      BY <1>4, <3>2 DEF HasDirectory, At
    <3> QED
      BY <3>1, <3>2
  <2> HIDE DEF later
  <2> QED
    BY <2>1, <2>2, <2>3 DEF Sound, IsTree
<1>7. \A x \in later : x.path = parent(p) => x.kind = "Directory"
  <2>1. PICK d \in rest : d.path = parent(p) /\ d.kind = "Directory"
    BY <1>4 DEF HasDirectory
  <2>2. d \in later
    BY <2>1
  <2> HIDE DEF later
  <2> QED
    BY <2>1, <2>2, <1>6 DEF Sound, IsTree
<1>8. e \in later /\ rest \subseteq later
  OBVIOUS
<1> HIDE DEF later
<1>9. /\ Sound(set_mtime(later, parent(p), Now))
      /\ Kept(later, set_mtime(later, parent(p), Now), {})
      /\ \A x \in later : \E y \in set_mtime(later, parent(p), Now) : Like(y, x)
  BY <1>6, <1>7, SetMtime
<1>10. Kept(fs, later, {p})
  BY <1>1, <1>8 DEF Kept
<1>11. Kept(fs, set_mtime(later, parent(p), Now), {p})
  <2>1. Kept(later, set_mtime(later, parent(p), Now), {p})
    BY <1>9, KeptFewer
  <2> QED
    BY <1>10, <2>1, KeptTrans
<1> QED
  BY <1>5, <1>8, <1>9, <1>11

----------------------------------------------------------------------------
(* The changes of a diff.                                                  *)

ChangedPaths == {c.path : c \in changes}

\* The diff of two trees speaks of their paths, and none of those, nor of the
\* directories above, is one of a tempfile.
Speaks(p) ==
    /\ p \in Seq(Nat)
    /\ \A n \in 0 .. Len(p) : ~ IsTemp(SubSeq(p, 1, n))

LEMMA TreesSound ==
    ASSUME NEW fs \in Trees
    PROVE  /\ Sound(fs)
           /\ \A e \in fs : Speaks(e.path) /\ ~ IsTemp(e.path)
<1>1. \A e \in fs : ~ IsTemp(e.path)
  BY ApplyAssumption DEF IsTemp
<1>2. Sound(fs)
  BY <1>1, TreesAssumption DEF Sound, IsFileTree
<1>3. ASSUME NEW e \in fs
      PROVE  Speaks(e.path)
  <2>1. e.path \in Seq(Nat)
    BY <1>2 DEF Sound, IsEntry
  <2>2. ASSUME NEW n \in 0 .. Len(e.path)
        PROVE  ~ IsTemp(SubSeq(e.path, 1, n))
    <3>1. CASE n = Len(e.path)
      <4>1. SubSeq(e.path, 1, n) = e.path
        BY <2>1, <3>1
      <4> QED
        BY <4>1, <1>1
    <3>2. CASE n # Len(e.path)
      <4>1. n \in 0 .. Len(e.path) - 1
        BY <2>1, <3>2
      <4>2. HasDirectory(fs, SubSeq(e.path, 1, n))
        BY <4>1, <1>2, Ancestors
      <4> QED
        BY <4>2, <1>1 DEF HasDirectory
    <3> QED
      BY <3>1, <3>2
  <2> QED
    BY <2>1, <2>2 DEF Speaks
<1> QED
  BY <1>1, <1>2, <1>3

\* What a change of a diff is.
LEMMA ChangesAre ==
    ASSUME NEW b, NEW a, NEW c \in ChangesOf(b, a)
    PROVE  \/ \E x \in b : /\ c = build_removed_change(x)
                           /\ ~ \E y \in a : x.path = y.path /\ x.kind = y.kind
           \/ \E y \in a : /\ c = build_added_change(y)
                           /\ ~ \E x \in b : x.path = y.path /\ x.kind = y.kind
           \/ \E x \in b, y \in a : /\ x.path = y.path /\ x.kind = y.kind
                                    /\ compute_entry_diff(x, y) = <<c>>
<1>1. CASE \E xy \in b \X a : /\ xy[1].path = xy[2].path /\ xy[1].kind = xy[2].kind
                               /\ c \in ToSet(compute_entry_diff(xy[1], xy[2]))
  <2>1. PICK x \in b, y \in a : /\ x.path = y.path /\ x.kind = y.kind
                                /\ c \in ToSet(compute_entry_diff(x, y))
    BY <1>1
  <2>2. \/ compute_entry_diff(x, y) = <<>>
        \/ \E d : compute_entry_diff(x, y) = <<d>>
    BY DEF compute_entry_diff
  <2>3. compute_entry_diff(x, y) = <<c>>
    BY <2>1, <2>2 DEF ToSet
  <2> QED
    BY <2>1, <2>3
<1> QED
  BY <1>1 DEF ChangesOf

LEMMA ModifiedIs ==
    ASSUME NEW x, NEW y, NEW c, compute_entry_diff(x, y) = <<c>>
    PROVE  /\ c.path = y.path /\ c.op = "Modified"
           /\ c.has_content => c.new_metadata # None
<1> DEFINE metadata_changed == ~ matches(x.metadata, y.metadata)
           hash_changed == x.hash # y.hash
           symlink_target_changed == x.symlink_target # y.symlink_target
           has_content == hash_changed /\ y.kind = "File"
           d == [path |-> y.path, op |-> "Modified",
                 new_metadata |-> IF metadata_changed \/ has_content
                                  THEN Some(y.metadata) ELSE None,
                 new_hash |-> IF hash_changed THEN y.hash ELSE None,
                 has_content |-> has_content,
                 new_symlink_target |-> IF symlink_target_changed
                                        THEN y.symlink_target ELSE None]
<1>1. compute_entry_diff(x, y) = <<>> \/ compute_entry_diff(x, y) = <<d>>
  BY DEF compute_entry_diff
<1>2. <<c>> # <<>>
  OBVIOUS
<1>3. c = d
  <2> HIDE DEF d
  <2> QED
    BY <1>1, <1>2
<1>4. d.path = y.path /\ d.op = "Modified" /\ d.has_content = has_content
  OBVIOUS
<1>5. d.has_content => d.new_metadata = Some(y.metadata)
  OBVIOUS
<1> QED
  BY <1>3, <1>4, <1>5 DEF Some, None

LEMMA ChangesSpeak ==
    ASSUME NEW b \in Trees, NEW a \in Trees, NEW c \in ChangesOf(b, a)
    PROVE  Speaks(c.path)
<1>1. \E e \in b \cup a : c.path = e.path
  BY ChangesAre, ModifiedIs DEF build_removed_change, build_added_change
<1> QED
  BY <1>1, TreesSound

\* What is modified is neither removed nor added, and modified once.
LEMMA ModifiedOnce ==
    ASSUME NEW b \in Trees, NEW a \in Trees,
           NEW c \in ChangesOf(b, a), NEW d \in ChangesOf(b, a),
           c.op = "Modified", c.path = d.path
    PROVE  c = d
<1>1. PICK x \in b, y \in a : /\ x.path = y.path /\ x.kind = y.kind
                              /\ compute_entry_diff(x, y) = <<c>>
  BY ChangesAre DEF build_removed_change, build_added_change
<1>2. c.path = y.path
  BY <1>1, ModifiedIs
<1>3. /\ \A v, w \in b : v.path = w.path => v = w
      /\ \A v, w \in a : v.path = w.path => v = w
  BY TreesAssumption DEF IsTree, IsFileTree
<1>4. ASSUME NEW v \in b, d = build_removed_change(v),
             ~ \E w \in a : v.path = w.path /\ v.kind = w.kind
      PROVE  FALSE
  <2>1. v.path = x.path
    BY <1>1, <1>2, <1>4 DEF build_removed_change
  <2> QED
    BY <1>1, <1>3, <1>4, <2>1
<1>5. ASSUME NEW w \in a, d = build_added_change(w),
             ~ \E v \in b : v.path = w.path /\ v.kind = w.kind
      PROVE  FALSE
  <2>1. w.path = y.path
    BY <1>2, <1>5 DEF build_added_change
  <2> QED
    BY <1>1, <1>3, <1>5, <2>1
<1>6. ASSUME NEW v \in b, NEW w \in a, v.path = w.path,
             compute_entry_diff(v, w) = <<d>>
      PROVE  c = d
  <2>1. d.path = w.path
    BY <1>6, ModifiedIs
  <2>2. v = x /\ w = y
    BY <1>1, <1>2, <1>3, <1>6, <2>1
  <2>3. <<c>> = <<d>>
    BY <1>1, <1>6, <2>2
  <2> QED
    BY <2>3
<1> QED
  BY <1>4, <1>5, <1>6, ChangesAre

----------------------------------------------------------------------------
(* The inductive invariant.                                                *)

\* Loops go through changes of the diff, each through its kind, and what they
\* leave to be stamped, now or at the end, is on paths of the diff.
PlanInv ==
    /\ before \in Trees /\ after \in Trees /\ present \in Trees
    /\ changes = ChangesOf(before, after)
    /\ todo \subseteq changes
    /\ apc = "delete" => todo \subseteq deletions
    /\ apc = "create" => todo \subseteq items
    /\ apc = "content" => todo \subseteq contents
    /\ \A s \in stamp : s.path \in ChangedPaths
    /\ \A t \in dir_metadata_changes : t.path \in ChangedPaths
    /\ apc \notin {"create", "content"} => stamp = None

\* While there is an ActiveWrite, its tempfile lies beside the file.
TempInv ==
    temp # None =>
        /\ In("content")
        /\ \E e \in tree : e.path = TempPath(change.path)

\* What had its mtime saved and is not in the diff is still a directory.
SavedInv ==
    \A t \in saved_dir_mtimes :
        t.path \notin ChangedPaths /\ ~ IsTemp(t.path) => HasDirectory(tree, t.path)

Inv == PlanInv /\ Sound(tree) /\ TempInv /\ SavedInv

Moves(paths) == Sound(tree') /\ Kept(tree, tree', paths)

----------------------------------------------------------------------------
(* The operations of apply.                                                *)

LEMMA AtChange ==
    ASSUME PlanInv, NEW phase, In(phase)
    PROVE  /\ change \in todo /\ change \in changes
           /\ change.path \in ChangedPaths /\ Speaks(change.path)
           /\ change.path \in Seq(Nat) /\ ~ IsTemp(change.path)
           /\ ~ IsTemp(parent(change.path))
<1>1. Current # {}
  BY DEF In
<1>2. change \in Current
  BY <1>1 DEF change
<1>3. change \in todo /\ change \in changes
  BY <1>2 DEF Current, PlanInv
<1>4. change.path \in ChangedPaths
  BY <1>3 DEF ChangedPaths
<1>5. Speaks(change.path)
  BY <1>3, ChangesSpeak DEF PlanInv
<1>6. PICK p : p = change.path
  OBVIOUS
<1>7. p \in Seq(Nat) /\ \A n \in 0 .. Len(p) : ~ IsTemp(SubSeq(p, 1, n))
  BY <1>5, <1>6 DEF Speaks
<1>8. ~ IsTemp(p)
  <2>1. SubSeq(p, 1, Len(p)) = p /\ Len(p) \in 0 .. Len(p)
    BY <1>7
  <2> QED
    BY <1>7, <2>1
<1>9. ~ IsTemp(parent(p))
  <2>1. CASE p = root
    BY <2>1, Paths, <1>7 DEF IsTemp
  <2>2. CASE p # root
    <3>1. parent(p) = SubSeq(p, 1, Len(p) - 1) /\ Len(p) - 1 \in 0 .. Len(p)
      BY <1>7, <2>2, Paths
    <3> QED
      BY <1>7, <3>1
  <2> QED
    BY <2>1, <2>2
<1> QED
  BY <1>3, <1>4, <1>5, <1>6, <1>7, <1>8, <1>9

LEMMA Writable ==
    ASSUME NEW fs, NEW p, WritableDir(fs, p)
    PROVE  HasDirectory(fs, p)
  BY DEF WritableDir, HasDirectory, At

\* Where something is no directory, there is none.
LEMMA NoDirectory ==
    ASSUME NEW fs, Sound(fs), NEW p, NEW e \in fs, e.path = p,
           e.kind # "Directory"
    PROVE  ~ HasDirectory(fs, p)
  BY DEF HasDirectory, Sound, IsTree

LEMMA RemovableIsLeaf ==
    ASSUME NEW fs, Sound(fs), NEW p \in Seq(Nat), NEW kind, Removable(fs, p, kind)
    PROVE  NothingBelow(fs, p) /\ HasDirectory(fs, parent(p))
<1>1. HasDirectory(fs, parent(p))
  BY Writable DEF Removable
<1>2. CASE kind = "Directory"
  BY <1>1, <1>2 DEF Removable, NothingBelow
<1>3. CASE kind # "Directory"
  <2>1. PICK e \in fs : e.path = p /\ e.kind # "Directory"
    BY <1>3 DEF Removable, At
  <2>2. ~ HasDirectory(fs, p)
    BY <2>1, NoDirectory
  <2> QED
    BY <1>1, <2>2, Leaf
<1> QED
  BY <1>2, <1>3

LEMMA StampMoves ==
    ASSUME Inv, Stamp
    PROVE  \E s \in stamp :
             /\ Moves({s.path})
             /\ \A x \in tree : \E e \in tree' : Like(e, x)
<1>1. PICK s \in stamp, granted \in SUBSET MetadataCalls :
         tree' = set_metadata(tree, s.path, s.metadata, granted)
  BY DEF Stamp
<1> QED
  BY <1>1, SetMetadata DEF Inv, Moves

LEMMA DeleteMoves ==
    ASSUME Inv, Delete
    PROVE  Moves({change.path})
<1>1. PICK p \in Seq(Nat) : p = change.path
  BY AtChange DEF Delete, Inv
<1>2. NothingBelow(tree, p) /\ HasDirectory(tree, parent(p))
  BY <1>1, RemovableIsLeaf DEF Delete, Succeeds, Inv
<1>3. {e \in tree : ~ contains(p, e.path)} = tree
  BY <1>2 DEF NothingBelow
<1>4. tree' = Unlink(tree, p)
  BY <1>1, <1>3 DEF Delete
<1> QED
  BY <1>1, <1>2, <1>4, UnlinkMoves DEF Inv, Moves

LEMMA FreshIs ==
    ASSUME NEW p \in Seq(Nat), NEW kind \in EntryKind, NEW hash, NEW target, NEW size
    PROVE  /\ IsEntry(Fresh(p, kind, hash, target, size))
           /\ Fresh(p, kind, hash, target, size).path = p
           /\ Fresh(p, kind, hash, target, size).kind = kind
           /\ Fresh(p, kind, hash, target, size).hash = hash
           /\ Fresh(p, kind, hash, target, size).metadata.size = size
  BY DEF Fresh, IsEntry

\* What is in a tree has all of its ancestors there.
LEMMA AncestorsThere ==
    ASSUME NEW fs, Sound(fs), NEW p \in Seq(Nat),
           NEW m, m \in 0 .. Len(p), NEW k, k \in 0 .. m,
           NEW q, q = SubSeq(p, 1, m), At(fs, q) # {}
    PROVE  At(fs, SubSeq(p, 1, k)) # {}
<1>1. PICK e \in fs : e.path = SubSeq(p, 1, m)
  <2>1. PICK e \in At(fs, q) : TRUE
    OBVIOUS
  <2> QED
    BY <2>1 DEF At
<1>2. Len(e.path) = m
  BY <1>1, Paths
<1>3. CASE k = m
  BY <1>1, <1>3 DEF At
<1>4. CASE k # m
  <2>1. k \in 0 .. Len(e.path) - 1
    BY <1>2, <1>4
  <2>2. HasDirectory(fs, SubSeq(e.path, 1, k))
    BY <2>1, Ancestors
  <2>3. SubSeq(e.path, 1, k) = SubSeq(p, 1, k)
    BY <1>1
  <2> QED
    BY <2>2, <2>3 DEF HasDirectory, At
<1> QED
  BY <1>3, <1>4

\* The directories create_dir_all makes lie one in the other, the first in one
\* that is there.
LEMMA MadeInDirectory ==
    ASSUME Sound(tree), NEW p \in Seq(Nat), Creatable(p), NEW q \in Lacking(p)
    PROVE  parent(q) \in Lacking(p) \/ HasDirectory(tree, parent(q))
<1>1. PICK q0 \in Lacking(p) : HasDirectory(tree, parent(q0))
  BY Writable DEF Creatable
<1>2. PICK n \in 0 .. Len(p) : q = SubSeq(p, 1, n) /\ At(tree, q) = {}
  BY DEF Lacking
<1>3. PICK m \in 0 .. Len(p) : q0 = SubSeq(p, 1, m) /\ At(tree, q0) = {}
  BY <1>1 DEF Lacking
<1>4. /\ q \in Seq(Nat) /\ Len(q) = n
      /\ q0 \in Seq(Nat) /\ Len(q0) = m
  BY <1>2, <1>3, Paths
<1>5. m # 0
  <2> SUFFICES ASSUME m = 0 PROVE FALSE
    OBVIOUS
  <2>1. q0 = root
    BY <1>4 DEF root
  <2> QED
    BY <1>1, <1>3, <2>1, <1>4, Paths DEF HasDirectory, At
<1>6. parent(q0) = SubSeq(p, 1, m - 1)
  <2>1. q0 # root
    BY <1>4, <1>5 DEF root
  <2>2. parent(q0) = SubSeq(q0, 1, m - 1)
    BY <1>4, <2>1, Paths
  <2> QED
    BY <1>3, <1>5, <2>2
<1>7. CASE n = 0
  <2>1. q = root
    BY <1>4, <1>7 DEF root
  <2> QED
    BY <2>1, <1>4, Paths
<1>8. CASE n # 0
  <2>1. parent(q) = SubSeq(p, 1, n - 1) /\ n - 1 \in 0 .. Len(p)
    <3>1. q # root
      BY <1>4, <1>8 DEF root
    <3>2. parent(q) = SubSeq(q, 1, n - 1)
      BY <1>4, <3>1, Paths
    <3> QED
      BY <1>2, <1>8, <3>2
  <2> SUFFICES ASSUME parent(q) \notin Lacking(p)
               PROVE  n = m
    BY <1>1, <1>2, <1>3
  <2>2. At(tree, parent(q)) # {}
    BY <2>1 DEF Lacking
  <2>3. ~ (n < m)
    <3> SUFFICES ASSUME n < m PROVE FALSE
      OBVIOUS
    <3>1. At(tree, parent(q0)) # {}
      BY <1>1 DEF HasDirectory, At
    <3>2. m - 1 \in 0 .. Len(p) /\ n \in 0 .. m - 1
      BY <1>5
    <3>3. At(tree, SubSeq(p, 1, n)) # {}
      BY <3>1, <3>2, <1>6, AncestorsThere
    <3> QED
      BY <3>3, <1>2
  <2>4. ~ (m < n)
    <3> SUFFICES ASSUME m < n PROVE FALSE
      OBVIOUS
    <3>1. n - 1 \in 0 .. Len(p) /\ m \in 0 .. n - 1
      BY <1>8
    <3>2. At(tree, SubSeq(p, 1, m)) # {}
      BY <3>1, <2>1, <2>2, AncestorsThere
    <3> QED
      BY <3>2, <1>3
  <2> QED
    BY <2>3, <2>4
<1> QED
  BY <1>7, <1>8

LEMMA AddDirectoryMoves ==
    ASSUME Inv, AddDirectory
    PROVE  Moves({})
<1>1. PICK p \in Seq(Nat) : p = change.path /\ Speaks(p)
  BY AtChange DEF AddDirectory, Inv
<1> DEFINE made == {Fresh(q, "Directory", None, None, 0) : q \in Lacking(p)}
           grown == tree \cup made
           g == [e \in grown |-> IF \E d \in made : parent(d.path) = e.path
                                 THEN [e EXCEPT !.metadata.mtime = Now] ELSE e]
<1>2. tree' = {g[x] : x \in grown}
  BY <1>1 DEF AddDirectory
<1>3. Creatable(p) /\ Sound(tree)
  BY <1>1 DEF AddDirectory, Succeeds, Inv
<1>4. ASSUME NEW q \in Lacking(p)
      PROVE  q \in Seq(Nat) /\ ~ IsTemp(q) /\ At(tree, q) = {}
  <2>1. PICK n \in 0 .. Len(p) : q = SubSeq(p, 1, n) /\ At(tree, q) = {}
    BY DEF Lacking
  <2>2. q \in Seq(Nat)
    BY <2>1, Paths
  <2>3. ~ IsTemp(q)
    BY <1>1, <2>1 DEF Speaks
  <2> QED
    BY <2>1, <2>2, <2>3
<1>5. ASSUME NEW e \in made
      PROVE  /\ IsEntry(e) /\ e.kind = "Directory" /\ e.path \in Lacking(p)
             /\ e = Fresh(e.path, "Directory", None, None, 0)
  <2>1. PICK q \in Lacking(p) : e = Fresh(q, "Directory", None, None, 0)
    OBVIOUS
  <2> QED
    BY <2>1, <1>4, FreshIs DEF EntryKind
<1>6. ASSUME NEW q \in Lacking(p)
      PROVE  \E e \in made : e.path = q
  <2>1. Fresh(q, "Directory", None, None, 0) \in made
    OBVIOUS
  <2>2. Fresh(q, "Directory", None, None, 0).path = q
    BY DEF Fresh
  <2> HIDE DEF made
  <2> QED
    BY <2>1, <2>2
<1> HIDE DEF made
<1>7. ASSUME NEW e \in made
      PROVE  HasDirectory(grown, parent(e.path))
  <2>1. parent(e.path) \in Lacking(p) \/ HasDirectory(tree, parent(e.path))
    BY <1>1, <1>3, <1>5, MadeInDirectory
  <2> QED
    BY <2>1, <1>5, <1>6 DEF HasDirectory
<1>8. Sound(grown)
  <2>1. \A e \in grown : IsEntry(e) /\ (IsTemp(e.path) => e.kind = "File")
    BY <1>3, <1>4, <1>5 DEF Sound
  <2>2. \A e, f \in grown : e.path = f.path => e = f
    <3>1. \A e \in tree, f \in made : e.path # f.path
      BY <1>4, <1>5 DEF At
    <3>2. \A e, f \in made : e.path = f.path => e = f
      BY <1>5
    <3>3. \A e, f \in tree : e.path = f.path => e = f
      BY <1>3 DEF Sound, IsTree
    <3> QED
      BY <3>1, <3>2, <3>3
  <2>3. \A e \in grown : e.path # root => HasDirectory(grown, parent(e.path))
    BY <1>3, <1>7 DEF Sound, IsTree, HasDirectory, At
  <2> HIDE DEF grown
  <2>4. IsTree(grown)
    BY <2>2, <2>3 DEF IsTree, HasDirectory, At
  <2> QED
    BY <2>1, <2>4 DEF Sound
<1>9. ASSUME NEW x \in grown
      PROVE  IsEntry(g[x]) /\ Same(g[x], x)
  <2>1. IsEntry(x)
    BY <1>8 DEF Sound
  <2>2. CASE \E d \in made : parent(d.path) = x.path
    <3>1. PICK y : y = [x EXCEPT !.metadata.mtime = Now]
      OBVIOUS
    <3>2. g[x] = y
      BY <2>2, <3>1
    <3>3. x.kind = "Directory"
      <4>1. HasDirectory(grown, x.path)
        BY <2>2, <1>7
      <4> HIDE DEF grown
      <4> QED
        BY <4>1, <1>8 DEF HasDirectory, Sound, IsTree
    <3>4. IsEntry(y) /\ Like(y, x)
      BY <2>1, <3>1, WithMtime
    <3>5. y.metadata.mode = x.metadata.mode
      BY <2>1, <3>1 DEF IsEntry
    <3> HIDE DEF g
    <3> QED
      BY <3>2, <3>3, <3>4, <3>5 DEF Same
  <2>3. CASE ~ \E d \in made : parent(d.path) = x.path
    <3>1. g[x] = x
      BY <2>3
    <3> HIDE DEF g
    <3> QED
      BY <2>1, <3>1 DEF Same, Like
  <2> QED
    BY <2>2, <2>3
<1> HIDE DEF g
<1>10. tree \subseteq grown
  OBVIOUS
<1> HIDE DEF grown
<1>11. Sound({g[x] : x \in grown})
  BY <1>8, <1>9, Altered DEF Same
<1> QED
  BY <1>2, <1>9, <1>10, <1>11 DEF Moves, Kept

LEMMA ClearedMoves ==
    ASSUME Inv, In("create")
    PROVE  Sound(Cleared) /\ Kept(tree, Cleared, {change.path})
<1>1. PICK p \in Seq(Nat) : p = change.path
  BY AtChange DEF Inv
<1>2. CASE Cleared = tree
  BY <1>2 DEF Inv, Kept, Same, Like
<1>3. CASE Removable(tree, p, "Symlink") /\ Cleared = Unlink(tree, p)
  <2>1. NothingBelow(tree, p) /\ HasDirectory(tree, parent(p))
    BY <1>3, RemovableIsLeaf DEF Inv
  <2> QED
    BY <1>1, <1>3, <2>1, UnlinkMoves DEF Inv
<1> QED
  BY <1>1, <1>2, <1>3 DEF Cleared

LEMMA LinkMoves ==
    ASSUME Inv, In("create"), Linkable,
           NEW target, tree' = Put(Cleared, Fresh(change.path, "Symlink", None, target, 0))
    PROVE  Moves({change.path})
<1>1. PICK p \in Seq(Nat) : p = change.path /\ ~ IsTemp(p) /\ ~ IsTemp(parent(p))
  BY AtChange DEF Inv
<1>2. Sound(Cleared) /\ Kept(tree, Cleared, {p})
  BY <1>1, ClearedMoves
<1>3. At(Cleared, p) = {} /\ HasDirectory(tree, parent(p))
  BY <1>1, Writable DEF Linkable
<1>4. p # root
  <2> SUFFICES ASSUME p = root PROVE FALSE
    OBVIOUS
  <2>1. HasDirectory(tree, p)
    BY <1>3, <1>1, Paths
  <2>2. ~ Removable(tree, p, "Symlink")
    BY <2>1 DEF HasDirectory, Removable, At, Inv, Sound, IsTree
  <2>3. Cleared = tree
    BY <1>1, <2>2 DEF Cleared
  <2> QED
    BY <1>3, <2>1, <2>3 DEF HasDirectory, At
<1>5. HasDirectory(Cleared, parent(p))
  BY <1>1, <1>2, <1>3, <1>4, KeptDirectory, Paths
<1>6. NothingBelow(Cleared, p)
  BY <1>2, <1>3, Leaf DEF HasDirectory, At
<1>7. PICK e : e = Fresh(p, "Symlink", None, target, 0)
  OBVIOUS
<1>8. IsEntry(e) /\ e.path = p
  BY <1>7, FreshIs DEF EntryKind
<1>9. Sound(Put(Cleared, e)) /\ Kept(Cleared, Put(Cleared, e), {p})
  BY <1>1, <1>2, <1>4, <1>5, <1>6, <1>8, PutMoves
<1>10. Kept(tree, Put(Cleared, e), {p})
  BY <1>2, <1>9, KeptTrans
<1> QED
  BY <1>1, <1>7, <1>9, <1>10 DEF Moves

LEMMA MakeLinkMoves ==
    ASSUME Inv, MakeLink
    PROVE  Moves({change.path})
<1>1. In("create") /\ Linkable
  BY DEF MakeLink, Succeeds
<1>2. \E target : tree' = Put(Cleared, Fresh(change.path, "Symlink", None, target, 0))
  BY DEF MakeLink
<1> QED
  BY <1>1, <1>2, LinkMoves

LEMMA MakeLinkFailsMoves ==
    ASSUME Inv, MakeLinkFails
    PROVE  Moves({change.path})
<1>1. In("create") /\ tree' \in {tree, Cleared}
  BY DEF MakeLinkFails
<1>2. Sound(Cleared) /\ Kept(tree, Cleared, {change.path})
  BY <1>1, ClearedMoves
<1>3. Sound(tree) /\ Kept(tree, tree, {change.path})
  BY DEF Inv, Kept, Same, Like
<1> QED
  BY <1>1, <1>2, <1>3 DEF Moves

LEMMA TempPaths ==
    ASSUME NEW p \in Seq(Nat)
    PROVE  /\ TempPath(p) \in Seq(Nat) /\ TempPath(p) # root
           /\ IsTemp(TempPath(p)) /\ parent(TempPath(p)) = parent(p)
<1>1. PICK q \in Seq(Nat) : q = parent(p)
  BY Paths
<1> Temp \in Nat
  BY ApplyAssumption
<1>2. Append(q, Temp) \in Seq(Nat) /\ Append(q, Temp) # root
  <2>1. Append(q, Temp) \in Seq(Nat) /\ Len(Append(q, Temp)) = Len(q) + 1
    OBVIOUS
  <2>2. Len(root) = 0 /\ Len(q) \in Nat /\ Len(q) + 1 # 0
    BY DEF root
  <2>3. Append(q, Temp) # root
    BY <2>1, <2>2, Zenon
  <2> QED
    BY <2>1, <2>3
<1>3. Last(Append(q, Temp)) = Temp
  BY DEF Last
<1>4. parent(Append(q, Temp)) = q
  BY DEF parent, Front
<1> QED
  BY <1>1, <1>2, <1>3, <1>4 DEF TempPath, IsTemp

\* Nothing is underneath a tempfile.
LEMMA TempIsLeaf ==
    ASSUME NEW fs, Sound(fs), NEW p \in Seq(Nat), IsTemp(p)
    PROVE  NothingBelow(fs, p)
<1>1. ~ HasDirectory(fs, p)
  BY DEF HasDirectory, Sound
<1> QED
  BY <1>1, Leaf

LEMMA KeptButTemp ==
    ASSUME NEW a, NEW b, NEW p, IsTemp(p), Kept(a, b, {p})
    PROVE  Kept(a, b, {})
  BY DEF Kept

LEMMA BeginWriteMoves ==
    ASSUME Inv, BeginWrite
    PROVE  /\ Moves({})
           /\ \E e \in tree' : e.path = TempPath(change.path)
<1>1. PICK p \in Seq(Nat) : p = change.path
  BY AtChange DEF BeginWrite, Inv
<1>2. PICK t : t = TempPath(p)
  OBVIOUS
<1>3. /\ t \in Seq(Nat) /\ t # root /\ IsTemp(t) /\ parent(t) = parent(p)
  BY <1>2, TempPaths
<1>4. HasDirectory(tree, parent(t))
  BY <1>1, <1>3, Writable DEF BeginWrite, Succeeds
<1>5. NothingBelow(tree, t)
  BY <1>3, TempIsLeaf DEF Inv
<1>6. PICK e : e = Fresh(t, "File", None, None, 0)
  OBVIOUS
<1>7. IsEntry(e) /\ e.path = t /\ e.kind = "File"
  BY <1>3, <1>6, FreshIs DEF EntryKind
<1>8. /\ Sound(Put(tree, e)) /\ Kept(tree, Put(tree, e), {t})
      /\ \E x \in Put(tree, e) : Like(x, e)
  BY <1>3, <1>4, <1>5, <1>7, PutMoves DEF Inv
<1>9. Kept(tree, Put(tree, e), {})
  BY <1>3, <1>8, KeptButTemp
<1>10. tree' = Put(tree, e)
  BY <1>1, <1>2, <1>6 DEF BeginWrite
<1> QED
  BY <1>1, <1>2, <1>7, <1>8, <1>9, <1>10 DEF Moves, Like

LEMMA DroppedMoves ==
    ASSUME Inv, In("content")
    PROVE  /\ Sound(Dropped) /\ Kept(tree, Dropped, {})
           /\ \A e \in Dropped : \E x \in tree : Like(e, x)
           /\ temp # None => HasDirectory(tree, parent(change.path))
<1>1. PICK p \in Seq(Nat) : p = change.path
  BY AtChange DEF Inv
<1>2. CASE temp = None
  BY <1>2 DEF Dropped, Inv, Kept, Same, Like
<1>3. CASE temp # None
  <2>1. PICK t : t = TempPath(p)
    OBVIOUS
  <2>2. /\ t \in Seq(Nat) /\ t # root /\ IsTemp(t) /\ parent(t) = parent(p)
    BY <2>1, TempPaths
  <2>3. PICK e \in tree : e.path = t
    BY <1>1, <1>3, <2>1 DEF Inv, TempInv
  <2>4. HasDirectory(tree, parent(t))
    BY <2>2, <2>3 DEF Inv, Sound, IsTree, HasDirectory, At
  <2>5. NothingBelow(tree, t)
    BY <2>2, TempIsLeaf DEF Inv
  <2>6. Dropped = Unlink(tree, t)
    BY <1>1, <1>3, <2>1 DEF Dropped
  <2>7. /\ Sound(Dropped) /\ Kept(tree, Dropped, {t})
        /\ \A x \in Dropped : \E y \in tree : Like(x, y)
    BY <2>4, <2>5, <2>6, UnlinkMoves DEF Inv
  <2>8. Kept(tree, Dropped, {})
    BY <2>2, <2>7, KeptButTemp
  <2> QED
    BY <1>1, <2>2, <2>4, <2>7, <2>8
<1> QED
  BY <1>2, <1>3

LEMMA PersistMoves ==
    ASSUME Inv, Persist
    PROVE  /\ Moves({change.path})
           /\ change.op = "Modified" /\ change.has_content =>
                \E e \in tree', n \in change.new_metadata :
                    /\ e.path = change.path /\ e.kind = "File"
                    /\ e.hash = change.new_hash /\ e.metadata.size = n.size
<1>1. PICK p \in Seq(Nat) : p = change.path /\ ~ IsTemp(p) /\ ~ IsTemp(parent(p))
  BY AtChange DEF Persist, Inv
<1>2. In("content") /\ temp # None /\ Persistable
  BY DEF Persist, Succeeds
<1>3. /\ Sound(Dropped) /\ Kept(tree, Dropped, {})
      /\ \A e \in Dropped : \E x \in tree : Like(e, x)
      /\ HasDirectory(tree, parent(p))
  BY <1>1, <1>2, DroppedMoves
<1>4. ~ HasDirectory(tree, p)
  BY <1>1, <1>2 DEF Persistable, HasDirectory, At
<1>5. p # root
  BY <1>3, <1>4, <1>1, Paths
<1>6. ~ HasDirectory(Dropped, p)
  BY <1>3, <1>4 DEF HasDirectory, Like
<1>7. NothingBelow(Dropped, p)
  BY <1>3, <1>6, Leaf
<1>8. HasDirectory(Dropped, parent(p))
  BY <1>1, <1>3, KeptDirectory
<1> DEFINE H == IF change.op = "Added" THEN change.entry.hash ELSE change.new_hash
           M == IF change.op = "Added" THEN Some(change.entry.metadata)
                                       ELSE change.new_metadata
           N == CHOOSE n \in {m.size : m \in M} : TRUE
<1>9. PICK e : e = Fresh(p, "File", H, None, N)
  OBVIOUS
<1>10. IsEntry(e) /\ e.path = p /\ e.kind = "File" /\ e.hash = H /\ e.metadata.size = N
  <2> HIDE DEF H, N
  <2> QED
    BY <1>9, FreshIs DEF EntryKind
<1>11. tree' = Put(Dropped, e)
  BY <1>1, <1>9 DEF Persist
<1>12. /\ Sound(Put(Dropped, e)) /\ Kept(Dropped, Put(Dropped, e), {p})
       /\ \E x \in Put(Dropped, e) : Like(x, e)
  BY <1>3, <1>5, <1>7, <1>8, <1>10, PutMoves
<1>13. Kept(tree, Dropped, {p})
  BY <1>3, KeptFewer
<1>14. Kept(tree, tree', {p})
  BY <1>11, <1>12, <1>13, KeptTrans
<1>15. ASSUME change.op = "Modified", change.has_content
       PROVE  \E x \in tree', n \in change.new_metadata :
                  /\ x.path = p /\ x.kind = "File"
                  /\ x.hash = change.new_hash /\ x.metadata.size = n.size
  <2>1. PICK x \in tree' : Like(x, e)
    BY <1>11, <1>12
  <2>2. H = change.new_hash /\ M = change.new_metadata
    BY <1>15
  <2>3. change.new_metadata # {}
    <3>1. change \in ChangesOf(before, after)
      BY <1>2, AtChange DEF Inv, PlanInv
    <3>2. \E v, w : compute_entry_diff(v, w) = <<change>>
      BY <3>1, <1>15, ChangesAre DEF build_removed_change, build_added_change
    <3> QED
      BY <3>2, <1>15, ModifiedIs DEF None
  <2>4. \E n \in change.new_metadata : N = n.size
    BY <2>2, <2>3
  <2> HIDE DEF H, M, N
  <2> QED
    BY <2>1, <2>2, <2>4, <1>10 DEF Like
<1> QED
  BY <1>1, <1>11, <1>12, <1>14, <1>15 DEF Moves

LEMMA WithTimesMoves ==
    ASSUME NEW fs, Sound(fs), NEW times, NEW S,
           \A t \in times, x \in fs :
               t.path = x.path /\ x.path \notin S /\ ~ IsTemp(x.path) =>
                   x.kind = "Directory"
    PROVE  /\ Sound(WithTimes(fs, times))
           /\ Kept(fs, WithTimes(fs, times), S)
           /\ \A x \in fs : \E e \in WithTimes(fs, times) : Like(e, x)
           /\ \A e \in WithTimes(fs, times) :
                (\E t \in times : t.path = e.path) =>
                    e.metadata.mtime = (CHOOSE t \in times : t.path = e.path).mtime
<1> DEFINE timed(x) == \E t \in times : t.path = x.path
           m(x) == (CHOOSE t \in times : t.path = x.path).mtime
           g == [x \in fs |-> IF timed(x) THEN [x EXCEPT !.metadata.mtime = m(x)] ELSE x]
<1>1. WithTimes(fs, times) = {g[x] : x \in fs}
  BY DEF WithTimes
<1>2. ASSUME NEW x \in fs
      PROVE  /\ IsEntry(g[x]) /\ Like(g[x], x)
             /\ timed(x) => g[x].metadata.mtime = m(x)
             /\ x.path \notin S /\ ~ IsTemp(x.path) => Same(g[x], x)
  <2>1. IsEntry(x)
    BY DEF Sound
  <2>2. CASE timed(x)
    <3>1. PICK time : time = m(x)
      OBVIOUS
    <3>2. PICK y : y = [x EXCEPT !.metadata.mtime = time]
      OBVIOUS
    <3>3. g[x] = y
      BY <2>2, <3>1, <3>2
    <3>4. IsEntry(y) /\ Like(y, x)
      BY <2>1, <3>2, WithMtime
    <3>5. y.metadata.mode = x.metadata.mode /\ y.metadata.mtime = time
      BY <2>1, <3>2 DEF IsEntry
    <3>6. x.path \notin S /\ ~ IsTemp(x.path) => x.kind = "Directory"
      BY <2>2
    <3> HIDE DEF g, m
    <3> QED
      BY <3>1, <3>3, <3>4, <3>5, <3>6 DEF Same
  <2>3. CASE ~ timed(x)
    <3>1. g[x] = x
      BY <2>3
    <3> HIDE DEF g, m, timed
    <3> QED
      BY <2>1, <2>3, <3>1 DEF Same, Like
  <2> QED
    BY <2>2, <2>3
<1>3. ASSUME NEW x \in fs, NEW e, e.path = x.path
      PROVE  (timed(x) <=> timed(e)) /\ m(x) = m(e)
  BY <1>3
<1> HIDE DEF g, m, timed
<1>4. Sound({g[x] : x \in fs})
  BY <1>2, Altered
<1>5. Kept(fs, {g[x] : x \in fs}, S)
  BY <1>2 DEF Kept
<1>6. ASSUME NEW e \in {g[x] : x \in fs}, timed(e)
      PROVE  e.metadata.mtime = m(e)
  <2>1. PICK x \in fs : e = g[x]
    OBVIOUS
  <2>2. e.path = x.path
    BY <1>2, <2>1 DEF Like
  <2> QED
    BY <1>2, <1>3, <1>6, <2>1, <2>2
<1>7. \A e \in WithTimes(fs, times) : timed(e) => e.metadata.mtime = m(e)
  BY <1>1, <1>6
<1>8. \A e \in WithTimes(fs, times) :
         (\E t \in times : t.path = e.path) =>
             e.metadata.mtime = (CHOOSE t \in times : t.path = e.path).mtime
  BY <1>7 DEF timed, m
<1> QED
  BY <1>1, <1>2, <1>4, <1>5, <1>8

LEMMA RestoreMoves ==
    ASSUME Inv, RestoreTimes
    PROVE  /\ Moves(ChangedPaths)
           /\ \A x \in tree : \E e \in tree' : Like(e, x)
           /\ \E saved \in SUBSET saved_dir_mtimes :
                /\ \A t \in saved_dir_mtimes \ saved : t.path \in unstamped'
                /\ \A e \in tree' :
                     (\E t \in saved : t.path = e.path) =>
                         e.metadata.mtime = (CHOOSE t \in saved : t.path = e.path).mtime
<1>0. PICK explicit \in SUBSET dir_metadata_changes, times \in SUBSET saved_dir_mtimes :
         LET refused == (dir_metadata_changes \ explicit) \cup (saved_dir_mtimes \ times)
         IN  /\ tree' = WithTimes(WithTimes(tree, explicit), times)
             /\ Warns(refused = {}, {t.path : t \in refused})
  BY DEF RestoreTimes
<1>1. PICK between : between = WithTimes(tree, explicit)
  OBVIOUS
<1>2. /\ Sound(between) /\ Kept(tree, between, ChangedPaths)
      /\ \A x \in tree : \E e \in between : Like(e, x)
  <2>1. \A t \in explicit : t.path \in ChangedPaths
    BY DEF Inv, PlanInv
  <2> QED
    BY <1>1, <2>1, WithTimesMoves DEF Inv
<1>3. ASSUME NEW t \in times, NEW x \in between,
             t.path = x.path, x.path \notin ChangedPaths, ~ IsTemp(x.path)
      PROVE  x.kind = "Directory"
  <2>1. HasDirectory(tree, x.path)
    BY <1>3 DEF Inv, SavedInv
  <2>2. HasDirectory(between, x.path)
    BY <1>2, <1>3, <2>1, KeptDirectory
  <2> QED
    BY <1>2, <2>2 DEF HasDirectory, Sound, IsTree
<1>4. \A t \in saved_dir_mtimes \ times : t.path \in unstamped'
  BY <1>0 DEF Warns
<1>5. /\ Sound(WithTimes(between, times))
      /\ Kept(between, WithTimes(between, times), ChangedPaths)
      /\ \A x \in between : \E e \in WithTimes(between, times) : Like(e, x)
      /\ \A e \in WithTimes(between, times) :
           (\E t \in times : t.path = e.path) =>
               e.metadata.mtime = (CHOOSE t \in times : t.path = e.path).mtime
  BY <1>2, <1>3, WithTimesMoves
<1>6. tree' = WithTimes(between, times)
  BY <1>0, <1>1
<1>7. Kept(tree, tree', ChangedPaths)
  BY <1>2, <1>5, <1>6, KeptTrans
<1>8. \A x \in tree : \E e \in tree' : Like(e, x)
  BY <1>2, <1>5, <1>6 DEF Like
<1> QED
  BY <1>4, <1>5, <1>6, <1>7, <1>8 DEF Moves

----------------------------------------------------------------------------
(* The invariant holds.                                                    *)

LEMMA InvInit == ApplyInit => Inv
<1> SUFFICES ASSUME ApplyInit PROVE Inv
  OBVIOUS
<1> USE DEF ApplyInit
<1>1. PlanInv
  BY DEF PlanInv, None
<1>2. Sound(tree)
  BY TreesSound
<1>3. TempInv /\ SavedInv
  BY DEF TempInv, SavedInv
<1> QED
  BY <1>1, <1>2, <1>3 DEF Inv

\* What the diff is does not change.
LEMMA InputStays ==
    ASSUME [ApplyNext]_applyVars
    PROVE  /\ UNCHANGED input
           /\ ChangedPaths' = ChangedPaths
           /\ deletions' = deletions /\ items' = items /\ contents' = contents
<1>1. UNCHANGED input
  BY DEF ApplyNext, Step, applyVars, input, Start, Stamp, Delete, DeleteFails,
         DeletionsDone, NextPhase, Failed, AddDirectory, AddDirectoryFails, MakeLink,
         MakeLinkFails, ChangeMetadata, CreationsDone, BeginWrite, Abort, Persist,
         PersistFails, ContentDone, RestoreTimes, Kill
<1>2. changes' = changes
  BY <1>1 DEF input
<1> QED
  BY <1>1, <1>2 DEF ChangedPaths, deletions, items, contents, HasContent

LEMMA PlanStep ==
    ASSUME Inv, [ApplyNext]_applyVars
    PROVE  PlanInv'
<1> DEFINE Rest ==
      /\ todo' \subseteq changes
      /\ apc' = "delete" => todo' \subseteq deletions
      /\ apc' = "create" => todo' \subseteq items
      /\ apc' = "content" => todo' \subseteq contents
      /\ \A s \in stamp' : s.path \in ChangedPaths
      /\ \A t \in dir_metadata_changes' : t.path \in ChangedPaths
      /\ apc' \notin {"create", "content"} => stamp' = None
<1>1. Rest => PlanInv'
  BY InputStays DEF PlanInv, input, Inv
<1> USE DEF PlanInv
<1>2. Inv => PlanInv
  BY DEF Inv
<1>3. CASE UNCHANGED applyVars
  BY <1>1, <1>2, <1>3 DEF applyVars, memory
<1>4. CASE Start
  BY <1>1, <1>2, <1>4 DEF Start, deletions, None
<1>5. CASE Stamp
  BY <1>1, <1>2, <1>5 DEF Stamp, memory, None
<1>6. CASE Delete \/ DeleteFails
  BY <1>1, <1>2, <1>6 DEF Delete, DeleteFails, Failed, In, memory
<1>7. CASE DeletionsDone
  BY <1>1, <1>2, <1>7 DEF DeletionsDone, NextPhase, items, memory, None
<1>8. CASE AddDirectory
  <2>1. In("create") /\ change.path \in ChangedPaths
    BY <1>2, <1>8, AtChange DEF AddDirectory
  <2>2. PICK p : p = change.path
    OBVIOUS
  <2>3. PICK metadata : metadata = change.entry.metadata
    OBVIOUS
  <2>4. /\ stamp' = {[path |-> p, metadata |-> metadata]}
        /\ dir_metadata_changes' = dir_metadata_changes
             \cup {[path |-> p, mtime |-> metadata.mtime]}
        /\ todo' = todo \ {change} /\ apc' = apc
    BY <1>8, <2>2, <2>3 DEF AddDirectory, Some
  <2> QED
    BY <1>1, <1>2, <2>1, <2>2, <2>4 DEF In
<1>9. CASE AddDirectoryFails \/ MakeLinkFails
  BY <1>1, <1>2, <1>9 DEF AddDirectoryFails, MakeLinkFails, Failed, In, memory
<1>10. CASE MakeLink
  <2>1. In("create") /\ change.path \in ChangedPaths
    BY <1>2, <1>10, AtChange DEF MakeLink
  <2>2. PICK p : p = change.path
    OBVIOUS
  <2>3. \A s \in stamp' : s.path = p
    BY <1>10, <2>2 DEF MakeLink
  <2>4. todo' = todo \ {change} /\ apc' = apc /\ UNCHANGED memory
    BY <1>10 DEF MakeLink
  <2> QED
    BY <1>1, <1>2, <2>1, <2>2, <2>3, <2>4 DEF In, memory
<1>11. CASE ChangeMetadata
  <2>1. In("create") /\ change.path \in ChangedPaths
    BY <1>2, <1>11, AtChange DEF ChangeMetadata
  <2>2. PICK p : p = change.path
    OBVIOUS
  <2>3. \A s \in stamp' : s.path = p
    BY <1>11, <2>2 DEF ChangeMetadata
  <2>4. \A t \in dir_metadata_changes' : t \in dir_metadata_changes \/ t.path = p
    BY <1>11, <2>3 DEF ChangeMetadata
  <2>5. todo' = todo \ {change} /\ apc' = apc
    BY <1>11 DEF ChangeMetadata
  <2> QED
    BY <1>1, <1>2, <2>1, <2>2, <2>3, <2>4, <2>5 DEF In
<1>12. CASE CreationsDone
  BY <1>1, <1>2, <1>12 DEF CreationsDone, NextPhase, contents, memory
<1>13. CASE BeginWrite
  BY <1>1, <1>2, <1>13 DEF BeginWrite, In, memory
<1>14. CASE Abort
  BY <1>1, <1>2, <1>14 DEF Abort, In, memory
<1>15. CASE Persist
  <2>1. In("content") /\ change.path \in ChangedPaths
    BY <1>2, <1>15, AtChange DEF Persist
  <2>2. PICK p : p = change.path
    OBVIOUS
  <2>3. \A s \in stamp' : s.path = p
    BY <1>15, <2>2 DEF Persist
  <2>4. todo' = todo \ {change} /\ apc' = apc /\ UNCHANGED memory
    BY <1>15 DEF Persist
  <2> QED
    BY <1>1, <1>2, <2>1, <2>2, <2>3, <2>4 DEF In, memory
<1>16. CASE PersistFails
  BY <1>1, <1>2, <1>16 DEF PersistFails, Failed, In, memory
<1>17. CASE ContentDone
  BY <1>1, <1>2, <1>17 DEF ContentDone, NextPhase, memory
<1>18. CASE RestoreTimes
  BY <1>1, <1>2, <1>18 DEF RestoreTimes, memory
<1>19. CASE Kill
  BY <1>1, <1>2, <1>19 DEF Kill, memory, None
<1> QED
  BY <1>3, <1>4, <1>5, <1>6, <1>7, <1>8, <1>9, <1>10, <1>11, <1>12, <1>13, <1>14,
     <1>15, <1>16, <1>17, <1>18, <1>19 DEF ApplyNext, Step

\* A step that alters the tree does so on paths of the diff only.
LEMMA StepMoves ==
    ASSUME Inv, [ApplyNext]_applyVars
    PROVE  Moves(ChangedPaths)
<1>1. CASE tree' = tree
  BY <1>1 DEF Moves, Inv, Kept, Same, Like
<1>2. ASSUME NEW phase, In(phase), Moves({change.path}) \/ Moves({})
      PROVE  Moves(ChangedPaths)
  <2>1. change.path \in ChangedPaths
    BY <1>2, AtChange DEF Inv
  <2> QED
    BY <1>2, <2>1 DEF Moves, Kept
<1>3. CASE Stamp
  <2>1. PICK s \in stamp : Moves({s.path})
    BY <1>3, StampMoves
  <2>2. s.path \in ChangedPaths
    BY DEF Inv, PlanInv
  <2> QED
    BY <2>1, <2>2 DEF Moves, Kept
<1>4. CASE Delete
  BY <1>2, <1>4, DeleteMoves DEF Delete
<1>5. CASE AddDirectory
  BY <1>2, <1>5, AddDirectoryMoves DEF AddDirectory
<1>6. CASE MakeLink
  BY <1>2, <1>6, MakeLinkMoves DEF MakeLink
<1>7. CASE MakeLinkFails
  BY <1>2, <1>7, MakeLinkFailsMoves DEF MakeLinkFails
<1>8. CASE BeginWrite
  BY <1>2, <1>8, BeginWriteMoves DEF BeginWrite
<1>9. CASE Abort \/ PersistFails
  <2>1. In("content") /\ tree' = Dropped
    BY <1>9 DEF Abort, PersistFails
  <2>2. Moves({})
    BY <2>1, DroppedMoves DEF Moves
  <2> QED
    BY <1>2, <2>1, <2>2
<1>10. CASE Persist
  BY <1>2, <1>10, PersistMoves DEF Persist
<1>11. CASE RestoreTimes
  BY <1>11, RestoreMoves
<1>12. CASE \/ UNCHANGED applyVars \/ Start \/ DeleteFails \/ DeletionsDone
            \/ AddDirectoryFails \/ ChangeMetadata \/ CreationsDone
            \/ ContentDone \/ Kill
  BY <1>1, <1>12 DEF applyVars, Start, DeleteFails, DeletionsDone, NextPhase,
                     AddDirectoryFails, ChangeMetadata, CreationsDone, ContentDone, Kill
<1> QED
  BY <1>3, <1>4, <1>5, <1>6, <1>7, <1>8, <1>9, <1>10, <1>11, <1>12 DEF ApplyNext, Step

LEMMA TempStep ==
    ASSUME Inv, [ApplyNext]_applyVars
    PROVE  TempInv'
<1> SUFFICES ASSUME temp' # None
             PROVE  TempInv'
  BY DEF TempInv
<1>1. changes' = changes
  BY InputStays DEF input
<1>2. ASSUME UNCHANGED <<apc, todo, stamp>>
      PROVE  In("content")' = In("content") /\ change' = change
  <2>1. Current' = Current
    BY <1>2 DEF Current, Earlier
  <2> QED
    BY <1>2, <2>1 DEF In, change
<1>3. CASE BeginWrite
  <2>1. In("content") /\ UNCHANGED <<apc, todo, stamp>>
    BY <1>3 DEF BeginWrite
  <2>2. \E e \in tree' : e.path = TempPath(change.path)
    BY <1>3, BeginWriteMoves
  <2> QED
    BY <1>2, <2>1, <2>2 DEF TempInv
<1>4. CASE UNCHANGED applyVars
  <2>1. UNCHANGED <<apc, todo, stamp, temp, tree>>
    BY <1>4 DEF applyVars
  <2> QED
    BY <1>2, <2>1 DEF TempInv, Inv
<1>5. CASE ~ BeginWrite /\ ~ UNCHANGED applyVars
  <2>1. temp # None
    BY <1>5 DEF ApplyNext, Step, Start, Stamp, Delete, DeleteFails,
         DeletionsDone, NextPhase, Failed, AddDirectory, AddDirectoryFails, MakeLink,
         MakeLinkFails, ChangeMetadata, CreationsDone, Abort, Persist,
         PersistFails, ContentDone, RestoreTimes, Kill
  <2>2. apc = "content" /\ stamp = None /\ todo # {}
    BY <2>1 DEF Inv, TempInv, In, Current
  <2> QED
    BY <1>5, <2>2 DEF ApplyNext, Step, Start, Stamp, Delete, DeleteFails, In,
         DeletionsDone, NextPhase, AddDirectory, AddDirectoryFails, MakeLink,
         MakeLinkFails, ChangeMetadata, CreationsDone, Abort, Persist,
         PersistFails, ContentDone, RestoreTimes, Kill
<1> QED
  BY <1>3, <1>4, <1>5

LEMMA SavedStep ==
    ASSUME Inv, [ApplyNext]_applyVars
    PROVE  SavedInv'
<1>1. CASE Start
  <2>1. \A t \in saved_dir_mtimes' : HasDirectory(tree, t.path)
    BY <1>1 DEF Start, HasDirectory
  <2>2. tree' = tree
    BY <1>1 DEF Start
  <2> QED
    BY <2>1, <2>2 DEF SavedInv
<1>2. CASE ~ Start
  <2>1. saved_dir_mtimes' = saved_dir_mtimes
    BY <1>2 DEF ApplyNext, Step, applyVars, memory, Stamp, Delete, DeleteFails,
         DeletionsDone, NextPhase, Failed, AddDirectory, AddDirectoryFails, MakeLink,
         MakeLinkFails, ChangeMetadata, CreationsDone, BeginWrite, Abort, Persist,
         PersistFails, ContentDone, RestoreTimes, Kill
  <2>2. Kept(tree, tree', ChangedPaths) /\ ChangedPaths' = ChangedPaths
    BY StepMoves, InputStays DEF Moves
  <2> QED
    BY <2>1, <2>2, KeptDirectory DEF SavedInv, Inv
<1> QED
  BY <1>1, <1>2

LEMMA InvStep == Inv /\ [ApplyNext]_applyVars => Inv'
  BY PlanStep, StepMoves, TempStep, SavedStep DEF Inv, Moves

LEMMA InvHolds == ApplySpec => []Inv
  BY InvInit, InvStep, PTL DEF ApplySpec

\* Whatever fails, and wherever the process is killed, the target is a tree:
\* nothing that apply deletes, creates, renames or replaces leaves an entry
\* without its directory, or two at one path.
THEOREM TargetStaysTree == ApplySpec => []IsTree(tree)
<1>1. Inv => IsTree(tree)
  BY DEF Inv, Sound
<1> QED
  BY <1>1, InvHolds, PTL

----------------------------------------------------------------------------
(* What the diff does not mention.                                         *)

KeptInv == Kept(present, tree, ChangedPaths)

LEMMA KeptInit == ApplyInit => KeptInv
  BY DEF ApplyInit, KeptInv, Kept, Same, Like

LEMMA KeptStep ==
    ASSUME Inv, KeptInv, [ApplyNext]_applyVars
    PROVE  KeptInv'
<1>1. Kept(tree, tree', ChangedPaths)
  BY StepMoves DEF Moves
<1>2. Kept(present, tree', ChangedPaths)
  BY <1>1, KeptTrans DEF KeptInv
<1> QED
  BY <1>2, InputStays DEF KeptInv, input

LEMMA KeptHolds == ApplySpec => []KeptInv
  BY KeptInit, KeptStep, InvHolds, PTL DEF ApplySpec

\* Entries of the target the diff does not mention survive apply_deletions,
\* apply_non_content_changes, stream_file_contents and
\* restore_directory_mtimes, over any target and whatever fails: remove_dir
\* takes no directory with something in it, and create_dir_all and rename
\* take the place of no entry of another path.
THEOREM ForeignSurvives == ApplySpec => []ForeignKept
<1>1. Inv /\ KeptInv => ForeignKept
  <2> SUFFICES ASSUME Inv, KeptInv, NEW f \in present,
                      \A c \in changes : c.path # f.path
               PROVE  \E e \in At(tree, f.path) :
                        /\ e.kind = f.kind /\ e.hash = f.hash
                        /\ e.symlink_target = f.symlink_target
                        /\ e.metadata.size = f.metadata.size
                        /\ e.metadata.mode = f.metadata.mode
                        /\ f.kind # "Directory" => e.metadata.mtime = f.metadata.mtime
    BY DEF ForeignKept
  <2>1. ~ IsTemp(f.path)
    BY TreesSound DEF Inv, PlanInv
  <2>2. f.path \notin ChangedPaths
    BY DEF ChangedPaths
  <2>3. PICK e \in tree : Same(e, f)
    BY <2>1, <2>2 DEF KeptInv, Kept
  <2> QED
    BY <2>3 DEF Same, Like, At
<1> QED
  BY <1>1, InvHolds, KeptHolds, PTL

----------------------------------------------------------------------------
(* Files that are modified.                                                *)

\* A change and the file of the target it is about.
Modifies(c, f) ==
    /\ c \in changes /\ f \in present
    /\ c.op = "Modified" /\ c.has_content
    /\ f.path = c.path /\ f.kind = "File"

Old(e, f) == e.hash = f.hash /\ e.metadata.size = f.metadata.size
New(e, c) == e.hash = c.new_hash /\ \E m \in c.new_metadata : e.metadata.size = m.size
Whole(e, c, f) == e.path = c.path /\ e.kind = "File" /\ (Old(e, f) \/ New(e, c))

LEMMA OldOrNewIs ==
    OldOrNew <=> \A c, f : Modifies(c, f) => \E e \in tree : Whole(e, c, f)
  BY DEF OldOrNew, Modifies, Whole, Old, New, At

\* A step leaves what is whole alone, alters no more than its mode and mtime,
\* or has a new file ready.
LEMMA WholeStays ==
    ASSUME NEW c, NEW f, NEW e \in tree, Whole(e, c, f), NEW paths,
           \/ /\ Kept(tree, tree', paths)
              /\ c.path \notin paths /\ ~ IsTemp(c.path)
           \/ \A x \in tree : \E y \in tree' : Like(y, x)
    PROVE  \E y \in tree' : Whole(y, c, f)
<1>1. PICK y \in tree' : Like(y, e)
  BY DEF Kept, Same, Whole
<1>2. Whole(y, c, f)
  BY <1>1 DEF Like, Whole, Old, New
<1> QED
  BY <1>2

LEMMA WholeStep ==
    ASSUME Inv, [ApplyNext]_applyVars, NEW c, NEW f, Modifies(c, f),
           NEW e \in tree, Whole(e, c, f)
    PROVE  \E y \in tree' : Whole(y, c, f)
<1>1. ~ IsTemp(c.path)
  BY TreesSound DEF Inv, PlanInv, Modifies
<1>2. c \in contents /\ c \notin deletions /\ c \notin items
  BY DEF Modifies, contents, deletions, items, HasContent
<1>3. ASSUME NEW phase, In(phase), Moves({change.path}), change # c
      PROVE  \E y \in tree' : Whole(y, c, f)
  <2>1. change \in ChangesOf(before, after) /\ c \in ChangesOf(before, after)
    BY <1>3, AtChange DEF Inv, PlanInv, Modifies
  <2>2. c.path # change.path
    BY <1>3, <2>1, ModifiedOnce DEF Inv, PlanInv, Modifies
  <2> QED
    BY <1>1, <1>3, <2>2, WholeStays DEF Moves
<1>4. ASSUME Moves({})
      PROVE  \E y \in tree' : Whole(y, c, f)
  BY <1>1, <1>4, WholeStays DEF Moves
<1>5. ASSUME \A x \in tree : \E y \in tree' : Like(y, x)
      PROVE  \E y \in tree' : Whole(y, c, f)
  BY <1>5, WholeStays
<1>6. CASE tree' = tree
  BY <1>6
<1>7. CASE Stamp
  BY <1>5, <1>7, StampMoves
<1>8. CASE RestoreTimes
  BY <1>5, <1>8, RestoreMoves
<1>9. CASE AddDirectory
  BY <1>4, <1>9, AddDirectoryMoves
<1>10. CASE BeginWrite
  BY <1>4, <1>10, BeginWriteMoves
<1>11. CASE Delete
  <2>1. In("delete")
    BY <1>11 DEF Delete
  <2>2. change \in deletions
    BY <2>1, AtChange DEF Inv, PlanInv, In
  <2> QED
    BY <1>2, <1>3, <1>11, <2>1, <2>2, DeleteMoves
<1>12. ASSUME In("create"), Moves({change.path})
       PROVE  \E y \in tree' : Whole(y, c, f)
  <2>1. change \in items
    BY <1>12, AtChange DEF Inv, PlanInv, In
  <2> QED
    BY <1>2, <1>3, <1>12, <2>1
<1>13. CASE MakeLink
  BY <1>12, <1>13, MakeLinkMoves DEF MakeLink
<1>14. CASE MakeLinkFails
  BY <1>12, <1>14, MakeLinkFailsMoves DEF MakeLinkFails
<1>15. ASSUME In("content"), tree' = Dropped
       PROVE  \E y \in tree' : Whole(y, c, f)
  BY <1>4, <1>15, DroppedMoves DEF Moves
<1>16. CASE Abort
  BY <1>15, <1>16 DEF Abort
<1>17. CASE PersistFails
  BY <1>15, <1>17 DEF PersistFails
<1>18. CASE Persist
  <2>1. In("content") /\ Moves({change.path})
    BY <1>18, PersistMoves DEF Persist
  <2>2. CASE change # c
    BY <1>3, <2>1, <2>2
  <2>3. CASE change = c
    <3>1. PICK y \in tree', n \in c.new_metadata :
            /\ y.path = c.path /\ y.kind = "File"
            /\ y.hash = c.new_hash /\ y.metadata.size = n.size
      BY <1>18, <2>3, PersistMoves DEF Modifies
    <3> QED
      BY <3>1 DEF Whole, New
  <2> QED
    BY <2>2, <2>3
<1>19. \/ tree' = tree \/ Stamp \/ RestoreTimes \/ AddDirectory \/ BeginWrite
       \/ Delete \/ MakeLink \/ MakeLinkFails \/ Abort \/ PersistFails \/ Persist
  BY DEF ApplyNext, Step, applyVars, Start, DeleteFails, DeletionsDone, NextPhase,
         AddDirectoryFails, ChangeMetadata, CreationsDone, ContentDone, Kill
<1> QED
  BY <1>6, <1>7, <1>8, <1>9, <1>10, <1>11, <1>13, <1>14, <1>16, <1>17, <1>18, <1>19

\* A file to be modified has, at every moment, its old content or its new, of
\* the size that goes with it: ActiveWrite writes beside the file, and
\* finish_active renames over it; no other operation of any phase touches
\* what is at the path of a change with content.
THEOREM NeverTruncated == ApplySpec => []OldOrNew
<1>1. ApplyInit => OldOrNew
  <2> SUFFICES ASSUME ApplyInit, NEW c, NEW f, Modifies(c, f)
               PROVE  \E e \in tree : Whole(e, c, f)
    BY OldOrNewIs
  <2>1. f \in tree /\ Whole(f, c, f)
    BY DEF ApplyInit, Modifies, Whole, Old
  <2> QED
    BY <2>1
<1>2. Inv /\ OldOrNew /\ [ApplyNext]_applyVars => OldOrNew'
  <2> SUFFICES ASSUME Inv, OldOrNew, [ApplyNext]_applyVars
               PROVE  OldOrNew'
    OBVIOUS
  <2>1. changes' = changes /\ present' = present
    BY InputStays DEF input
  <2>2. ASSUME NEW c, NEW f, Modifies(c, f)
        PROVE  \E y \in tree' : Whole(y, c, f)
    <3>1. PICK e \in tree : Whole(e, c, f)
      BY <2>2, OldOrNewIs
    <3> QED
      BY <2>2, <3>1, WholeStep
  <2> QED
    BY <2>1, <2>2 DEF OldOrNew, Modifies, Whole, Old, New, At
<1> QED
  BY <1>1, <1>2, InvHolds, PTL DEF ApplySpec

----------------------------------------------------------------------------
(* The mtimes of directories.                                              *)

\* In the first run, what was saved is what was at the target before it.
TimesInv ==
    /\ runs \in Nat
    /\ runs = 0 => tree = present /\ apc = "idle"
    /\ runs = 1 =>
         /\ apc # "idle"
         /\ saved_dir_mtimes =
              {[path |-> d.path, mtime |-> d.metadata.mtime] :
                 d \in {d \in present : d.kind = "Directory" /\ d.path \in implicit_dirs}}
    /\ ParentTimesPreserved

LEMMA TimesInit == ApplyInit => TimesInv
  BY DEF ApplyInit, TimesInv, ParentTimesPreserved

LEMMA TimesStart ==
    ASSUME TimesInv, Start
    PROVE  TimesInv'
<1>1. runs \in Nat /\ runs' = runs + 1 /\ apc' = "delete"
  BY DEF TimesInv, Start
<1>2. UNCHANGED <<present, changes>>
  BY DEF Start, input
<1>3. ASSUME runs' = 1
      PROVE  saved_dir_mtimes' =
               {[path |-> d.path, mtime |-> d.metadata.mtime] :
                  d \in {d \in present : d.kind = "Directory" /\ d.path \in implicit_dirs}}
  <2>1. tree = present
    BY <1>1, <1>3 DEF TimesInv
  <2> QED
    BY <2>1 DEF Start, implicit_dirs
<1>4. ParentTimesPreserved'
  BY <1>1 DEF ParentTimesPreserved
<1>5. implicit_dirs' = implicit_dirs
  BY <1>2 DEF implicit_dirs
<1> QED
  BY <1>1, <1>2, <1>3, <1>4, <1>5 DEF TimesInv

LEMMA TimesRestored ==
    ASSUME Inv, TimesInv, RestoreTimes, runs = 1
    PROVE  \A d \in present, e \in tree' :
               /\ d.path = e.path /\ d.path \in implicit_dirs \ unstamped'
               /\ d.kind = "Directory" /\ e.kind = "Directory"
               => d.metadata.mtime = e.metadata.mtime
<1> SUFFICES ASSUME NEW d \in present, NEW e \in tree',
                    d.path = e.path, d.path \in implicit_dirs, d.path \notin unstamped',
                    d.kind = "Directory"
             PROVE  d.metadata.mtime = e.metadata.mtime
  OBVIOUS
<1>0. PICK saved \in SUBSET saved_dir_mtimes :
         /\ \A t \in saved_dir_mtimes \ saved : t.path \in unstamped'
         /\ \A x \in tree' :
              (\E t \in saved : t.path = x.path) =>
                  x.metadata.mtime = (CHOOSE t \in saved : t.path = x.path).mtime
  BY RestoreMoves
<1>1. PICK s : s = [path |-> d.path, mtime |-> d.metadata.mtime]
  OBVIOUS
<1>2. s \in saved
  BY <1>0, <1>1 DEF TimesInv
<1>3. ASSUME NEW t \in saved_dir_mtimes, t.path = e.path
      PROVE  t = s
  <2>1. PICK x \in present : t = [path |-> x.path, mtime |-> x.metadata.mtime]
    BY DEF TimesInv
  <2>2. x.path = d.path
    BY <1>3, <2>1
  <2>3. x = d
    BY <2>2, TreesSound DEF Inv, PlanInv, Sound, IsTree
  <2> QED
    BY <1>1, <2>1, <2>3
<1>4. PICK t : t = CHOOSE u \in saved : u.path = e.path
  OBVIOUS
<1>5. t \in saved /\ t.path = e.path
  BY <1>1, <1>2, <1>4
<1>6. e.metadata.mtime = t.mtime
  BY <1>0, <1>4, <1>5
<1> QED
  BY <1>1, <1>3, <1>5, <1>6

LEMMA TimesStep ==
    ASSUME Inv, TimesInv, [ApplyNext]_applyVars
    PROVE  TimesInv'
<1>1. CASE Start
  BY <1>1, TimesStart
<1>2. CASE ~ Start
  <2>1. UNCHANGED <<present, changes>>
    BY InputStays DEF input
  <2>2. UNCHANGED <<runs, saved_dir_mtimes>> /\ (apc' = "idle" => apc = "idle")
    BY <1>2 DEF ApplyNext, Step, applyVars, memory, Stamp, Delete, DeleteFails, In,
         DeletionsDone, NextPhase, Failed, AddDirectory, AddDirectoryFails, MakeLink,
         MakeLinkFails, ChangeMetadata, CreationsDone, BeginWrite, Abort, Persist,
         PersistFails, ContentDone, RestoreTimes, Kill
  <2>3. ASSUME apc \in {"idle", "done"}
        PROVE  UNCHANGED <<apc, tree, unstamped>>
    <3>1. stamp = None
      BY <2>3 DEF Inv, PlanInv
    <3> QED
      BY <1>2, <2>3, <3>1 DEF ApplyNext, Step, applyVars, memory, Stamp, Delete,
           DeleteFails, In, DeletionsDone, NextPhase, AddDirectory, AddDirectoryFails, MakeLink,
           MakeLinkFails, ChangeMetadata, CreationsDone, BeginWrite, Abort, Persist,
           PersistFails, ContentDone, RestoreTimes, Kill
  <2>4. apc' = "done" => apc = "done" \/ RestoreTimes
    BY <1>2 DEF ApplyNext, Step, applyVars, Stamp, Delete, DeleteFails, Failed,
         DeletionsDone, NextPhase, AddDirectory, AddDirectoryFails, MakeLink,
         MakeLinkFails, ChangeMetadata, CreationsDone, BeginWrite, Abort, Persist,
         PersistFails, ContentDone, Kill
  <2>5. ParentTimesPreserved'
    <3>1. implicit_dirs' = implicit_dirs
      BY <2>1 DEF implicit_dirs
    <3> SUFFICES ASSUME runs = 1, apc' = "done"
                 PROVE  \A d \in present, e \in tree' :
                            /\ d.path = e.path /\ d.path \in implicit_dirs \ unstamped'
                            /\ d.kind = "Directory" /\ e.kind = "Directory"
                            => d.metadata.mtime = e.metadata.mtime
      BY <2>1, <2>2, <3>1 DEF ParentTimesPreserved
    <3>2. CASE RestoreTimes
      BY <3>2, TimesRestored
    <3>3. CASE apc = "done"
      BY <2>3, <3>3 DEF TimesInv, ParentTimesPreserved
    <3> QED
      BY <2>4, <3>2, <3>3
  <2>6. implicit_dirs' = implicit_dirs
    BY <2>1 DEF implicit_dirs
  <2> QED
    BY <2>1, <2>2, <2>3, <2>5, <2>6 DEF TimesInv
<1> QED
  BY <1>1, <1>2

LEMMA TimesHold == ApplySpec => []TimesInv
  BY TimesInit, TimesStep, InvHolds, PTL DEF ApplySpec

\* After a first run that got to its end, a directory the diff touches only
\* through its children has the mtime it had before, over any target and
\* whatever failed, unless the run was warned that it may not set it:
\* save_parent_dir_mtimes reads it before anything moves it, and
\* restore_directory_mtimes, which does not stop at one that is refused, puts
\* it back last.
THEOREM TimesPutBack == ApplySpec => []ParentTimesPreserved
<1>1. TimesInv => ParentTimesPreserved
  BY DEF TimesInv
<1> QED
  BY <1>1, TimesHold, PTL

----------------------------------------------------------------------------
(* The changes of the diff, one by one.                                    *)

\* Entries alike but for their metadata, in what a snapshot has of content.
Kin(e, f) ==
    /\ e.path = f.path /\ e.kind = f.kind
    /\ e.hash = f.hash /\ e.symlink_target = f.symlink_target

IsDiffed == before \in Trees /\ after \in Trees /\ changes = ChangesOf(before, after)

\* What is at a path of one tree and not, of that kind, at the same of another.
Gone(x) == x \in before /\ \A y \in after : ~ SamePlace(x, y)
Come(y) == y \in after /\ \A x \in before : ~ SamePlace(x, y)
Stays(x, y) == x \in before /\ y \in after /\ SamePlace(x, y)

LEMMA TreesAre ==
    ASSUME NEW fs \in Trees
    PROVE  /\ IsFiniteSet(fs) /\ Sound(fs) /\ PathsDistinct(fs)
           /\ \A e \in fs : /\ IsEntry(e) /\ Proper(e) /\ ~ IsTemp(e.path)
                            /\ e.kind # "File" => e.metadata.size = 0
           /\ HasDirectory(fs, root)
<1>1. IsFileTree(fs)
  BY TreesAssumption
<1>2. Sound(fs) /\ \A e \in fs : ~ IsTemp(e.path)
  BY TreesSound
<1> QED
  BY <1>1, <1>2 DEF IsFileTree, IsTree, PathsDistinct, HasDirectory, IsEntry, Proper

LEMMA OfOnePath ==
    ASSUME NEW fs, Sound(fs), NEW e \in fs, NEW f \in fs, e.path = f.path
    PROVE  e = f
  BY DEF Sound, IsTree

\* The fields of the changes, and where they come from.
LEMMA RemovedIs ==
    ASSUME IsDiffed, NEW c \in changes, c.op = "Removed"
    PROVE  \E x : Gone(x) /\ c.path = x.path /\ c.kind = x.kind
<1>1. \E x \in before : c = build_removed_change(x) /\ ~ \E y \in after : SamePlace(x, y)
  BY ChangesOfIs DEF IsDiffed, build_added_change, ModifiedEntry
<1> QED
  BY <1>1 DEF build_removed_change, Gone

LEMMA AddedIs ==
    ASSUME IsDiffed, NEW c \in changes, c.op = "Added"
    PROVE  /\ Come(c.entry) /\ c.path = c.entry.path
           /\ c.has_content <=> c.entry.kind = "File"
<1>1. PICK y \in after : c = build_added_change(y) /\ ~ \E x \in before : SamePlace(x, y)
  BY ChangesOfIs DEF IsDiffed, build_removed_change, ModifiedEntry
<1>2. c.entry = y /\ c.path = y.path /\ c.has_content = (y.kind = "File")
  BY <1>1 DEF build_added_change
<1> QED
  BY <1>1, <1>2 DEF Come

\* What a Modified change says.
Says(c, x, y) ==
    /\ c.path = y.path /\ c.path = x.path /\ c.op = "Modified"
    /\ c.new_metadata \in {None, Some(y.metadata)}
    /\ c.new_metadata = None => matches(x.metadata, y.metadata)
    /\ IF c.has_content
       THEN y.kind = "File" /\ c.new_hash = y.hash /\ c.new_metadata = Some(y.metadata)
            /\ c.new_hash # None /\ x.hash # y.hash
       ELSE x.hash = y.hash /\ c.new_hash = None
    /\ IF c.new_symlink_target # None
       THEN y.kind = "Symlink" /\ c.new_symlink_target = y.symlink_target
            /\ x.symlink_target # y.symlink_target
       ELSE x.symlink_target = y.symlink_target

LEMMA ModifiedSays ==
    ASSUME NEW x, NEW y, Proper(x), Proper(y), SamePlace(x, y),
           NEW c, c = ModifiedEntry(x, y)
    PROVE  Says(c, x, y)
<1>1. /\ c.path = y.path /\ c.op = "Modified"
      /\ c.new_metadata = IF ~ matches(x.metadata, y.metadata)
                             \/ (x.hash # y.hash /\ y.kind = "File")
                          THEN Some(y.metadata) ELSE None
      /\ c.new_hash = IF x.hash # y.hash THEN y.hash ELSE None
      /\ c.has_content = (x.hash # y.hash /\ y.kind = "File")
      /\ c.new_symlink_target = IF x.symlink_target # y.symlink_target
                                THEN y.symlink_target ELSE None
  BY DEF ModifiedEntry
<1>2. y.kind # "File" => x.hash = None /\ y.hash = None
  BY DEF Proper, SamePlace
<1>3. y.kind # "Symlink" => x.symlink_target = None /\ y.symlink_target = None
  BY DEF Proper, SamePlace
<1>4. y.kind = "Symlink" => y.symlink_target # None
  BY DEF Proper
<1>5. y.kind = "File" => y.hash # None
  BY DEF Proper
<1>6. Some(y.metadata) # None
  BY DEF Some, None
<1> QED
  BY <1>1, <1>2, <1>3, <1>4, <1>5, <1>6 DEF Says, SamePlace

LEMMA ModifiedTells ==
    ASSUME IsDiffed, NEW c \in changes, c.op = "Modified"
    PROVE  \E x, y : Stays(x, y) /\ Says(c, x, y) /\ ~ Equivalent(x, y)
<1>1. PICK x \in before, y \in after : /\ SamePlace(x, y) /\ ~ Equivalent(x, y)
                                       /\ c = ModifiedEntry(x, y)
  BY ChangesOfIs DEF IsDiffed, build_removed_change, build_added_change
<1>2. Proper(x) /\ Proper(y)
  BY TreesAre DEF IsDiffed
<1>3. Says(c, x, y)
  BY <1>1, <1>2, ModifiedSays
<1> QED
  BY <1>1, <1>3 DEF Stays

LEMMA OpsAre ==
    ASSUME IsDiffed, NEW c \in changes
    PROVE  c.op \in {"Removed", "Added", "Modified"}
  BY ChangesOfIs DEF IsDiffed, build_removed_change, build_added_change, ModifiedEntry

\* Whatever differs has its change.
LEMMA GoneIsRemoved ==
    ASSUME IsDiffed, NEW x, Gone(x)
    PROVE  \E c \in changes : c.op = "Removed" /\ c.path = x.path /\ c.kind = x.kind
<1>1. PICK c : c = build_removed_change(x)
  OBVIOUS
<1>2. c \in changes
  BY <1>1, ChangesOfIs DEF IsDiffed, Gone
<1> QED
  BY <1>1, <1>2 DEF build_removed_change

LEMMA ComeIsAdded ==
    ASSUME IsDiffed, NEW y, Come(y)
    PROVE  \E c \in changes : c.op = "Added" /\ c.path = y.path /\ c.entry = y
<1>1. PICK c : c = build_added_change(y)
  OBVIOUS
<1>2. c \in changes
  BY <1>1, ChangesOfIs DEF IsDiffed, Come
<1> QED
  BY <1>1, <1>2 DEF build_added_change

LEMMA DifferIsModified ==
    ASSUME IsDiffed, NEW x, NEW y, Stays(x, y), ~ Equivalent(x, y)
    PROVE  \E c \in changes : c.op = "Modified" /\ c.path = y.path /\ Says(c, x, y)
<1>1. PICK c : c = ModifiedEntry(x, y)
  OBVIOUS
<1>2. c \in changes
  BY <1>1, ChangesOfIs DEF IsDiffed, Stays
<1>3. Says(c, x, y)
  BY <1>1, TreesAre, ModifiedSays DEF IsDiffed, Stays
<1> QED
  BY <1>2, <1>3 DEF Says

\* At one path, a tree has one entry.
LEMMA OneBefore ==
    ASSUME IsDiffed, NEW x \in before, NEW y \in before, x.path = y.path
    PROVE  x = y
  BY TreesAre, OfOnePath DEF IsDiffed
LEMMA OneAfter ==
    ASSUME IsDiffed, NEW x \in after, NEW y \in after, x.path = y.path
    PROVE  x = y
  BY TreesAre, OfOnePath DEF IsDiffed

\* A path has one change that leaves something there, and one that removes.
LEMMA SoleChange ==
    ASSUME IsDiffed, NEW c \in changes, NEW d \in changes, c.path = d.path,
           (c.op = "Removed") = (d.op = "Removed")
    PROVE  c = d
<1>1. CASE c.op = "Modified" \/ d.op = "Modified"
  BY <1>1, ModifiedOnce DEF IsDiffed
<1>2. CASE c.op = "Added" /\ d.op = "Added"
  <2>1. PICK y \in after : c = build_added_change(y)
    BY <1>2, ChangesOfIs DEF IsDiffed, build_removed_change, ModifiedEntry
  <2>2. PICK z \in after : d = build_added_change(z)
    BY <1>2, ChangesOfIs DEF IsDiffed, build_removed_change, ModifiedEntry
  <2>3. y = z
    BY <2>1, <2>2, OneAfter DEF build_added_change
  <2> QED
    BY <2>1, <2>2, <2>3
<1>3. CASE c.op = "Removed" /\ d.op = "Removed"
  <2>1. PICK y \in before : c = build_removed_change(y)
    BY <1>3, ChangesOfIs DEF IsDiffed, build_added_change, ModifiedEntry
  <2>2. PICK z \in before : d = build_removed_change(z)
    BY <1>3, ChangesOfIs DEF IsDiffed, build_added_change, ModifiedEntry
  <2>3. y = z
    BY <2>1, <2>2, OneBefore DEF build_removed_change
  <2> QED
    BY <2>1, <2>2, <2>3
<1> QED
  BY <1>1, <1>2, <1>3, OpsAre

----------------------------------------------------------------------------
(* What the operations of the file system leave where.                     *)

\* Nothing came, went or changed outside of `paths', but the mtimes of `dirs'.
Touched(fs, later, paths, dirs) ==
    /\ \A x \in fs : x.path \notin paths =>
         \E e \in later : Same(e, x) /\ (x.path \notin dirs => e = x)
    /\ \A e \in later : e.path \notin paths => \E x \in fs : Same(e, x)

Lacks(fs, p) == \A e \in fs : e.path # p

LEMMA SameIs ==
    ASSUME NEW e, NEW f, NEW g
    PROVE  /\ Same(e, e) /\ Like(e, e)
           /\ Same(e, f) => /\ Like(e, f) /\ Kin(e, f) /\ e.path = f.path
                            /\ e.kind = f.kind
           /\ Same(e, f) /\ Same(f, g) => Same(e, g)
           /\ Like(e, f) /\ Like(f, g) => Like(e, g)
           /\ Like(e, f) => Kin(e, f) /\ e.path = f.path /\ e.kind = f.kind
           /\ Kin(e, f) => e.path = f.path /\ e.kind = f.kind
           /\ Kin(e, f) => Kin(f, e)
           /\ Kin(e, f) /\ Kin(f, g) => Kin(e, g)
  BY DEF Same, Like, Kin

LEMMA TouchedTrans ==
    ASSUME NEW a, NEW b, NEW c, NEW P, NEW D, NEW Q, NEW E,
           Touched(a, b, P, D), Touched(b, c, Q, E)
    PROVE  Touched(a, c, P \cup Q, D \cup E)
<1>1. ASSUME NEW x \in a, x.path \notin P \cup Q
      PROVE  \E e \in c : Same(e, x) /\ (x.path \notin D \cup E => e = x)
  <2>1. PICK f \in b : Same(f, x) /\ (x.path \notin D => f = x)
    BY <1>1 DEF Touched
  <2>2. PICK e \in c : Same(e, f) /\ (f.path \notin E => e = f)
    BY <1>1, <2>1, SameIs DEF Touched
  <2> QED
    BY <2>1, <2>2, SameIs
<1>2. ASSUME NEW e \in c, e.path \notin P \cup Q
      PROVE  \E x \in a : Same(e, x)
  <2>1. PICK f \in b : Same(e, f)
    BY <1>2 DEF Touched
  <2>2. PICK x \in a : Same(f, x)
    BY <1>2, <2>1 DEF Touched, Same, Like
  <2> QED
    BY <2>1, <2>2, SameIs
<1> QED
  BY <1>1, <1>2 DEF Touched

LEMMA MtimeTouches ==
    ASSUME NEW fs, Sound(fs), NEW p, NEW mtime,
           \A e \in fs : e.path = p => e.kind = "Directory"
    PROVE  Touched(fs, set_mtime(fs, p, mtime), {}, {p})
<1> DEFINE g(e) == IF e.path = p THEN [e EXCEPT !.metadata.mtime = mtime] ELSE e
<1>1. set_mtime(fs, p, mtime) = {g(e) : e \in fs}
  BY DEF set_mtime
<1>2. ASSUME NEW x \in fs
      PROVE  Same(g(x), x) /\ (x.path # p => g(x) = x)
  <2>1. CASE x.path # p
    BY <2>1, SameIs
  <2>2. CASE x.path = p
    <3>1. PICK y : y = [x EXCEPT !.metadata.mtime = mtime]
      OBVIOUS
    <3>2. IsEntry(x) /\ x.kind = "Directory"
      BY <2>2 DEF Sound
    <3>3. Like(y, x) /\ y.metadata.mode = x.metadata.mode
      BY <3>1, <3>2 DEF IsEntry, Like
    <3>4. g(x) = y
      BY <2>2, <3>1
    <3> HIDE DEF g
    <3> QED
      BY <2>2, <3>2, <3>3, <3>4 DEF Same
  <2> QED
    BY <2>1, <2>2
<1> HIDE DEF g
<1> QED
  BY <1>1, <1>2 DEF Touched

LEMMA WithoutTouches ==
    ASSUME NEW fs, NEW p
    PROVE  Touched(fs, fs \ At(fs, p), {p}, {}) /\ Lacks(fs \ At(fs, p), p)
  BY SameIs DEF Touched, At, Lacks

LEMMA UnlinkTouches ==
    ASSUME NEW fs, Sound(fs), NEW p, NothingBelow(fs, p),
           HasDirectory(fs, parent(p))
    PROVE  Touched(fs, Unlink(fs, p), {p}, {parent(p)}) /\ Lacks(Unlink(fs, p), p)
<1> DEFINE rest == fs \ At(fs, p)
<1>1. Sound(rest)
  BY Without
<1>2. Touched(fs, rest, {p}, {}) /\ Lacks(rest, p)
  BY WithoutTouches
<1>3. \A e \in rest : e.path = parent(p) => e.kind = "Directory"
  BY DEF Sound, IsTree, HasDirectory
<1>4. Unlink(fs, p) = set_mtime(rest, parent(p), Now)
  BY DEF Unlink
<1> HIDE DEF rest
<1>5. PICK later : later = set_mtime(rest, parent(p), Now)
  OBVIOUS
<1>6. Touched(rest, later, {}, {parent(p)})
  BY <1>1, <1>3, <1>5, MtimeTouches
<1>7. Touched(fs, later, {p} \cup {}, {} \cup {parent(p)})
  BY <1>2, <1>6, TouchedTrans
<1>8. {p} \cup {} = {p} /\ {} \cup {parent(p)} = {parent(p)}
  OBVIOUS
<1>9. Lacks(later, p)
  BY <1>2, <1>6 DEF Lacks, Touched, Same, Like
<1> QED
  BY <1>4, <1>5, <1>7, <1>8, <1>9

LEMMA PutTouches ==
    ASSUME NEW fs, Sound(fs), NEW e, IsEntry(e), e.path # root,
           NothingBelow(fs, e.path), HasDirectory(fs, parent(e.path))
    PROVE  Touched(fs, Put(fs, e), {e.path}, {parent(e.path)}) /\ e \in Put(fs, e)
<1> DEFINE p == e.path
           rest == fs \ At(fs, p)
           g(x) == IF x.path = parent(p) THEN [x EXCEPT !.metadata.mtime = Now] ELSE x
<1>1. parent(p) # p
  BY Paths DEF IsEntry
<1>2. Touched(fs, rest, {p}, {}) /\ Lacks(rest, p) /\ Sound(rest)
  BY WithoutTouches, Without
<1>3. \A x \in rest : x.path = parent(p) => x.kind = "Directory"
  BY DEF Sound, IsTree, HasDirectory
<1>4. Put(fs, e) = set_mtime(rest, parent(p), Now) \cup {e}
  <2>1. Put(fs, e) = {g(x) : x \in rest \cup {e}}
    BY DEF Put, set_mtime
  <2>2. set_mtime(rest, parent(p), Now) = {g(x) : x \in rest}
    BY DEF set_mtime
  <2>3. g(e) = e
    BY <1>1
  <2> HIDE DEF g, rest
  <2> QED
    BY <2>1, <2>2, <2>3
<1> HIDE DEF rest
<1>5. PICK between : between = set_mtime(rest, parent(p), Now)
  OBVIOUS
<1>6. Touched(rest, between, {}, {parent(p)})
  BY <1>2, <1>3, <1>5, MtimeTouches
<1>7. PICK later : later = between \cup {e}
  OBVIOUS
<1>8. Touched(between, later, {p}, {})
  BY <1>7, SameIs DEF Touched
<1>9. Touched(rest, later, {} \cup {p}, {parent(p)} \cup {})
  BY <1>6, <1>8, TouchedTrans
<1>10. Touched(fs, later, {p} \cup ({} \cup {p}), {} \cup ({parent(p)} \cup {}))
  BY <1>2, <1>9, TouchedTrans
<1>11. /\ {p} \cup ({} \cup {p}) = {p}
       /\ {} \cup ({parent(p)} \cup {}) = {parent(p)}
  OBVIOUS
<1> QED
  BY <1>4, <1>5, <1>7, <1>10, <1>11

----------------------------------------------------------------------------
(* What the steps leave where.                                             *)

LEMMA DeleteTouches ==
    ASSUME Inv, Delete
    PROVE  Touched(tree, tree', {change.path}, {parent(change.path)})
           /\ Lacks(tree', change.path)
<1>1. PICK p \in Seq(Nat) : p = change.path
  BY AtChange DEF Delete, Inv
<1>2. NothingBelow(tree, p) /\ HasDirectory(tree, parent(p))
  BY <1>1, RemovableIsLeaf DEF Delete, Succeeds, Inv
<1>3. {e \in tree : ~ contains(p, e.path)} = tree
  BY <1>2 DEF NothingBelow
<1>4. tree' = Unlink(tree, p)
  BY <1>1, <1>3 DEF Delete
<1> QED
  BY <1>1, <1>2, <1>4, UnlinkTouches DEF Inv

\* A directory as it is made, but for metadata.
Bare(e) ==
    /\ e.kind = "Directory" /\ e.hash = None /\ e.symlink_target = None
    /\ e.metadata.size = 0

LEMMA AddDirectoryTouches ==
    ASSUME Inv, AddDirectory
    PROVE  /\ Touched(tree, tree', Lacking(change.path),
                      {parent(q) : q \in Lacking(change.path)})
           /\ \A q \in Lacking(change.path) : \E e \in tree' : e.path = q /\ Bare(e)
<1>1. PICK p \in Seq(Nat) : p = change.path
  BY AtChange DEF AddDirectory, Inv
<1> DEFINE made == {Fresh(q, "Directory", None, None, 0) : q \in Lacking(p)}
           g(e) == IF \E d \in made : parent(d.path) = e.path
                   THEN [e EXCEPT !.metadata.mtime = Now] ELSE e
           lack == Lacking(p)
           dirs == {parent(q) : q \in lack}
<1>2. tree' = {g(x) : x \in tree \cup made}
  BY <1>1 DEF AddDirectory
<1>3. \A q \in lack : q \in Seq(Nat) /\ Lacks(tree, q)
  <2>1. \A n \in 0 .. Len(p) : SubSeq(p, 1, n) \in Seq(Nat)
    BY Paths
  <2> QED
    BY <2>1 DEF Lacking, At, Lacks
<1>4. \A e \in made : IsEntry(e) /\ e.path \in lack /\ Bare(e)
  <2>1. \A q \in lack : LET e == Fresh(q, "Directory", None, None, 0)
                        IN  IsEntry(e) /\ e.path = q /\ Bare(e)
    BY <1>3 DEF Fresh, IsEntry, Bare, EntryKind
  <2> QED
    BY <2>1
<1>5. \A q \in lack : \E e \in made : e.path = q
  <2>1. \A q \in lack : Fresh(q, "Directory", None, None, 0) \in made
    OBVIOUS
  <2>2. \A q \in lack : Fresh(q, "Directory", None, None, 0).path = q
    BY DEF Fresh
  <2> HIDE DEF made, lack
  <2> QED
    BY <2>1, <2>2
<1> HIDE DEF made
<1>6. ASSUME NEW x \in tree \cup made, \E d \in made : parent(d.path) = x.path
      PROVE  x.kind = "Directory"
  <2>1. CASE x \in made
    BY <1>4, <2>1 DEF Bare
  <2>2. CASE x \in tree
    <3>1. PICK d \in made : parent(d.path) = x.path
      BY <1>6
    <3>2. Creatable(p) /\ Sound(tree)
      BY <1>1 DEF AddDirectory, Succeeds, Inv
    <3>3. PICK q \in Lacking(p) : q = d.path
      BY <1>4
    <3>4. parent(q) \in Lacking(p) \/ HasDirectory(tree, parent(q))
      BY <3>2, MadeInDirectory
    <3>5. HasDirectory(tree, x.path)
      BY <1>3, <2>2, <3>1, <3>3, <3>4 DEF Lacks
    <3> QED
      BY <2>2, <3>2, <3>5 DEF HasDirectory, Sound, IsTree
  <2> QED
    BY <2>1, <2>2
<1>7. ASSUME NEW x \in tree \cup made
      PROVE  Same(g(x), x) /\ (x.path \notin dirs => g(x) = x)
  <2>1. CASE \E d \in made : parent(d.path) = x.path
    <3>1. PICK y : y = [x EXCEPT !.metadata.mtime = Now]
      OBVIOUS
    <3>2. IsEntry(x) /\ x.kind = "Directory"
      BY <1>4, <1>6, <2>1 DEF Inv, Sound
    <3>3. Like(y, x) /\ y.metadata.mode = x.metadata.mode
      BY <3>1, <3>2 DEF IsEntry, Like
    <3>4. g(x) = y
      BY <2>1, <3>1
    <3>5. x.path \in dirs
      BY <1>4, <2>1
    <3> HIDE DEF g, dirs
    <3> QED
      BY <3>2, <3>3, <3>4, <3>5 DEF Same
  <2>2. CASE ~ \E d \in made : parent(d.path) = x.path
    BY <2>2, SameIs
  <2> QED
    BY <2>1, <2>2
<1> HIDE DEF g, dirs, lack
<1>8. \A e \in tree' : e.path \notin lack => \E x \in tree : Same(e, x)
  <2> SUFFICES ASSUME NEW e \in tree', e.path \notin lack
               PROVE  \E x \in tree : Same(e, x)
    OBVIOUS
  <2>1. PICK x \in tree \cup made : e = g(x)
    BY <1>2
  <2>2. Same(e, x)
    BY <1>7, <2>1
  <2>3. x \notin made
    BY <1>4, <2>2, SameIs
  <2> QED
    BY <2>2, <2>3
<1>9. Touched(tree, tree', lack, dirs)
  BY <1>2, <1>7, <1>8 DEF Touched
<1>10. \A q \in lack : \E e \in tree' : e.path = q /\ Bare(e)
  <2> SUFFICES ASSUME NEW q \in lack PROVE \E e \in tree' : e.path = q /\ Bare(e)
    OBVIOUS
  <2>1. PICK x \in made : x.path = q
    BY <1>5
  <2>2. g(x) \in tree' /\ Same(g(x), x)
    BY <1>2, <1>7
  <2>3. g(x).path = q /\ Bare(g(x))
    BY <1>4, <2>1, <2>2 DEF Same, Like, Bare
  <2> QED
    BY <2>2, <2>3
<1> QED
  BY <1>1, <1>9, <1>10 DEF lack, dirs

LEMMA ClearedTouches ==
    ASSUME Inv, In("create")
    PROVE  /\ Sound(Cleared)
           /\ \/ Cleared = tree
              \/ /\ Touched(tree, Cleared, {change.path}, {parent(change.path)})
                 /\ Lacks(Cleared, change.path) /\ change.op = "Modified"
           /\ change.op = "Modified" /\ Removable(tree, change.path, "Symlink")
                => Lacks(Cleared, change.path)
<1>1. PICK p \in Seq(Nat) : p = change.path
  BY AtChange DEF Inv
<1>2. Sound(Cleared)
  BY ClearedMoves
<1>3. CASE change.op = "Modified" /\ Removable(tree, p, "Symlink")
  <2>1. NothingBelow(tree, p) /\ HasDirectory(tree, parent(p))
    BY <1>3, RemovableIsLeaf DEF Inv
  <2>2. Cleared = Unlink(tree, p)
    BY <1>1, <1>3 DEF Cleared
  <2>3. Touched(tree, Cleared, {p}, {parent(p)}) /\ Lacks(Cleared, p)
    BY <2>1, <2>2, UnlinkTouches DEF Inv
  <2> QED
    BY <1>1, <1>2, <1>3, <2>3
<1>4. CASE ~ (change.op = "Modified" /\ Removable(tree, p, "Symlink"))
  BY <1>1, <1>2, <1>4 DEF Cleared
<1> QED
  BY <1>3, <1>4

LEMMA LinkTouches ==
    ASSUME Inv, In("create"), Linkable,
           NEW target, tree' = Put(Cleared, Fresh(change.path, "Symlink", None, target, 0))
    PROVE  /\ Touched(tree, tree', {change.path}, {parent(change.path)})
           /\ \E e \in tree' : /\ e.path = change.path /\ e.kind = "Symlink"
                               /\ e.hash = None /\ e.symlink_target = target
                               /\ e.metadata.size = 0
<1>1. PICK p \in Seq(Nat) : p = change.path /\ ~ IsTemp(p) /\ ~ IsTemp(parent(p))
  BY AtChange DEF Inv
<1>2. /\ Sound(Cleared)
      /\ Cleared = tree \/ Touched(tree, Cleared, {p}, {parent(p)})
  BY <1>1, ClearedTouches
<1>3. Touched(tree, Cleared, {p}, {parent(p)})
  BY <1>2, SameIs DEF Touched
<1>4. Lacks(Cleared, p) /\ HasDirectory(tree, parent(p))
  BY <1>1, Writable DEF Linkable, At, Lacks
<1>5. p # root
  <2> SUFFICES ASSUME p = root PROVE FALSE
    OBVIOUS
  <2>1. HasDirectory(tree, p)
    BY <1>4, <1>1, Paths
  <2>2. ~ Removable(tree, p, "Symlink")
    BY <2>1 DEF HasDirectory, Removable, At, Inv, Sound, IsTree
  <2>3. Cleared = tree
    BY <1>1, <2>2 DEF Cleared
  <2> QED
    BY <1>4, <2>1, <2>3 DEF HasDirectory, Lacks
<1>6. HasDirectory(Cleared, parent(p))
  <2>1. parent(p) # p
    BY <1>5, Paths
  <2> QED
    BY <1>3, <1>4, <2>1 DEF HasDirectory, Touched, Same, Like
<1>7. NothingBelow(Cleared, p)
  BY <1>2, <1>4, Leaf DEF HasDirectory, Lacks
<1>8. PICK e : e = Fresh(p, "Symlink", None, target, 0)
  OBVIOUS
<1>9. /\ IsEntry(e) /\ e.path = p /\ e.kind = "Symlink" /\ e.hash = None
      /\ e.symlink_target = target /\ e.metadata.size = 0
  BY <1>8 DEF Fresh, IsEntry, EntryKind
<1>10. PICK later : later = Put(Cleared, e)
  OBVIOUS
<1>11. Touched(Cleared, later, {p}, {parent(p)}) /\ e \in later
  BY <1>2, <1>5, <1>6, <1>7, <1>9, <1>10, PutTouches
<1>12. Touched(tree, later, {p} \cup {p}, {parent(p)} \cup {parent(p)})
  BY <1>3, <1>11, TouchedTrans
<1>13. {p} \cup {p} = {p} /\ {parent(p)} \cup {parent(p)} = {parent(p)}
  OBVIOUS
<1> QED
  BY <1>1, <1>8, <1>9, <1>10, <1>11, <1>12, <1>13

LEMMA BeginWriteTouches ==
    ASSUME Inv, BeginWrite
    PROVE  Touched(tree, tree', {TempPath(change.path)}, {parent(change.path)})
<1>1. PICK p \in Seq(Nat) : p = change.path
  BY AtChange DEF BeginWrite, Inv
<1>2. PICK t : t = TempPath(p)
  OBVIOUS
<1>3. t \in Seq(Nat) /\ t # root /\ IsTemp(t) /\ parent(t) = parent(p)
  BY <1>2, TempPaths
<1>4. HasDirectory(tree, parent(t))
  BY <1>1, <1>3, Writable DEF BeginWrite, Succeeds
<1>5. NothingBelow(tree, t)
  BY <1>3, TempIsLeaf DEF Inv
<1>6. PICK e : e = Fresh(t, "File", None, None, 0)
  OBVIOUS
<1>7. IsEntry(e) /\ e.path = t
  BY <1>3, <1>6, FreshIs DEF EntryKind
<1>8. Touched(tree, Put(tree, e), {t}, {parent(t)})
  BY <1>3, <1>4, <1>5, <1>7, PutTouches DEF Inv
<1>9. tree' = Put(tree, e)
  BY <1>1, <1>2, <1>6 DEF BeginWrite
<1> QED
  BY <1>1, <1>2, <1>3, <1>8, <1>9

LEMMA DroppedTouches ==
    ASSUME Inv, In("content")
    PROVE  /\ Sound(Dropped)
           /\ Touched(tree, Dropped, {TempPath(change.path)}, {parent(change.path)})
           /\ temp # None => Lacks(Dropped, TempPath(change.path))
           /\ temp # None => HasDirectory(tree, parent(change.path))
<1>1. PICK p \in Seq(Nat) : p = change.path
  BY AtChange DEF Inv
<1>2. Sound(Dropped) /\ (temp # None => HasDirectory(tree, parent(p)))
  BY <1>1, DroppedMoves
<1>3. CASE temp = None
  BY <1>1, <1>2, <1>3, SameIs DEF Dropped, Touched
<1>4. CASE temp # None
  <2>1. PICK t : t = TempPath(p)
    OBVIOUS
  <2>2. t \in Seq(Nat) /\ IsTemp(t) /\ parent(t) = parent(p)
    BY <2>1, TempPaths
  <2>3. HasDirectory(tree, parent(t))
    BY <1>2, <1>4, <2>2
  <2>4. NothingBelow(tree, t)
    BY <2>2, TempIsLeaf DEF Inv
  <2>5. Dropped = Unlink(tree, t)
    BY <1>1, <1>4, <2>1 DEF Dropped
  <2>6. Touched(tree, Dropped, {t}, {parent(t)}) /\ Lacks(Dropped, t)
    BY <2>3, <2>4, <2>5, UnlinkTouches DEF Inv
  <2> QED
    BY <1>1, <1>2, <2>1, <2>2, <2>6
<1> QED
  BY <1>3, <1>4

LEMMA PersistTouches ==
    ASSUME Inv, Persist, NEW hash, NEW size,
           tree' = Put(Dropped, Fresh(change.path, "File", hash, None, size))
    PROVE  /\ Touched(tree, tree', {change.path, TempPath(change.path)},
                      {parent(change.path)})
           /\ Lacks(tree', TempPath(change.path))
           /\ \E e \in tree' : /\ e.path = change.path /\ e.kind = "File"
                               /\ e.hash = hash /\ e.symlink_target = None
                               /\ e.metadata.size = size
<1>1. PICK p \in Seq(Nat) : p = change.path /\ ~ IsTemp(p) /\ ~ IsTemp(parent(p))
  BY AtChange DEF Persist, Inv
<1>2. In("content") /\ temp # None /\ Persistable
  BY DEF Persist, Succeeds
<1>3. PICK t : t = TempPath(p) /\ IsTemp(t)
  BY TempPaths
<1>4. /\ Sound(Dropped) /\ Touched(tree, Dropped, {t}, {parent(p)})
      /\ Lacks(Dropped, t) /\ HasDirectory(tree, parent(p))
  BY <1>1, <1>2, <1>3, DroppedTouches
<1>5. ~ HasDirectory(tree, p)
  BY <1>1, <1>2 DEF Persistable, HasDirectory, At
<1>6. p # root
  BY <1>4, <1>5, <1>1, Paths
<1>7. ~ HasDirectory(Dropped, p)
  BY <1>1, <1>3, <1>4, <1>5 DEF HasDirectory, Touched, Same, Like
<1>8. NothingBelow(Dropped, p)
  BY <1>4, <1>7, Leaf
<1>9. HasDirectory(Dropped, parent(p))
  BY <1>1, <1>3, <1>4 DEF HasDirectory, Touched, Same, Like
<1>10. PICK e : e = Fresh(p, "File", hash, None, size)
  OBVIOUS
<1>11. /\ IsEntry(e) /\ e.path = p /\ e.kind = "File" /\ e.hash = hash
       /\ e.symlink_target = None /\ e.metadata.size = size
  BY <1>10 DEF Fresh, IsEntry, EntryKind
<1>12. PICK later : later = Put(Dropped, e)
  OBVIOUS
<1>13. Touched(Dropped, later, {p}, {parent(p)}) /\ e \in later
  BY <1>4, <1>6, <1>8, <1>9, <1>11, <1>12, PutTouches
<1>14. Touched(tree, later, {t} \cup {p}, {parent(p)} \cup {parent(p)})
  BY <1>4, <1>13, TouchedTrans
<1>15. {t} \cup {p} = {p, t} /\ {parent(p)} \cup {parent(p)} = {parent(p)}
  OBVIOUS
<1>16. Lacks(later, t)
  BY <1>1, <1>3, <1>4, <1>13 DEF Lacks, Touched, Same, Like
<1> QED
  BY <1>1, <1>3, <1>10, <1>11, <1>12, <1>13, <1>14, <1>15, <1>16

\* Nothing came or went, and what changed is mode and mtime.
Restyled(fs, later) ==
    /\ \A x \in fs : \E e \in later : Like(e, x)
    /\ \A e \in later : \E x \in fs : Like(e, x)

LEMMA GrantedTouches ==
    ASSUME NEW fs, Sound(fs), NEW p, NEW metadata, NEW granted,
           NEW later, later = set_metadata(fs, p, metadata, granted)
    PROVE  /\ Restyled(fs, later)
           /\ \A x \in fs : \E e \in later :
                /\ Like(e, x) /\ (x.path # p => e = x)
                /\ x.path = p =>
                     /\ "mode" \in granted => e.metadata.mode = metadata.mode
                     /\ "mtime" \in granted => e.metadata.mtime = metadata.mtime
<1> DEFINE g(e) == IF e.path = p THEN Granted(e, metadata, granted) ELSE e
           fits(e, x) ==
             /\ Like(e, x) /\ (x.path # p => e = x)
             /\ x.path = p =>
                  /\ "mode" \in granted => e.metadata.mode = metadata.mode
                  /\ "mtime" \in granted => e.metadata.mtime = metadata.mtime
<1>1. later = {g(x) : x \in fs}
  BY DEF set_metadata, Granted
<1>2. ASSUME NEW x \in fs
      PROVE  fits(g(x), x)
  <2>1. CASE x.path # p
    BY <2>1, SameIs
  <2>2. CASE x.path = p
    <3>1. PICK y : y = Granted(x, metadata, granted)
      OBVIOUS
    <3>2. IsEntry(x)
      BY DEF Sound
    <3>3. g(x) = y
      BY <2>2, <3>1
    <3> HIDE DEF g
    <3> QED
      BY <2>2, <3>1, <3>2, <3>3, GrantedIs
  <2> QED
    BY <2>1, <2>2
<1> HIDE DEF g
<1>3. Restyled(fs, later)
  BY <1>1, <1>2 DEF Restyled
<1> QED
  BY <1>1, <1>2, <1>3

LEMMA StampTouches ==
    ASSUME Inv, Stamp
    PROVE  /\ Restyled(tree, tree')
           /\ \E s \in stamp : \A x \in tree : \E e \in tree' :
                /\ Like(e, x) /\ (x.path # s.path => e = x)
                /\ x.path = s.path => \/ s.path \in unstamped'
                                      \/ /\ e.metadata.mode = s.metadata.mode
                                         /\ e.metadata.mtime = s.metadata.mtime
<1>1. PICK s \in stamp, granted \in SUBSET MetadataCalls :
         /\ tree' = set_metadata(tree, s.path, s.metadata, granted)
         /\ Warns(granted = MetadataCalls, {s.path})
  BY DEF Stamp
<1>2. s.path \in unstamped' \/ granted = MetadataCalls
  BY <1>1 DEF Warns
<1>3. Sound(tree)
  BY DEF Inv
<1>4. PICK metadata : metadata = s.metadata
  OBVIOUS
<1>5. PICK later : later = tree'
  OBVIOUS
<1>6. /\ Restyled(tree, later)
      /\ \A x \in tree : \E e \in later :
           /\ Like(e, x) /\ (x.path # s.path => e = x)
           /\ x.path = s.path =>
                /\ "mode" \in granted => e.metadata.mode = metadata.mode
                /\ "mtime" \in granted => e.metadata.mtime = metadata.mtime
  BY <1>1, <1>3, <1>4, <1>5, GrantedTouches
<1> QED
  BY <1>2, <1>4, <1>5, <1>6 DEF MetadataCalls

\* What `times' speak of has one of the mtimes they say, and the rest stays.
Timed(fs, later, times) ==
    /\ \A x \in fs : \E e \in later :
         /\ Like(e, x) /\ e.metadata.mode = x.metadata.mode
         /\ \/ e = x /\ \A t \in times : t.path # x.path
            \/ \E t \in times : t.path = x.path /\ e.metadata.mtime = t.mtime
    /\ \A e \in later : \E x \in fs : Like(e, x)

LEMMA TimesTouch ==
    ASSUME NEW fs, Sound(fs), NEW times
    PROVE  Timed(fs, WithTimes(fs, times), times)
<1> DEFINE timed(x) == \E t \in times : t.path = x.path
           m(x) == (CHOOSE t \in times : t.path = x.path).mtime
           g(x) == IF timed(x) THEN [x EXCEPT !.metadata.mtime = m(x)] ELSE x
           fits(e, x) == /\ Like(e, x) /\ e.metadata.mode = x.metadata.mode
                         /\ \/ e = x /\ \A t \in times : t.path # x.path
                            \/ \E t \in times : t.path = x.path /\ e.metadata.mtime = t.mtime
<1>1. WithTimes(fs, times) = {g(x) : x \in fs}
  BY DEF WithTimes
<1>2. ASSUME NEW x \in fs
      PROVE  fits(g(x), x)
  <2>1. CASE ~ timed(x)
    BY <2>1, SameIs
  <2>2. CASE timed(x)
    <3>1. PICK t \in times : t.path = x.path /\ m(x) = t.mtime
      BY <2>2
    <3>2. PICK mtime : mtime = m(x)
      OBVIOUS
    <3>3. PICK y : y = [x EXCEPT !.metadata.mtime = mtime]
      OBVIOUS
    <3>4. /\ Like(y, x) /\ y.metadata.mode = x.metadata.mode
          /\ y.metadata.mtime = mtime
      BY <3>3 DEF Sound, IsEntry, Like
    <3>5. g(x) = y
      BY <2>2, <3>2, <3>3
    <3> HIDE DEF g, m, timed
    <3> QED
      BY <3>1, <3>2, <3>4, <3>5
  <2> QED
    BY <2>1, <2>2
<1> HIDE DEF g
<1>3. \A x \in fs : \E e \in WithTimes(fs, times) : fits(e, x)
  BY <1>1, <1>2
<1>4. \A e \in WithTimes(fs, times) : \E x \in fs : Like(e, x)
  BY <1>1, <1>2
<1> QED
  BY <1>3, <1>4 DEF Timed

LEMMA TimedIs ==
    ASSUME NEW a, NEW b, NEW times, Timed(a, b, times)
    PROVE  Restyled(a, b)
  BY DEF Timed, Restyled

LEMMA RestyledTrans ==
    ASSUME NEW a, NEW b, NEW c, Restyled(a, b), Restyled(b, c)
    PROVE  Restyled(a, c)
  BY DEF Restyled, Like

LEMMA RestoreTouches ==
    ASSUME Inv, RestoreTimes
    PROVE  /\ Restyled(tree, tree')
           /\ \E explicit \in SUBSET dir_metadata_changes, saved \in SUBSET saved_dir_mtimes :
                /\ \A t \in (dir_metadata_changes \ explicit) \cup (saved_dir_mtimes \ saved) :
                     t.path \in unstamped'
                /\ \E between : Timed(tree, between, explicit) /\ Timed(between, tree', saved)
<1>1. PICK explicit \in SUBSET dir_metadata_changes, saved \in SUBSET saved_dir_mtimes :
         LET refused == (dir_metadata_changes \ explicit) \cup (saved_dir_mtimes \ saved)
         IN  /\ tree' = WithTimes(WithTimes(tree, explicit), saved)
             /\ Warns(refused = {}, {t.path : t \in refused})
  BY DEF RestoreTimes
<1>2. PICK between : between = WithTimes(tree, explicit)
  OBVIOUS
<1>3. \A t \in (dir_metadata_changes \ explicit) \cup (saved_dir_mtimes \ saved) :
         t.path \in unstamped'
  BY <1>1 DEF Warns
<1>4. Timed(tree, between, explicit)
  BY <1>2, TimesTouch DEF Inv
<1>5. Sound(between)
  <2>1. \A t \in explicit : t.path \in ChangedPaths
    BY DEF Inv, PlanInv
  <2> QED
    BY <1>2, <2>1, WithTimesMoves DEF Inv
<1>6. tree' = WithTimes(between, saved)
  BY <1>1, <1>2
<1>7. Timed(between, tree', saved)
  BY <1>5, <1>6, TimesTouch
<1>8. Restyled(tree, between) /\ Restyled(between, tree')
  BY <1>4, <1>7, TimedIs
<1> QED
  BY <1>3, <1>4, <1>7, <1>8, RestyledTrans

----------------------------------------------------------------------------
(* What the steps make is what the new tree has.                           *)

Finishes(e, y) == Kin(e, y) /\ e.metadata.size = y.metadata.size

StampOf(y) == [path |-> y.path, metadata |-> y.metadata]

\* A change that says what the metadata are to be.
Gives(c) == c.op = "Added" \/ c.new_metadata # None

LEMMA InvDiffed == Inv => IsDiffed
  BY DEF Inv, PlanInv, IsDiffed

\* The parts of the diff that the loops go through.
LEMMA AtOf ==
    ASSUME Inv, NEW phase, In(phase)
    PROVE  /\ change \in todo /\ change \in changes
           /\ phase = "delete" => change \in deletions /\ change.op = "Removed"
           /\ phase = "create" => /\ change \in items /\ ~ HasContent(change)
                                  /\ change.op \in {"Added", "Modified"}
                                  /\ ~ change.has_content
           /\ phase = "content" => /\ change \in contents /\ change.has_content
                                   /\ change.op \in {"Added", "Modified"}
<1>1. change \in todo /\ change \in changes
  BY AtChange DEF Inv
<1>2. change.op \in {"Removed", "Added", "Modified"}
  BY <1>1, OpsAre, InvDiffed
<1> QED
  BY <1>1, <1>2 DEF Inv, PlanInv, In, deletions, items, contents, HasContent

LEMMA AddDirectoryMakes ==
    ASSUME Inv, AddDirectory
    PROVE  /\ change.entry \in after /\ change.entry.path = change.path
           /\ change.entry.kind = "Directory" /\ Come(change.entry)
           /\ stamp' = {StampOf(change.entry)}
           /\ \A q \in Lacking(change.path) :
                \E e \in tree', y \in after : e.path = q /\ Finishes(e, y)
<1>1. PICK p \in Seq(Nat) : p = change.path
  BY AtChange DEF AddDirectory, Inv
<1>2. PICK y : y = change.entry
  OBVIOUS
<1>3. change \in changes /\ change.op = "Added" /\ y.kind = "Directory"
  BY <1>2, AtChange DEF AddDirectory, AddsDirectory, Inv
<1>4. Come(y) /\ p = y.path /\ y \in after
  BY <1>1, <1>2, <1>3, AddedIs, InvDiffed DEF Come
<1>5. stamp' = {StampOf(y)}
  BY <1>1, <1>2, <1>4 DEF AddDirectory, Some, StampOf
<1>6. ASSUME NEW q \in Lacking(p)
      PROVE  \E e \in tree', z \in after : e.path = q /\ Finishes(e, z)
  <2>1. PICK n \in 0 .. Len(p) : q = SubSeq(p, 1, n)
    BY DEF Lacking
  <2>2. after \in Trees
    BY InvDiffed DEF IsDiffed
  <2>3. PICK z \in after : z.path = q /\ z.kind = "Directory"
    <3>1. CASE n = Len(p)
      <4>1. q = p
        BY <2>1, <3>1
      <4> QED
        BY <1>3, <1>4, <4>1
    <3>2. CASE n # Len(p)
      <4>1. n \in 0 .. Len(y.path) - 1
        BY <1>4, <3>2
      <4>2. HasDirectory(after, SubSeq(y.path, 1, n))
        BY <1>4, <2>2, <4>1, TreesAre, Ancestors
      <4> QED
        BY <1>4, <2>1, <4>2 DEF HasDirectory
    <3> QED
      BY <3>1, <3>2
  <2>4. PICK e \in tree' : e.path = q /\ Bare(e)
    BY <1>1, AddDirectoryTouches
  <2>5. z.hash = None /\ z.symlink_target = None /\ z.metadata.size = 0
    BY <2>2, <2>3, TreesAre DEF Proper
  <2> QED
    BY <2>3, <2>4, <2>5 DEF Bare, Finishes, Kin
<1> QED
  BY <1>1, <1>2, <1>3, <1>4, <1>5, <1>6

LEMMA MakeLinkMakes ==
    ASSUME Inv, MakeLink
    PROVE  /\ Touched(tree, tree', {change.path}, {parent(change.path)})
           /\ \E e \in tree', y \in after :
                /\ y.path = change.path /\ Finishes(e, y)
                /\ stamp' = IF Gives(change) THEN {StampOf(y)} ELSE {}
<1>1. PICK p : p = change.path
  OBVIOUS
<1>2. In("create") /\ Linkable /\ change \in changes /\ MakesLink
  BY AtOf DEF MakeLink, Succeeds
<1>3. IsDiffed /\ after \in Trees
  BY InvDiffed DEF IsDiffed
<1>4. CASE change.op = "Added"
  <2>1. PICK y : y = change.entry
    OBVIOUS
  <2>2. y \in after /\ p = y.path /\ y.kind = "Symlink"
    BY <1>1, <1>2, <1>3, <1>4, <2>1, AddedIs DEF MakesLink, Come
  <2>3. PICK target : target = y.symlink_target
    OBVIOUS
  <2>4. tree' = Put(Cleared, Fresh(change.path, "Symlink", None, target, 0))
    BY <1>4, <2>1, <2>3 DEF MakeLink
  <2>5. /\ Touched(tree, tree', {p}, {parent(p)})
        /\ \E e \in tree' : /\ e.path = p /\ e.kind = "Symlink" /\ e.hash = None
                            /\ e.symlink_target = target /\ e.metadata.size = 0
    BY <1>1, <1>2, <2>4, LinkTouches
  <2>6. y.hash = None /\ y.metadata.size = 0
    BY <1>3, <2>2, TreesAre DEF Proper
  <2>7. stamp' = {StampOf(y)} /\ Gives(change)
    BY <1>1, <1>4, <2>1, <2>2 DEF MakeLink, StampOf, Some, Gives
  <2> QED
    BY <1>1, <2>2, <2>3, <2>5, <2>6, <2>7 DEF Finishes, Kin
<1>5. CASE change.op # "Added"
  <2>1. change.op = "Modified" /\ change.new_symlink_target # None
    BY <1>2, <1>5 DEF MakesLink
  <2>2. PICK x, y : Stays(x, y) /\ Says(change, x, y)
    BY <1>2, <1>3, <2>1, ModifiedTells
  <2>3. PICK target : target = y.symlink_target
    OBVIOUS
  <2>4. /\ y \in after /\ y.path = p /\ y.kind = "Symlink"
        /\ change.new_symlink_target = target
        /\ change.new_metadata \in {None, Some(y.metadata)}
    BY <1>1, <2>1, <2>2, <2>3 DEF Stays, Says
  <2>5. tree' = Put(Cleared, Fresh(change.path, "Symlink", None, target, 0))
    BY <1>5, <2>4 DEF MakeLink
  <2>6. /\ Touched(tree, tree', {p}, {parent(p)})
        /\ \E e \in tree' : /\ e.path = p /\ e.kind = "Symlink" /\ e.hash = None
                            /\ e.symlink_target = target /\ e.metadata.size = 0
    BY <1>1, <1>2, <2>5, LinkTouches
  <2>7. y.hash = None /\ y.metadata.size = 0
    BY <1>3, <2>4, TreesAre DEF Proper
  <2>8. stamp' = {[path |-> p, metadata |-> m] : m \in change.new_metadata}
    BY <1>1, <1>5 DEF MakeLink
  <2>9. stamp' = IF Gives(change) THEN {StampOf(y)} ELSE {}
    <3>1. CASE change.new_metadata = None
      BY <1>5, <2>8, <3>1 DEF Gives, None
    <3>2. CASE change.new_metadata # None
      <4>1. change.new_metadata = {y.metadata}
        BY <2>4, <3>2 DEF Some
      <4> QED
        BY <2>4, <2>8, <3>2, <4>1 DEF Gives, StampOf
    <3> QED
      BY <3>1, <3>2
  <2> QED
    BY <1>1, <2>3, <2>4, <2>6, <2>7, <2>9 DEF Finishes, Kin
<1> QED
  BY <1>4, <1>5

LEMMA PersistMakes ==
    ASSUME Inv, Persist
    PROVE  /\ Touched(tree, tree', {change.path, TempPath(change.path)},
                      {parent(change.path)})
           /\ Lacks(tree', TempPath(change.path))
           /\ Gives(change)
           /\ \E e \in tree', y \in after :
                /\ y.path = change.path /\ Finishes(e, y) /\ stamp' = {StampOf(y)}
<1> DEFINE H == IF change.op = "Added" THEN change.entry.hash ELSE change.new_hash
           M == IF change.op = "Added" THEN Some(change.entry.metadata)
                                       ELSE change.new_metadata
           N == CHOOSE n \in {m.size : m \in M} : TRUE
<1>1. PICK p : p = change.path
  OBVIOUS
<1>2. change \in changes /\ change.has_content /\ change.op \in {"Added", "Modified"}
  BY AtOf DEF Persist
<1>3. IsDiffed /\ after \in Trees
  BY InvDiffed DEF IsDiffed
<1>4. \E y \in after : /\ y.path = p /\ y.kind = "File"
                       /\ H = y.hash /\ M = {y.metadata} /\ Gives(change)
  <2>1. CASE change.op = "Added"
    <3>1. PICK y : y = change.entry
      OBVIOUS
    <3>2. y \in after /\ y.path = p /\ y.kind = "File"
      BY <1>1, <1>2, <1>3, <2>1, <3>1, AddedIs DEF Come
    <3>3. H = y.hash /\ M = {y.metadata} /\ Gives(change)
      BY <2>1, <3>1 DEF Some, Gives
    <3> HIDE DEF H, M
    <3> QED
      BY <3>2, <3>3
  <2>2. CASE change.op = "Modified"
    <3>1. PICK x, y : Stays(x, y) /\ Says(change, x, y)
      BY <1>2, <1>3, <2>2, ModifiedTells
    <3>2. /\ y \in after /\ y.path = p /\ y.kind = "File"
          /\ change.new_hash = y.hash /\ change.new_metadata = {y.metadata}
      BY <1>1, <1>2, <3>1 DEF Stays, Says, Some
    <3>3. H = y.hash /\ M = {y.metadata} /\ Gives(change)
      BY <2>2, <3>2 DEF Gives, None
    <3> HIDE DEF H, M
    <3> QED
      BY <3>2, <3>3
  <2> QED
    BY <1>2, <2>1, <2>2
<1>5. PICK y \in after : /\ y.path = p /\ y.kind = "File"
                         /\ H = y.hash /\ M = {y.metadata} /\ Gives(change)
  BY <1>4
<1>6. N = y.metadata.size
  <2>1. {m.size : m \in M} = {y.metadata.size}
    BY <1>5
  <2> QED
    BY <2>1
<1>7. tree' = Put(Dropped, Fresh(change.path, "File", H, None, N))
  BY DEF Persist
<1>8. stamp' = {[path |-> p, metadata |-> m] : m \in M}
  BY <1>1 DEF Persist
<1> HIDE DEF H, M, N
<1>9. PICK hash, size : hash = H /\ size = N
  OBVIOUS
<1>10. /\ Touched(tree, tree', {change.path, TempPath(change.path)}, {parent(change.path)})
       /\ Lacks(tree', TempPath(change.path))
       /\ \E e \in tree' : /\ e.path = change.path /\ e.kind = "File"
                           /\ e.hash = hash /\ e.symlink_target = None
                           /\ e.metadata.size = size
  BY <1>7, <1>9, PersistTouches
<1>11. y.symlink_target = None
  BY <1>3, <1>5, TreesAre DEF Proper
<1>12. stamp' = {StampOf(y)}
  BY <1>5, <1>8 DEF StampOf
<1> QED
  BY <1>1, <1>5, <1>6, <1>9, <1>10, <1>11, <1>12 DEF Finishes, Kin

----------------------------------------------------------------------------
(* Applying once more repairs.                                             *)

\* What is there of the old tree that the new one does not have, and the
\* other way around, only gets less.
Right(e) == \E y \in after : Kin(e, y)
WasOld(e) == \E x \in before : Kin(e, x)

HalfwayInv ==
    Faithful =>
        /\ \A e \in tree : ~ IsTemp(e.path) => Right(e) \/ WasOld(e)
        /\ \A x \in before, y \in after : Kin(x, y) => \E e \in tree : Kin(e, y)

\* A change of what is the same in both trees is one of metadata.
LEMMA CommonChange ==
    ASSUME IsDiffed, NEW x \in before, NEW y \in after, Kin(x, y),
           NEW c \in changes, c.path = y.path
    PROVE  c.op = "Modified" /\ ~ c.has_content /\ c.new_symlink_target = None
<1>1. x.path = y.path /\ x.kind = y.kind
  BY DEF Kin
<1>2. c.op # "Removed"
  <2> SUFFICES ASSUME c.op = "Removed" PROVE FALSE
    OBVIOUS
  <2>1. PICK z : Gone(z) /\ c.path = z.path
    BY RemovedIs
  <2>2. z = x
    BY <1>1, <2>1, OneBefore DEF Gone
  <2> QED
    BY <1>1, <2>1, <2>2 DEF Gone, SamePlace
<1>3. c.op # "Added"
  <2> SUFFICES ASSUME c.op = "Added" PROVE FALSE
    OBVIOUS
  <2>1. Come(c.entry) /\ c.path = c.entry.path
    BY AddedIs
  <2>2. c.entry = y
    BY <2>1, OneAfter DEF Come
  <2> QED
    BY <1>1, <2>1, <2>2 DEF Come, SamePlace
<1>4. c.op = "Modified"
  BY <1>2, <1>3, OpsAre
<1>5. PICK v, w : Stays(v, w) /\ Says(c, v, w)
  BY <1>4, ModifiedTells
<1>6. v = x /\ w = y
  BY <1>1, <1>5, OneBefore, OneAfter DEF Stays, Says
<1> QED
  BY <1>4, <1>5, <1>6 DEF Says, Kin


\* What a step puts on the paths it touches is of the new tree, or a tempfile;
\* and what it takes away is to go, or a link to be made anew.
Arrives(paths) ==
    \A e \in tree' : e.path \in paths =>
        \/ \E y \in after : Finishes(e, y)
        \/ \E c \in contents : e.path = TempPath(c.path)
Departs(paths) ==
    \A q \in paths :
        \/ \E e \in tree' : e.path = q
        \/ \E c \in contents : q = TempPath(c.path)
        \/ /\ q = change.path
           /\ \/ In("delete")
              \/ In("create") /\ change.op = "Modified" /\ change.new_symlink_target # None

Moderate == \E paths, dirs : /\ Touched(tree, tree', paths, dirs)
                             /\ Arrives(paths) /\ Departs(paths)

LEMMA NothingTouched ==
    ASSUME NEW fs, NEW later, later = fs, NEW paths, NEW dirs
    PROVE  Touched(fs, later, paths, dirs) /\ Restyled(fs, later)
  BY SameIs DEF Touched, Restyled

LEMMA StepTouches ==
    ASSUME Inv, [ApplyNext]_applyVars
    PROVE  Restyled(tree, tree') \/ Moderate
<1>1. CASE tree' = tree
  BY <1>1, NothingTouched
<1>2. CASE Stamp
  BY <1>2, StampTouches
<1>3. CASE RestoreTimes
  BY <1>3, RestoreTouches
<1>4. CASE Delete
  <2>1. In("delete")
    BY <1>4 DEF Delete
  <2>2. PICK p, d : p = change.path /\ d = {parent(p)}
    OBVIOUS
  <2>3. Touched(tree, tree', {p}, d) /\ Lacks(tree', p)
    BY <1>4, <2>2, DeleteTouches
  <2>4. Arrives({p}) /\ Departs({p})
    BY <2>1, <2>2, <2>3 DEF Arrives, Departs, Lacks
  <2> QED
    BY <2>3, <2>4 DEF Moderate
<1>5. CASE AddDirectory
  <2>1. PICK paths, dirs : /\ paths = Lacking(change.path)
                           /\ dirs = {parent(q) : q \in Lacking(change.path)}
    OBVIOUS
  <2>2. Touched(tree, tree', paths, dirs)
    BY <1>5, <2>1, AddDirectoryTouches
  <2>3. \A q \in paths : \E e \in tree', y \in after : e.path = q /\ Finishes(e, y)
    BY <1>5, <2>1, AddDirectoryMakes
  <2>4. Sound(tree')
    BY <1>5, AddDirectoryMoves DEF Moves
  <2>5. \A e, f \in tree' : e.path = f.path => e = f
    BY <2>4 DEF Sound, IsTree
  <2>6. Arrives(paths) /\ Departs(paths)
    BY <2>3, <2>5 DEF Arrives, Departs
  <2> QED
    BY <2>2, <2>6 DEF Moderate
<1>6. CASE MakeLink
  <2>1. PICK p, d : p = change.path /\ d = {parent(p)}
    OBVIOUS
  <2>2. /\ Touched(tree, tree', {p}, d)
        /\ \E e \in tree', y \in after : y.path = p /\ Finishes(e, y)
    BY <1>6, <2>1, MakeLinkMakes
  <2>3. Sound(tree')
    BY <1>6, MakeLinkMoves DEF Moves
  <2>4. \A e, f \in tree' : e.path = f.path => e = f
    BY <2>3 DEF Sound, IsTree
  <2>5. Arrives({p}) /\ Departs({p})
    BY <2>2, <2>4 DEF Arrives, Departs, Finishes, Kin
  <2> QED
    BY <2>2, <2>5 DEF Moderate
<1>7. CASE MakeLinkFails
  <2>1. In("create") /\ tree' \in {tree, Cleared} /\ MakesLink
    BY <1>7 DEF MakeLinkFails
  <2>2. PICK p, d : p = change.path /\ d = {parent(p)}
    OBVIOUS
  <2>3. \/ tree' = tree
        \/ /\ Touched(tree, tree', {p}, d) /\ Lacks(tree', p)
           /\ change.op = "Modified"
    BY <2>1, <2>2, ClearedTouches
  <2>4. CASE tree' # tree
    <3>1. Arrives({p}) /\ Departs({p})
      BY <2>1, <2>2, <2>3, <2>4 DEF Arrives, Departs, Lacks, MakesLink
    <3> QED
      BY <2>3, <2>4, <3>1 DEF Moderate
  <2> QED
    BY <1>1, <2>4
<1>8. CASE BeginWrite
  <2>1. change \in contents
    BY <1>8, AtOf DEF BeginWrite
  <2>2. PICK t, d : t = TempPath(change.path) /\ d = {parent(change.path)}
    OBVIOUS
  <2>3. Touched(tree, tree', {t}, d)
    BY <1>8, <2>2, BeginWriteTouches
  <2>4. Arrives({t}) /\ Departs({t})
    BY <2>1, <2>2 DEF Arrives, Departs
  <2> QED
    BY <2>3, <2>4 DEF Moderate
<1>9. CASE Abort \/ PersistFails
  <2>1. In("content") /\ tree' = Dropped
    BY <1>9 DEF Abort, PersistFails
  <2>2. change \in contents
    BY <2>1, AtOf
  <2>3. PICK t, d : t = TempPath(change.path) /\ d = {parent(change.path)}
    OBVIOUS
  <2>4. Touched(tree, tree', {t}, d)
    BY <2>1, <2>3, DroppedTouches
  <2>5. Arrives({t}) /\ Departs({t})
    BY <2>2, <2>3 DEF Arrives, Departs
  <2> QED
    BY <2>4, <2>5 DEF Moderate
<1>10. CASE Persist
  <2>1. change \in contents
    BY <1>10, AtOf DEF Persist
  <2>2. PICK p, t, d : p = change.path /\ t = TempPath(change.path) /\ d = {parent(change.path)}
    OBVIOUS
  <2>3. /\ Touched(tree, tree', {p, t}, d)
        /\ \E e \in tree', y \in after : y.path = p /\ Finishes(e, y)
    BY <1>10, <2>2, PersistMakes
  <2>4. Sound(tree')
    BY <1>10, PersistMoves DEF Moves
  <2>5. \A e, f \in tree' : e.path = f.path => e = f
    BY <2>4 DEF Sound, IsTree
  <2>6. PICK e \in tree', y \in after : y.path = p /\ Finishes(e, y) /\ e.path = p
    BY <2>3 DEF Finishes, Kin
  <2>7. Arrives({p, t})
    BY <2>1, <2>2, <2>5, <2>6 DEF Arrives
  <2>8. Departs({p, t})
    BY <2>1, <2>2, <2>6 DEF Departs
  <2> QED
    BY <2>3, <2>7, <2>8 DEF Moderate
<1>11. CASE \/ UNCHANGED applyVars \/ Start \/ DeleteFails \/ DeletionsDone
            \/ AddDirectoryFails \/ ChangeMetadata \/ CreationsDone
            \/ ContentDone \/ Kill
  BY <1>1, <1>11 DEF applyVars, Start, DeleteFails, DeletionsDone, NextPhase,
                     AddDirectoryFails, ChangeMetadata, CreationsDone, ContentDone, Kill
<1> QED
  BY <1>2, <1>3, <1>4, <1>5, <1>6, <1>7, <1>8, <1>9, <1>10, <1>11 DEF ApplyNext, Step

\* A tempfile has no path of a tree.
LEMMA TempOfContent ==
    ASSUME IsDiffed, NEW c \in contents, NEW t, t = TempPath(c.path)
    PROVE  /\ IsTemp(t) /\ t \in Seq(Nat) /\ t # root /\ parent(t) = parent(c.path)
           /\ \A fs \in Trees : \A e \in fs : e.path # t
           /\ \E y \in after : y.path = c.path /\ y.kind = "File"
<1>1. c \in changes /\ c.op # "Removed" /\ c.has_content
  BY DEF contents, HasContent
<1>2. PICK y \in after : y.path = c.path /\ y.kind = "File"
  <2>1. CASE c.op = "Added"
    BY <1>1, <2>1, AddedIs DEF Come
  <2>2. CASE c.op = "Modified"
    BY <1>1, <2>2, ModifiedTells DEF Stays, Says
  <2> QED
    BY <1>1, <2>1, <2>2, OpsAre
<1>3. PICK p \in Seq(Nat) : p = c.path
  BY <1>2, TreesAre DEF IsDiffed, Proper
<1>4. IsTemp(t) /\ t \in Seq(Nat) /\ t # root /\ parent(t) = parent(p)
  BY <1>3, TempPaths
<1> QED
  BY <1>2, <1>3, <1>4, TreesAre

TempsInv == \A e \in tree : IsTemp(e.path) => \E c \in contents : e.path = TempPath(c.path)

\* Directories have what those of a snapshot have.
BareInv == \A e \in tree : e.kind = "Directory" => Bare(e)

LEMMA TempsInit == ApplyInit => TempsInv /\ BareInv /\ HalfwayInv
<1> SUFFICES ASSUME ApplyInit PROVE TempsInv /\ BareInv /\ HalfwayInv
  OBVIOUS
<1>1. tree = present /\ present \in Trees
  BY DEF ApplyInit
<1>2. TempsInv /\ BareInv
  BY <1>1, TreesAre DEF TempsInv, BareInv, Bare, Proper
<1>3. HalfwayInv
  BY <1>1, SameIs DEF HalfwayInv, Faithful, Right, WasOld
<1> QED
  BY <1>2, <1>3

LEMMA TempsStep ==
    ASSUME Inv, TempsInv, BareInv, [ApplyNext]_applyVars
    PROVE  TempsInv' /\ BareInv'
<1>1. contents' = contents
  BY InputStays
<1>2. CASE Restyled(tree, tree')
  BY <1>1, <1>2 DEF Restyled, TempsInv, BareInv, Like, Bare
<1>3. CASE Moderate
  <2>1. PICK paths, dirs : Touched(tree, tree', paths, dirs) /\ Arrives(paths)
    BY <1>3 DEF Moderate
  <2>2. ASSUME NEW e \in tree', e.path \notin paths
        PROVE  /\ IsTemp(e.path) => \E c \in contents : e.path = TempPath(c.path)
               /\ e.kind = "Directory" => Bare(e)
    BY <2>1, <2>2 DEF Touched, Same, Like, TempsInv, BareInv, Bare
  <2>3. ASSUME NEW e \in tree', NEW y \in after, Finishes(e, y)
        PROVE  ~ IsTemp(e.path) /\ (e.kind = "Directory" => Bare(e))
    <3>1. ~ IsTemp(y.path) /\ Proper(y) /\ (y.kind # "File" => y.metadata.size = 0)
      BY TreesAre, InvDiffed DEF IsDiffed
    <3> QED
      BY <2>3, <3>1 DEF Finishes, Kin, Bare, Proper
  <2>4. ASSUME NEW e \in tree', NEW c \in contents, e.path = TempPath(c.path)
        PROVE  e.kind # "Directory"
    <3>1. IsTemp(e.path)
      BY <2>4, TempOfContent, InvDiffed
    <3>2. Sound(tree')
      BY InvStep DEF Inv
    <3> QED
      BY <3>1, <3>2 DEF Sound
  <2>5. \A e \in tree' : /\ IsTemp(e.path) => \E c \in contents : e.path = TempPath(c.path)
                         /\ e.kind = "Directory" => Bare(e)
    BY <2>1, <2>2, <2>3, <2>4 DEF Arrives
  <2> QED
    BY <1>1, <2>5 DEF TempsInv, BareInv
<1> QED
  BY <1>2, <1>3, StepTouches

LEMMA HalfwayStep ==
    ASSUME Inv, HalfwayInv, [ApplyNext]_applyVars
    PROVE  HalfwayInv'
<1>1. UNCHANGED <<before, after, present>> /\ IsDiffed
  BY InputStays, InvDiffed DEF input
<1> SUFFICES ASSUME Faithful
             PROVE  /\ \A e \in tree' : ~ IsTemp(e.path) => Right(e) \/ WasOld(e)
                    /\ \A x \in before, y \in after : Kin(x, y) => \E e \in tree' : Kin(e, y)
  BY <1>1 DEF HalfwayInv, Faithful, Right, WasOld
<1>2. CASE Restyled(tree, tree')
  BY <1>2 DEF Restyled, HalfwayInv, Right, WasOld, Like, Kin
<1>3. CASE Moderate
  <2>1. PICK paths, dirs : /\ Touched(tree, tree', paths, dirs)
                           /\ Arrives(paths) /\ Departs(paths)
    BY <1>3 DEF Moderate
  <2>2. ASSUME NEW e \in tree', ~ IsTemp(e.path)
        PROVE  Right(e) \/ WasOld(e)
    <3>1. CASE e.path \in paths
      <4>1. \A c \in contents : e.path # TempPath(c.path)
        BY <1>1, <2>2, TempOfContent
      <4>2. PICK y \in after : Finishes(e, y)
        BY <2>1, <3>1, <4>1 DEF Arrives
      <4> QED
        BY <4>2 DEF Finishes, Right
    <3>2. CASE e.path \notin paths
      <4>1. PICK x \in tree : Same(e, x)
        BY <2>1, <3>2 DEF Touched
      <4>2. Kin(e, x) /\ ~ IsTemp(x.path)
        BY <2>2, <4>1 DEF Same, Like, Kin
      <4>3. Right(x) \/ WasOld(x)
        BY <4>2 DEF HalfwayInv
      <4> QED
        BY <4>2, <4>3 DEF Right, WasOld, Kin
    <3> QED
      BY <3>1, <3>2
  <2>3. ASSUME NEW x \in before, NEW y \in after, Kin(x, y)
        PROVE  \E e \in tree' : Kin(e, y)
    <3>1. CASE y.path \notin paths
      <4>1. PICK e \in tree : Kin(e, y)
        BY <2>3 DEF HalfwayInv
      <4>2. PICK f \in tree' : Same(f, e)
        BY <2>1, <3>1, <4>1 DEF Touched, Kin
      <4> QED
        BY <4>1, <4>2 DEF Same, Like, Kin
    <3>2. CASE y.path \in paths
      <4>1. \A c \in contents : y.path # TempPath(c.path)
        BY <1>1, TempOfContent DEF IsDiffed
      <4>2. \A c \in changes : c.path = y.path =>
              c.op = "Modified" /\ c.new_symlink_target = None
        BY <1>1, <2>3, CommonChange
      <4>3. PICK e \in tree' : e.path = y.path
        BY <2>1, <3>2, <4>1, <4>2, AtOf DEF Departs
      <4>4. PICK z \in after : Finishes(e, z)
        BY <2>1, <3>2, <4>1, <4>3 DEF Arrives
      <4>5. z = y
        BY <1>1, <4>3, <4>4, OneAfter DEF Finishes, Kin
      <4> QED
        BY <4>4, <4>5 DEF Finishes
    <3> QED
      BY <3>1, <3>2
  <2> QED
    BY <2>2, <2>3
<1> QED
  BY <1>2, <1>3, StepTouches

\* The changes the loops of this run have behind them.
Done ==
    CASE apc = "delete" -> deletions \ todo
      [] apc = "create" -> deletions \cup (items \ todo)
      [] apc = "content" -> deletions \cup items \cup (contents \ todo)
      [] apc \in {"times", "done"} -> changes
      [] OTHER -> {}

\* After its change, what is at a path is of the new tree.
Settled(c) ==
    IF c.op = "Removed" THEN \A e \in tree : e.path = c.path => Right(e)
                        ELSE \E e \in tree : e.path = c.path /\ Right(e)

SettledInv ==
    Faithful /\ privileged /\ faulted < runs => \A c \in Done : Settled(c)

Takes(phase) == phase \in {"delete", "create", "content"} /\ In(phase)

LEMMA PartsAre ==
    /\ deletions \subseteq changes /\ items \subseteq changes /\ contents \subseteq changes
    /\ \A c \in changes : c \in deletions \/ c \in items \/ c \in contents
    /\ \A c \in items \cup contents : c \notin deletions /\ c.op # "Removed"
    /\ \A c \in deletions : c.op = "Removed"
    /\ \A c \in contents : c \notin items
  BY DEF deletions, items, contents, HasContent

LEMMA NotDone ==
    ASSUME Inv, NEW phase, Takes(phase)
    PROVE  change \notin Done /\ (phase = "delete" => \A c \in Done : c.op = "Removed")
<1>1. /\ change \in todo
      /\ phase = "delete" => change \in deletions
      /\ phase = "create" => change \in items
      /\ phase = "content" => change \in contents
  BY AtOf DEF Takes
<1>2. apc = phase /\ phase \in {"delete", "create", "content"}
  BY DEF Takes, In
<1> QED
  BY <1>1, <1>2, PartsAre DEF Done

\* What a step that is done with a change adds.
Finishing == \E phase : Takes(phase) /\ apc' = apc /\ todo' = todo \ {change}

LEMMA DoneGrows ==
    ASSUME Inv, Finishing, UNCHANGED input
    PROVE  Done' = Done \cup {change}
<1>1. PICK phase : Takes(phase) /\ apc' = apc /\ todo' = todo \ {change}
  BY DEF Finishing
<1>2. /\ change \in todo
      /\ phase = "delete" => change \in deletions
      /\ phase = "create" => change \in items
      /\ phase = "content" => change \in contents
  BY <1>1, AtOf DEF Takes
<1>3. /\ deletions' = deletions /\ items' = items /\ contents' = contents
      /\ changes' = changes
  BY DEF input, deletions, items, contents, HasContent
<1>4. apc = phase /\ phase \in {"delete", "create", "content"}
  BY <1>1 DEF Takes, In
<1>5. PICK old, new : old = todo /\ new = todo'
  OBVIOUS
<1>6. CASE phase = "delete"
  <2>1. Done = deletions \ old /\ Done' = deletions \ new
    BY <1>1, <1>3, <1>4, <1>5, <1>6 DEF Done
  <2> QED
    BY <1>1, <1>2, <1>5, <1>6, <2>1
<1>7. CASE phase = "create"
  <2>1. Done = deletions \cup (items \ old) /\ Done' = deletions \cup (items \ new)
    BY <1>1, <1>3, <1>4, <1>5, <1>7 DEF Done
  <2> QED
    BY <1>1, <1>2, <1>5, <1>7, <2>1
<1>8. CASE phase = "content"
  <2>1. /\ Done = deletions \cup items \cup (contents \ old)
        /\ Done' = deletions \cup items \cup (contents \ new)
    BY <1>1, <1>3, <1>4, <1>5, <1>8 DEF Done
  <2> QED
    BY <1>1, <1>2, <1>5, <1>8, <2>1
<1> QED
  BY <1>4, <1>6, <1>7, <1>8

\* The steps that leave what is done as it is.
LEMMA DoneStays ==
    ASSUME Inv, UNCHANGED input,
           \/ UNCHANGED <<apc, todo>> \/ DeletionsDone \/ CreationsDone
           \/ ContentDone \/ RestoreTimes
    PROVE  Done' = Done
<1>1. /\ deletions' = deletions /\ items' = items /\ contents' = contents
      /\ changes' = changes
  BY DEF input, deletions, items, contents, HasContent
<1>2. PICK new : new = todo'
  OBVIOUS
<1>3. CASE UNCHANGED <<apc, todo>>
  BY <1>1, <1>3 DEF Done
<1>4. CASE DeletionsDone
  <2>1. apc = "delete" /\ apc' = "create" /\ todo = {} /\ new = items
    BY <1>2, <1>4 DEF DeletionsDone, NextPhase
  <2>2. Done = deletions \ {} /\ Done' = deletions \cup (items \ new)
    BY <1>1, <1>2, <2>1 DEF Done
  <2> QED
    BY <2>1, <2>2
<1>5. CASE CreationsDone
  <2>1. apc = "create" /\ apc' = "content" /\ todo = {} /\ new = contents
    BY <1>2, <1>5 DEF CreationsDone, NextPhase
  <2>2. /\ Done = deletions \cup (items \ {})
        /\ Done' = deletions \cup items \cup (contents \ new)
    BY <1>1, <1>2, <2>1 DEF Done
  <2> QED
    BY <2>1, <2>2
<1>6. CASE ContentDone
  <2>1. apc = "content" /\ apc' = "times" /\ todo = {}
    BY <1>6 DEF ContentDone, NextPhase
  <2>2. /\ Done = deletions \cup items \cup (contents \ {})
        /\ Done' = changes
    BY <1>1, <2>1 DEF Done
  <2>3. changes = deletions \cup items \cup contents
    BY PartsAre
  <2> QED
    BY <2>2, <2>3
<1>7. CASE RestoreTimes
  <2>1. apc = "times" /\ apc' = "done"
    BY <1>7 DEF RestoreTimes
  <2> QED
    BY <1>1, <2>1 DEF Done
<1> QED
  BY <1>3, <1>4, <1>5, <1>6, <1>7

LEMMA DoneEnds ==
    ASSUME Inv, UNCHANGED input, Start \/ Abort \/ Kill
    PROVE  Done' = {}
<1>1. deletions' = deletions
  BY DEF input, deletions
<1>2. CASE Start
  <2>1. apc' = "delete" /\ todo' = deletions
    BY <1>2 DEF Start
  <2>2. Done' = deletions' \ todo'
    BY <2>1 DEF Done
  <2> QED
    BY <1>1, <2>1, <2>2
<1>3. CASE Abort \/ Kill
  <2>1. apc' \in {"failed", "killed"}
    BY <1>3 DEF Abort, Kill
  <2> QED
    BY <2>1 DEF Done
<1> QED
  BY <1>2, <1>3

\* The steps that are done with a change.
Handled ==
    \/ Delete \/ DeleteFails \/ AddDirectory \/ AddDirectoryFails
    \/ MakeLink \/ MakeLinkFails \/ ChangeMetadata \/ Persist \/ PersistFails

LEMMA HandledFinishes ==
    ASSUME Handled
    PROVE  Finishing
<1>1. /\ In("delete") \/ In("create") \/ In("content")
      /\ apc' = apc /\ todo' = todo \ {change}
  BY DEF Handled, Delete, DeleteFails, AddDirectory, AddDirectoryFails, MakeLink,
         MakeLinkFails, ChangeMetadata, Persist, PersistFails, Failed
<1> QED
  BY <1>1 DEF Finishing, Takes

LEMMA DoneStep ==
    ASSUME Inv, [ApplyNext]_applyVars
    PROVE  \/ (Start \/ Abort \/ Kill) /\ Done' = {}
           \/ Done' = Done /\ ~ Handled
           \/ Handled /\ Done' = Done \cup {change}
<1>1. UNCHANGED input
  BY InputStays
<1>2. CASE Handled
  BY <1>1, <1>2, HandledFinishes, DoneGrows
<1>3. CASE ~ Handled
  <2>1. \/ Start \/ Abort \/ Kill \/ UNCHANGED <<apc, todo>> \/ DeletionsDone
        \/ CreationsDone \/ ContentDone \/ RestoreTimes
    BY <1>3 DEF ApplyNext, Step, applyVars, Handled, Stamp, BeginWrite
  <2> QED
    BY <1>1, <1>3, <2>1, DoneStays, DoneEnds
<1> QED
  BY <1>2, <1>3

LEMMA DonePlanned == Inv => Done \subseteq changes
  BY PartsAre DEF Done

LEMMA NotTempPath ==
    ASSUME IsDiffed, NEW c \in changes, NEW d \in contents
    PROVE  c.path # TempPath(d.path) /\ ~ IsTemp(c.path)
<1>1. \E fs \in Trees : \E e \in fs : e.path = c.path
  BY ChangePath DEF IsDiffed
<1> QED
  BY <1>1, TempOfContent, TreesAre

\* What is settled stays so.
LEMMA SettledStays ==
    ASSUME Inv, [ApplyNext]_applyVars, NEW c \in Done, Settled(c)
    PROVE  Settled(c)'
<1>1. IsDiffed /\ after' = after /\ c \in changes
  BY InvDiffed, InputStays, DonePlanned DEF input
<1> SUFFICES IF c.op = "Removed" THEN \A e \in tree' : e.path = c.path => Right(e)
                                 ELSE \E e \in tree' : e.path = c.path /\ Right(e)
  BY <1>1 DEF Settled, Right
<1>2. CASE Restyled(tree, tree')
  BY <1>2 DEF Restyled, Settled, Right, Like, Kin
<1>3. CASE Moderate
  <2>1. PICK paths, dirs : /\ Touched(tree, tree', paths, dirs)
                           /\ Arrives(paths) /\ Departs(paths)
    BY <1>3 DEF Moderate
  <2>2. \A d \in contents : c.path # TempPath(d.path)
    BY <1>1, NotTempPath
  <2>3. CASE c.path \notin paths
    BY <2>1, <2>3 DEF Touched, Settled, Right, Same, Like, Kin
  <2>4. CASE c.path \in paths
    <3>1. \A e \in tree' : e.path = c.path => Right(e)
      BY <2>1, <2>2, <2>4 DEF Arrives, Finishes, Right
    <3>2. ASSUME c.op # "Removed"
          PROVE  \E e \in tree' : e.path = c.path
      <4>1. \/ \E e \in tree' : e.path = c.path
            \/ c.path = change.path /\ In("delete")
            \/ c.path = change.path /\ In("create") /\ change.op = "Modified"
        BY <2>1, <2>2, <2>4 DEF Departs
      <4>2. ~ In("delete")
        <5>1. Takes("delete") => \A d \in Done : d.op = "Removed"
          BY NotDone
        <5> QED
          BY <3>2, <5>1 DEF Takes
      <4>3. ~ (c.path = change.path /\ In("create") /\ change.op = "Modified")
        <5> SUFFICES ASSUME c.path = change.path, In("create"), change.op = "Modified"
                     PROVE  FALSE
          OBVIOUS
        <5>1. change \in changes /\ change \notin Done
          BY AtOf, NotDone DEF Takes
        <5>2. c = change
          BY <1>1, <3>2, <5>1, SoleChange
        <5> QED
          BY <5>1, <5>2
      <4> QED
        BY <4>1, <4>2, <4>3
    <3> QED
      BY <3>1, <3>2
  <2> QED
    BY <2>3, <2>4
<1> QED
  BY <1>2, <1>3, StepTouches

\* What the diff leaves somewhere: the entry of the new tree.
Leads(c, y) == y \in after /\ y.path = c.path

LEMMA LeadsSomewhere ==
    ASSUME IsDiffed, NEW c \in changes, c.op # "Removed"
    PROVE  \E y : Leads(c, y) /\ (c.op = "Added" => c.entry = y)
<1>1. CASE c.op = "Added"
  BY <1>1, AddedIs DEF Come, Leads
<1>2. CASE c.op = "Modified"
  BY <1>2, ModifiedTells DEF Stays, Says, Leads
<1> QED
  BY <1>1, <1>2, OpsAre

\* Directories of both trees are alike.
LEMMA CommonDirectory ==
    ASSUME IsDiffed, NEW x, NEW y, Stays(x, y), y.kind = "Directory"
    PROVE  Kin(x, y)
<1>1. Proper(x) /\ Proper(y)
  BY TreesAre DEF IsDiffed, Stays
<1> QED
  BY <1>1 DEF Stays, SamePlace, Proper, Kin

Repairs == Inv /\ TempsInv /\ BareInv /\ HalfwayInv /\ Faithful /\ \A c \in Done : Settled(c)

\* Where a phase puts something, the directory for it is there already.
LEMMA ParentThere ==
    ASSUME Repairs, NEW phase, In(phase), phase \in {"create", "content"},
           change.path # root
    PROVE  HasDirectory(tree, parent(change.path))
<1>1. PICK p \in Seq(Nat) : p = change.path
  BY AtChange DEF Repairs, Inv
<1>2. IsDiffed /\ after \in Trees /\ change \in changes /\ change.op # "Removed"
  BY InvDiffed, AtOf DEF Repairs, IsDiffed
<1>3. PICK y \in after : y.path = p
  BY <1>1, <1>2, LeadsSomewhere DEF Leads
<1>4. PICK d \in after : d.path = parent(p) /\ d.kind = "Directory"
  BY <1>1, <1>2, <1>3, TreesAre DEF Sound, IsTree, At
<1>5. CASE \E x : Stays(x, d)
  <2>1. PICK x : Stays(x, d)
    BY <1>5
  <2>2. Kin(x, d) /\ x \in before
    BY <1>2, <1>4, <2>1, CommonDirectory DEF Stays
  <2>3. \E e \in tree : Kin(e, d)
    BY <2>2 DEF Repairs, HalfwayInv
  <2> QED
    BY <1>1, <1>4, <2>3 DEF Kin, HasDirectory
<1>6. CASE ~ \E x : Stays(x, d)
  <2>1. Come(d)
    BY <1>6 DEF Come, Stays
  <2>2. PICK c \in changes : c.op = "Added" /\ c.path = d.path /\ c.entry = d
    BY <1>2, <2>1, ComeIsAdded
  <2>3. ~ c.has_content
    BY <1>2, <1>4, <2>2, AddedIs
  <2>4. c \in items
    BY <2>2, <2>3 DEF items, HasContent
  <2>5. c \in Done
    <3>1. CASE phase = "content"
      BY <2>4, <3>1 DEF In, Done
    <3>2. CASE phase = "create"
      <4> SUFFICES ASSUME c \in todo PROVE FALSE
        BY <2>4, <3>2 DEF In, Done
      <4>1. change \in Current /\ apc = "create"
        BY <3>2 DEF change, In
      <4>2. p # root /\ Len(parent(p)) = Len(p) - 1 /\ Len(p) \in Nat
        BY <1>1, ParentIs
      <4>3. PICK m, n : m = Len(change.path) /\ n = Len(c.path)
        OBVIOUS
      <4>4. m = Len(p) /\ n = Len(p) - 1
        BY <1>1, <1>4, <2>2, <4>2, <4>3
      <4>5. c # change
        <5>1. c.path = parent(p) /\ parent(p) # p
          BY <1>4, <2>2, <4>2, Paths
        <5> QED
          BY <1>1, <5>1
      <4>6. Earlier(change, c)
        BY <4>1, <4>5 DEF Current
      <4>7. m < n
        BY <4>1, <4>2, <4>3, <4>4, <4>6 DEF Earlier
      <4> QED
        BY <4>2, <4>4, <4>7
    <3> QED
      BY <3>1, <3>2
  <2>6. PICK e \in tree : e.path = c.path /\ Right(e)
    BY <2>2, <2>5 DEF Repairs, Settled
  <2>7. e.kind = "Directory"
    BY <1>2, <1>4, <2>2, <2>6, OneAfter DEF Right, Kin
  <2> QED
    BY <1>1, <1>4, <2>2, <2>6, <2>7 DEF HasDirectory
<1> QED
  BY <1>5, <1>6

\* What is not of the new tree is what the old one had there, and after the
\* deletions, the new one has of that kind.
LEMMA StillOld ==
    ASSUME Repairs, NEW e \in tree, ~ IsTemp(e.path), ~ Right(e)
    PROVE  \E x \in before : Kin(e, x) /\ (apc \in {"create", "content", "times", "done"} => ~ Gone(x))
<1>1. PICK x \in before : Kin(e, x)
  BY DEF Repairs, HalfwayInv, WasOld
<1>2. ASSUME apc \in {"create", "content", "times", "done"}, Gone(x)
      PROVE  FALSE
  <2>1. PICK c \in changes : c.op = "Removed" /\ c.path = x.path
    BY <1>2, GoneIsRemoved, InvDiffed DEF Repairs
  <2>2. c \in Done
    BY <1>2, <2>1 DEF Done, deletions
  <2>3. Right(e)
    BY <1>1, <2>1, <2>2 DEF Repairs, Settled, Kin
  <2> QED
    BY <2>3
<1> QED
  BY <1>1, <1>2

----------------------------------------------------------------------------
(* What fails for no other reason than what is there.                      *)

LEMMA InDirectory ==
    ASSUME Inv, NEW e \in tree, e.path # root
    PROVE  HasDirectory(tree, parent(e.path))
  BY DEF Inv, Sound, IsTree, At, HasDirectory

LEMMA MayWrite ==
    ASSUME privileged, NEW p, HasDirectory(tree, p)
    PROVE  WritableDir(tree, p)
  BY DEF HasDirectory, WritableDir, At

\* The directory of something underneath a path of the new tree, or of a
\* tempfile there, is one in the new tree.
LEMMA AboveNew ==
    ASSUME IsDiffed, NEW p \in Seq(Nat), NEW q \in Seq(Nat), contains(p, q),
           \/ \E y \in after : y.path = q
           \/ \E c \in contents : q = TempPath(c.path)
    PROVE  HasDirectory(after, p)
<1>1. after \in Trees
  BY DEF IsDiffed
<1>2. ASSUME NEW y \in after, y.path \in Seq(Nat), contains(p, y.path)
      PROVE  HasDirectory(after, p)
  <2>1. Len(p) \in 0 .. Len(y.path) - 1 /\ p = SubSeq(y.path, 1, Len(p))
    BY <1>2, Paths
  <2>2. PICK n \in 0 .. Len(y.path) - 1 : p = SubSeq(y.path, 1, n)
    BY <2>1
  <2> QED
    BY <1>1, <2>2, TreesAre, Ancestors
<1>3. CASE \E y \in after : y.path = q
  BY <1>2, <1>3
<1>4. CASE \E c \in contents : q = TempPath(c.path)
  <2>1. PICK c \in contents : q = TempPath(c.path)
    BY <1>4
  <2>2. PICK y \in after : y.path = c.path /\ y.kind = "File"
    BY <2>1, TempOfContent
  <2>3. y.path \in Seq(Nat) /\ parent(q) = parent(y.path)
    BY <1>1, <2>1, <2>2, TreesAre, TempOfContent DEF Proper
  <2>4. y.path # root
    <3>1. HasDirectory(after, root)
      BY <1>1, TreesAre
    <3>2. PICK d \in after : d.path = root /\ d.kind = "Directory"
      BY <3>1 DEF HasDirectory
    <3> QED
      BY <2>2, <3>2, OneAfter
  <2>5. parent(q) = p \/ contains(p, parent(q))
    BY ParentBelow
  <2>6. PICK d \in after : d.path = parent(q) /\ d.kind = "Directory"
    BY <1>1, <2>3, <2>4, TreesAre DEF Sound, IsTree, At
  <2>7. CASE parent(q) = p
    BY <2>6, <2>7 DEF HasDirectory
  <2>8. CASE contains(p, parent(q))
    <3>1. d.path \in Seq(Nat)
      BY <1>1, <2>6, TreesAre DEF Proper
    <3> QED
      BY <1>2, <2>6, <2>8, <3>1
  <2> QED
    BY <2>5, <2>7, <2>8
<1> QED
  BY <1>3, <1>4

\* A directory that cannot be removed has something in it, and so it is one
\* of the new tree, or something in it was to go before it did.
LEMMA DeleteSettles ==
    ASSUME Repairs, privileged, In("delete"),
           ~ Removable(tree, change.path, change.kind)
    PROVE  Settled(change)
<1>1. PICK p \in Seq(Nat) : p = change.path /\ ~ IsTemp(p)
  BY AtChange DEF Repairs, Inv
<1>2. /\ IsDiffed /\ after \in Trees /\ before \in Trees
      /\ change \in changes /\ change.op = "Removed"
  BY InvDiffed, AtOf DEF Repairs, IsDiffed
<1>3. PICK x : Gone(x) /\ p = x.path /\ change.kind = x.kind
  BY <1>1, <1>2, RemovedIs
<1> SUFFICES ASSUME NEW e \in tree, e.path = p, ~ Right(e)
             PROVE  FALSE
  BY <1>1, <1>2 DEF Settled
<1>4. Kin(e, x)
  <2>1. PICK z \in before : Kin(e, z)
    BY <1>1, StillOld
  <2>2. z = x
    BY <1>2, <1>3, <2>1, OneBefore DEF Gone, Kin
  <2> QED
    BY <2>1, <2>2
<1>5. p # root
  <2> SUFFICES ASSUME p = root PROVE FALSE
    OBVIOUS
  <2>1. HasDirectory(before, root) /\ HasDirectory(after, root)
    BY <1>2, TreesAre
  <2>2. PICK d \in before : d.path = root /\ d.kind = "Directory"
    BY <2>1 DEF HasDirectory
  <2>3. d = x
    BY <1>2, <1>3, <2>2, OneBefore DEF Gone
  <2> QED
    BY <1>3, <2>1, <2>2, <2>3 DEF HasDirectory, Gone, SamePlace
<1>6. WritableDir(tree, parent(p))
  BY <1>5, InDirectory, MayWrite DEF Repairs
<1>7. x.kind = "Directory" /\ \E f \in tree : contains(p, f.path)
  BY <1>1, <1>3, <1>4, <1>6 DEF Removable, At, Kin
<1>8. PICK f \in tree : contains(p, f.path)
  BY <1>7
<1>9. f.path \in Seq(Nat)
  BY DEF Repairs, Inv, Sound, IsEntry
<1>10. ~ HasDirectory(after, p)
  BY <1>3, <1>7 DEF HasDirectory, Gone, SamePlace
<1>11. /\ \A y \in after : y.path # f.path
       /\ \A c \in contents : f.path # TempPath(c.path)
  BY <1>2, <1>8, <1>9, <1>10, AboveNew
<1>12. ~ IsTemp(f.path)
  BY <1>11 DEF Repairs, TempsInv
<1>13. ~ Right(f)
  BY <1>11 DEF Right, Kin
<1>14. PICK z \in before : Kin(f, z)
  BY <1>12, <1>13, StillOld
<1>15. Gone(z)
  BY <1>11, <1>14 DEF Gone, SamePlace, Kin
<1>16. PICK c \in changes : c.op = "Removed" /\ c.path = z.path
  BY <1>2, <1>15, GoneIsRemoved
<1>17. c \in Done
  <2> SUFFICES ASSUME c \in todo PROVE FALSE
    BY <1>16 DEF In, Done, deletions
  <2>1. change \in Current /\ apc = "delete"
    BY DEF change, In
  <2>2. c.path = f.path
    BY <1>14, <1>16 DEF Kin
  <2>3. PICK m, n : m = Len(change.path) /\ n = Len(c.path)
    OBVIOUS
  <2>4. m \in Nat /\ n \in Nat /\ m < n
    BY <1>1, <1>8, <1>9, <2>2, <2>3, ContainsIs
  <2>5. c # change
    BY <2>3, <2>4
  <2>6. Earlier(change, c)
    BY <2>1, <2>5 DEF Current
  <2>7. m > n
    BY <2>1, <2>3, <2>4, <2>6 DEF Earlier
  <2> QED
    BY <2>4, <2>7
<1>18. Right(f)
  BY <1>14, <1>16, <1>17 DEF Repairs, Settled, Kin
<1> QED
  BY <1>13, <1>18

LEMMA NotTheRoot ==
    ASSUME IsDiffed, NEW y \in after, y.path = root
    PROVE  y.kind = "Directory" /\ \E x : Stays(x, y)
<1>1. HasDirectory(before, root) /\ HasDirectory(after, root)
  BY TreesAre DEF IsDiffed
<1>2. PICK x \in before : x.path = root /\ x.kind = "Directory"
  BY <1>1 DEF HasDirectory
<1>3. PICK d \in after : d.path = root /\ d.kind = "Directory"
  BY <1>1 DEF HasDirectory
<1>4. d = y
  BY <1>3, OneAfter
<1> QED
  BY <1>2, <1>3, <1>4 DEF Stays, SamePlace

\* create_dir_all makes one directory, if the one for it is there.
LEMMA LackingOnly ==
    ASSUME Inv, NEW p \in Seq(Nat), HasDirectory(tree, parent(p))
    PROVE  Lacking(p) \subseteq {p} /\ (p \notin Lacking(p) => \E e \in tree : e.path = p)
<1>1. ASSUME NEW q \in Lacking(p)
      PROVE  q = p
  <2>1. PICK n \in 0 .. Len(p) : q = SubSeq(p, 1, n) /\ At(tree, q) = {}
    BY DEF Lacking
  <2>2. CASE n = Len(p)
    BY <2>1, <2>2
  <2>3. CASE n # Len(p)
    <3>1. p # root
      <4>1. Len(p) # 0
        BY <2>3
      <4> QED
        BY <4>1 DEF root
    <3>2. parent(p) = SubSeq(p, 1, Len(p) - 1) /\ Len(p) \in Nat \ {0}
      BY <3>1, Paths
    <3>3. Len(p) - 1 \in 0 .. Len(p) /\ n \in 0 .. Len(p) - 1
      BY <2>3, <3>2
    <3>4. At(tree, parent(p)) # {}
      BY DEF HasDirectory, At
    <3>5. At(tree, SubSeq(p, 1, n)) # {}
      BY <3>2, <3>3, <3>4, AncestorsThere DEF Inv
    <3> QED
      BY <2>1, <3>5
  <2> QED
    BY <2>2, <2>3
<1>2. ASSUME p \notin Lacking(p)
      PROVE  \E e \in tree : e.path = p
  <2>1. p = SubSeq(p, 1, Len(p)) /\ Len(p) \in 0 .. Len(p)
    OBVIOUS
  <2>2. At(tree, p) # {}
    BY <1>2, <2>1 DEF Lacking
  <2> QED
    BY <2>2 DEF At
<1> QED
  BY <1>1, <1>2

\* Nothing stands where a directory is to come, or it is that directory.
LEMMA AddDirectoryPossible ==
    ASSUME Repairs, privileged, In("create"), AddsDirectory
    PROVE  /\ Creatable(change.path) /\ Lacking(change.path) \subseteq {change.path}
           /\ \A e \in tree : e.path = change.path => Right(e)
<1>1. PICK p \in Seq(Nat) : p = change.path /\ ~ IsTemp(p)
  BY AtChange DEF Repairs, Inv
<1>2. IsDiffed /\ change \in changes /\ change.op = "Added"
  BY InvDiffed, AtOf DEF Repairs, AddsDirectory
<1>3. PICK y : y = change.entry
  OBVIOUS
<1>4. Come(y) /\ y.path = p /\ y.kind = "Directory"
  BY <1>1, <1>2, <1>3, AddedIs DEF AddsDirectory
<1>5. p # root
  BY <1>2, <1>4, NotTheRoot DEF Come, Stays
<1>6. HasDirectory(tree, parent(p))
  BY <1>1, <1>5, ParentThere
<1>7. Lacking(p) \subseteq {p} /\ (p \notin Lacking(p) => \E e \in tree : e.path = p)
  BY <1>6, LackingOnly DEF Repairs
<1>8. ASSUME NEW e \in tree, e.path = p
      PROVE  Right(e)
  <2> SUFFICES ASSUME ~ Right(e) PROVE FALSE
    OBVIOUS
  <2>1. PICK x \in before : Kin(e, x) /\ ~ Gone(x)
    BY <1>1, <1>8, StillOld DEF In
  <2>2. PICK z \in after : SamePlace(x, z)
    BY <2>1 DEF Gone
  <2>3. z = y
    BY <1>2, <1>4, <1>8, <2>1, <2>2, OneAfter DEF SamePlace, Kin, Come
  <2> QED
    BY <1>4, <2>1, <2>2, <2>3 DEF Come
<1>9. Creatable(p)
  <2>1. CASE Lacking(p) = {}
    <3>1. PICK e \in tree : e.path = p
      BY <1>7, <2>1
    <3>2. e.kind = "Directory"
      BY <1>2, <1>4, <1>8, <3>1, OneAfter DEF Right, Kin, Come
    <3> QED
      BY <2>1, <3>1, <3>2 DEF Creatable, At
  <2>2. CASE Lacking(p) # {}
    <3>1. p \in Lacking(p)
      BY <1>7, <2>2
    <3>2. WritableDir(tree, parent(p))
      BY <1>6, MayWrite
    <3> QED
      BY <2>2, <3>1, <3>2 DEF Creatable
  <2> QED
    BY <2>1, <2>2
<1> QED
  BY <1>1, <1>7, <1>8, <1>9

\* A link has nothing in its way that could be removed, but itself.
LEMMA LinkPossible ==
    ASSUME Repairs, privileged, In("create"), MakesLink, ~ Linkable
    PROVE  /\ change.op = "Added" /\ Cleared = tree
           /\ Settled(change) /\ \E e \in tree : e.path = change.path
<1>1. PICK p \in Seq(Nat) : p = change.path /\ ~ IsTemp(p)
  BY AtChange DEF Repairs, Inv
<1>2. /\ IsDiffed /\ change \in changes /\ change.op \in {"Added", "Modified"}
      /\ change.path = p
  BY <1>1, InvDiffed, AtOf DEF Repairs
<1>3. \E y \in after : y.path = p /\ y.kind = "Symlink"
  <2>1. CASE change.op = "Added"
    BY <1>2, <2>1, AddedIs DEF MakesLink, Come
  <2>2. CASE change.op = "Modified"
    BY <1>2, <2>2, ModifiedTells DEF MakesLink, Says, Stays
  <2> QED
    BY <1>2, <2>1, <2>2
<1>4. p # root
  BY <1>2, <1>3, NotTheRoot
<1>5. WritableDir(tree, parent(p))
  BY <1>2, <1>4, ParentThere, MayWrite
<1>6. \E e \in Cleared : e.path = p
  BY <1>2, <1>5 DEF Linkable, At
<1>7. /\ Cleared = tree \/ (Lacks(Cleared, p) /\ change.op = "Modified")
      /\ change.op = "Modified" /\ Removable(tree, p, "Symlink") => Lacks(Cleared, p)
  BY <1>2, ClearedTouches DEF Repairs
<1>8. Cleared = tree
  BY <1>6, <1>7 DEF Lacks
<1>9. PICK e \in tree : e.path = p
  BY <1>6, <1>8
<1>10. change.op # "Modified"
  <2> SUFFICES ASSUME change.op = "Modified" PROVE FALSE
    OBVIOUS
  <2>1. PICK x, y : Stays(x, y) /\ Says(change, x, y)
    BY <1>2, ModifiedTells
  <2>2. y.kind = "Symlink" /\ x.kind = "Symlink" /\ x.path = p /\ y.path = p
    BY <1>2, <2>1 DEF MakesLink, Says, Stays, SamePlace
  <2>3. Right(e) \/ WasOld(e)
    BY <1>1, <1>9 DEF Repairs, HalfwayInv
  <2>4. e.kind = "Symlink"
    BY <1>2, <1>9, <2>1, <2>2, <2>3, OneBefore, OneAfter DEF Right, WasOld, Kin, Stays
  <2>5. Removable(tree, p, "Symlink")
    BY <1>5, <1>9, <2>4 DEF Removable, At
  <2> QED
    BY <1>6, <1>7, <2>5 DEF Lacks
<1>11. change.op = "Added"
  BY <1>2, <1>10
<1>12. Right(e)
  <2> SUFFICES ASSUME ~ Right(e) PROVE FALSE
    OBVIOUS
  <2>1. PICK x \in before : Kin(e, x) /\ ~ Gone(x)
    BY <1>1, <1>9, StillOld DEF In
  <2>2. PICK z \in after : SamePlace(x, z)
    BY <2>1 DEF Gone
  <2>3. PICK y : y = change.entry
    OBVIOUS
  <2>4. Come(y) /\ y.path = p
    BY <1>2, <1>11, <2>3, AddedIs
  <2>5. z = y
    BY <1>2, <1>9, <2>1, <2>2, <2>4, OneAfter DEF SamePlace, Kin, Come
  <2> QED
    BY <2>1, <2>2, <2>4, <2>5 DEF Come
<1>13. Settled(change)
  BY <1>2, <1>9, <1>11, <1>12 DEF Settled
<1> QED
  BY <1>2, <1>8, <1>9, <1>11, <1>13

\* A file can be written wherever one is to be.
LEMMA WritePossible ==
    ASSUME Repairs, privileged, In("content")
    PROVE  WritableDir(tree, parent(change.path)) /\ Persistable
<1>1. PICK p \in Seq(Nat) : p = change.path /\ ~ IsTemp(p)
  BY AtChange DEF Repairs, Inv
<1>2. IsDiffed /\ change \in changes /\ change \in contents
  BY InvDiffed, AtOf DEF Repairs
<1>3. PICK y \in after : y.path = p /\ y.kind = "File"
  BY <1>1, <1>2, TempOfContent
<1>4. p # root
  BY <1>2, <1>3, NotTheRoot
<1>5. WritableDir(tree, parent(p))
  BY <1>1, <1>4, ParentThere, MayWrite
<1>6. ASSUME NEW e \in tree, e.path = p
      PROVE  e.kind # "Directory"
  <2>1. CASE Right(e)
    BY <1>2, <1>3, <1>6, <2>1, OneAfter DEF Right, Kin
  <2>2. CASE ~ Right(e)
    <3>1. PICK x \in before : Kin(e, x) /\ ~ Gone(x)
      BY <1>1, <1>6, <2>2, StillOld DEF In
    <3>2. PICK z \in after : SamePlace(x, z)
      BY <3>1 DEF Gone
    <3>3. z = y
      BY <1>2, <1>3, <1>6, <3>1, <3>2, OneAfter DEF SamePlace, Kin
    <3> QED
      BY <1>3, <3>1, <3>2, <3>3 DEF SamePlace, Kin
  <2> QED
    BY <2>1, <2>2
<1> QED
  BY <1>1, <1>5, <1>6 DEF Persistable, At

\* What a change of metadata changes is of the new tree.
LEMMA ChangeMetadataSettles ==
    ASSUME Repairs, ChangeMetadata
    PROVE  Settled(change)
<1>1. IsDiffed /\ change \in changes /\ ~ change.has_content
  BY InvDiffed, AtOf DEF Repairs, ChangeMetadata
<1>2. change.op = "Modified" /\ change.new_symlink_target = None
  BY DEF ChangeMetadata, MakesLink
<1>3. PICK x, y : Stays(x, y) /\ Says(change, x, y)
  BY <1>1, <1>2, ModifiedTells
<1>4. Kin(x, y) /\ x \in before /\ y \in after /\ y.path = change.path
  BY <1>1, <1>2, <1>3 DEF Says, Stays, SamePlace, Kin
<1>5. PICK e \in tree : Kin(e, y)
  BY <1>4 DEF Repairs, HalfwayInv
<1> QED
  BY <1>2, <1>4, <1>5 DEF Settled, Right, Kin

\* While no fault falls into a run, what fails has a reason.
LEMMA Unfaulted ==
    ASSUME runs \in Nat, [ApplyNext]_applyVars, ~ Start, faulted' < runs'
    PROVE  /\ runs' = runs /\ faulted' = faulted /\ ~ Kill
           /\ DeleteFails => ~ Removable(tree, change.path, change.kind)
           /\ AddDirectoryFails => ~ Creatable(change.path)
           /\ MakeLinkFails => ~ Linkable
           /\ Abort => ~ (temp # None \/ WritableDir(tree, parent(change.path)))
           /\ PersistFails => ~ Persistable
           /\ (Stamp \/ RestoreTimes) /\ privileged => unstamped' = unstamped
<1>1. runs' = runs
  BY DEF ApplyNext, Step, applyVars, Stamp, Delete, DeleteFails, DeletionsDone,
         NextPhase, AddDirectory, AddDirectoryFails, MakeLink, MakeLinkFails,
         ChangeMetadata, CreationsDone, BeginWrite, Abort, Persist, PersistFails,
         ContentDone, RestoreTimes, Kill, Failed
<1>2. ~ Fault
  BY <1>1 DEF Fault
<1>3. \A admitted \in BOOLEAN : Fails(admitted) => ~ admitted /\ faulted' = faulted
  BY <1>2 DEF Fails
<1>4. ~ Kill
  BY <1>2 DEF Kill
<1>5. DeleteFails => ~ Removable(tree, change.path, change.kind) /\ faulted' = faulted
  BY <1>2 DEF DeleteFails, Fails
<1>6. AddDirectoryFails => ~ Creatable(change.path) /\ faulted' = faulted
  BY <1>2 DEF AddDirectoryFails, Fails
<1>7. MakeLinkFails => ~ Linkable /\ faulted' = faulted
  BY <1>2 DEF MakeLinkFails, Fails
<1>8. Abort => /\ ~ (temp # None \/ WritableDir(tree, parent(change.path)))
               /\ faulted' = faulted
  BY <1>2 DEF Abort, Fails
<1>9. PersistFails => ~ Persistable /\ faulted' = faulted
  BY <1>2 DEF PersistFails, Fails
<1>10. Stamp \/ RestoreTimes =>
          /\ faulted' = faulted
          /\ privileged => unstamped' = unstamped
  BY <1>2 DEF Stamp, RestoreTimes, Warns, Fails
<1>11. faulted' = faulted
  <2>1. CASE Delete \/ AddDirectory \/ MakeLink \/ BeginWrite \/ Persist
    BY <2>1 DEF Delete, AddDirectory, MakeLink, BeginWrite, Persist, Succeeds
  <2>2. CASE DeletionsDone \/ ChangeMetadata \/ CreationsDone
             \/ ContentDone \/ UNCHANGED applyVars
    BY <2>2 DEF DeletionsDone, ChangeMetadata, CreationsDone, ContentDone,
                NextPhase, applyVars
  <2> QED
    BY <1>4, <1>5, <1>6, <1>7, <1>8, <1>9, <1>10, <2>1, <2>2 DEF ApplyNext, Step
<1> QED
  BY <1>1, <1>4, <1>5, <1>6, <1>7, <1>8, <1>9, <1>10, <1>11

\* A change that was handled without a fault is settled.
LEMMA HandledSettles ==
    ASSUME Repairs, privileged, runs \in Nat, faulted' < runs',
           [ApplyNext]_applyVars, ~ Start, Handled, NEW c, c = change
    PROVE  IF c.op = "Removed" THEN \A e \in tree' : e.path = c.path => Right(e)
                               ELSE \E e \in tree' : e.path = c.path /\ Right(e)
<1>1. Inv /\ IsDiffed
  BY InvDiffed DEF Repairs
<1>2. tree' = tree /\ Settled(c) =>
        IF c.op = "Removed" THEN \A e \in tree' : e.path = c.path => Right(e)
                            ELSE \E e \in tree' : e.path = c.path /\ Right(e)
  BY DEF Settled
<1>3. CASE Delete
  <2>1. Lacks(tree', c.path)
    BY <1>1, <1>3, DeleteTouches
  <2>2. c.op = "Removed"
    BY <1>1, <1>3, AtOf DEF Delete
  <2> QED
    BY <2>1, <2>2 DEF Lacks
<1>4. CASE DeleteFails
  BY <1>2, <1>4, Unfaulted, DeleteSettles DEF DeleteFails
<1>5. CASE AddDirectory
  <2>1. PICK p \in Seq(Nat) : p = c.path
    BY <1>1, <1>5, AtChange DEF Inv, AddDirectory
  <2>2. In("create") /\ AddsDirectory
    BY <1>5 DEF AddDirectory
  <2>3. \A e \in tree : e.path = p => Right(e)
    BY <2>1, <2>2, AddDirectoryPossible
  <2>4. PICK paths, dirs : /\ paths = Lacking(c.path)
                           /\ dirs = {parent(q) : q \in Lacking(c.path)}
    OBVIOUS
  <2>5. Touched(tree, tree', paths, dirs)
    BY <1>1, <1>5, <2>4, AddDirectoryTouches
  <2>6. \A q \in paths : \E e \in tree', y \in after : e.path = q /\ Finishes(e, y)
    BY <1>1, <1>5, <2>4, AddDirectoryMakes
  <2>7. \E e \in tree' : e.path = p /\ Right(e)
    <3>1. CASE p \in paths
      BY <2>6, <3>1 DEF Finishes, Right
    <3>2. CASE p \notin paths
      <4>1. p = SubSeq(p, 1, Len(p)) /\ Len(p) \in 0 .. Len(p)
        OBVIOUS
      <4>2. At(tree, p) # {}
        BY <2>1, <2>4, <3>2, <4>1 DEF Lacking
      <4>3. PICK e \in tree : e.path = p
        BY <4>2 DEF At
      <4>4. Right(e)
        BY <2>3, <4>3
      <4> QED
        BY <2>5, <3>2, <4>3, <4>4 DEF Touched, Same, Like, Right, Kin
    <3> QED
      BY <3>1, <3>2
  <2> QED
    BY <2>1, <2>2, <2>7 DEF AddsDirectory
<1>6. CASE AddDirectoryFails
  BY <1>6, Unfaulted, AddDirectoryPossible DEF AddDirectoryFails
<1>7. CASE MakeLink
  <2>1. c.op # "Removed"
    BY <1>7 DEF MakeLink, MakesLink
  <2> QED
    BY <1>1, <1>7, <2>1, MakeLinkMakes DEF Finishes, Right, Kin
<1>8. CASE MakeLinkFails
  <2>1. In("create") /\ MakesLink /\ tree' \in {tree, Cleared}
    BY <1>8 DEF MakeLinkFails
  <2>2. Cleared = tree /\ Settled(c)
    BY <1>8, <2>1, Unfaulted, LinkPossible
  <2> QED
    BY <1>2, <2>1, <2>2
<1>9. CASE ChangeMetadata
  BY <1>2, <1>9, ChangeMetadataSettles DEF ChangeMetadata
<1>10. CASE Persist
  <2>1. c.op # "Removed"
    BY <1>1, <1>10, AtOf DEF Persist
  <2> QED
    BY <1>1, <1>10, <2>1, PersistMakes DEF Finishes, Right, Kin
<1>11. CASE PersistFails
  BY <1>11, Unfaulted, WritePossible DEF PersistFails
<1> QED
  BY <1>3, <1>4, <1>5, <1>6, <1>7, <1>8, <1>9, <1>10, <1>11 DEF Handled

LEMMA SettledStep ==
    ASSUME Inv, TempsInv, BareInv, HalfwayInv, SettledInv, runs \in Nat,
           [ApplyNext]_applyVars
    PROVE  SettledInv'
<1>1. UNCHANGED <<before, after, present, privileged>>
  BY InputStays DEF input
<1> SUFFICES ASSUME Faithful, privileged, faulted' < runs', NEW c \in Done'
             PROVE  IF c.op = "Removed" THEN \A e \in tree' : e.path = c.path => Right(e)
                                        ELSE \E e \in tree' : e.path = c.path /\ Right(e)
  BY <1>1 DEF SettledInv, Settled, Right, Faithful
<1>2. ~ Start /\ ~ Abort /\ ~ Kill
  BY DoneStep, InputStays, DoneEnds
<1>3. runs' = runs /\ faulted' = faulted
  BY <1>2, Unfaulted
<1>4. Repairs
  BY <1>3 DEF Repairs, SettledInv
<1>5. CASE c \in Done
  <2>1. Settled(c)
    BY <1>4, <1>5 DEF Repairs
  <2>2. Settled(c)'
    BY <1>5, <2>1, SettledStays
  <2> QED
    BY <1>1, <2>2 DEF Settled, Right
<1>6. CASE c \notin Done
  <2>1. Handled /\ c = change
    BY <1>2, <1>6, DoneStep
  <2> QED
    BY <1>2, <1>4, <2>1, HandledSettles
<1> QED
  BY <1>5, <1>6

LEMMA OutcomeHolds ==
    ApplySpec => [](TempsInv /\ BareInv /\ HalfwayInv /\ SettledInv)
<1>1. ApplyInit => TempsInv /\ BareInv /\ HalfwayInv /\ SettledInv
  <2>1. ApplyInit => Done = {}
    BY DEF ApplyInit, Done
  <2> QED
    BY <2>1, TempsInit DEF SettledInv
<1>2. ASSUME Inv, TimesInv, TempsInv /\ BareInv /\ HalfwayInv /\ SettledInv,
             [ApplyNext]_applyVars
      PROVE  (TempsInv /\ BareInv /\ HalfwayInv /\ SettledInv)'
  BY <1>2, TempsStep, HalfwayStep, SettledStep DEF TimesInv
<1> QED
  BY <1>1, <1>2, InvHolds, TimesHold, PTL DEF ApplySpec

\* What is the same in both trees, but for the metadata, is of one content;
\* anything else has its change.
LEMMA KinOrChanged ==
    ASSUME IsDiffed, NEW x, NEW y, Stays(x, y)
    PROVE  Kin(x, y) \/ \E c \in changes : c.op = "Modified" /\ c.path = y.path
<1>1. Equivalent(x, y) => Kin(x, y)
  BY DEF Equivalent, Stays, SamePlace, Kin
<1> QED
  BY <1>1, DifferIsModified

LEMMA Repaired ==
    ASSUME Repairs, apc = "done"
    PROVE  /\ \A e \in tree : ~ IsTemp(e.path) => Right(e)
           /\ \A y \in after : \E e \in tree : Kin(e, y)
<1>1. IsDiffed /\ Sound(tree)
  BY InvDiffed DEF Repairs, Inv
<1>2. \A c \in changes : Settled(c)
  BY DEF Repairs, Done
<1>3. ASSUME NEW y \in after
      PROVE  \E e \in tree : Kin(e, y)
  <2>1. ASSUME NEW c \in changes, c.op # "Removed", c.path = y.path
        PROVE  \E e \in tree : Kin(e, y)
    <3>1. PICK e \in tree : e.path = y.path /\ Right(e)
      BY <1>2, <2>1 DEF Settled
    <3> QED
      BY <1>1, <3>1, OneAfter DEF Right, Kin
  <2>2. CASE Come(y)
    BY <1>1, <2>1, <2>2, ComeIsAdded
  <2>3. CASE ~ Come(y)
    <3>1. PICK x : Stays(x, y)
      BY <2>3 DEF Come, Stays
    <3>2. CASE Kin(x, y)
      BY <3>1, <3>2 DEF Repairs, HalfwayInv, Stays
    <3>3. CASE ~ Kin(x, y)
      BY <1>1, <2>1, <3>1, <3>3, KinOrChanged
    <3> QED
      BY <3>2, <3>3
  <2> QED
    BY <2>2, <2>3
<1>4. ASSUME NEW e \in tree, ~ IsTemp(e.path), ~ Right(e)
      PROVE  FALSE
  <2>1. PICK x \in before : Kin(e, x) /\ ~ Gone(x)
    BY <1>4, StillOld
  <2>2. PICK y \in after : SamePlace(x, y)
    BY <2>1 DEF Gone
  <2>3. PICK f \in tree : Kin(f, y)
    BY <1>3
  <2>4. f = e
    BY <1>1, <2>1, <2>2, <2>3, OfOnePath DEF SamePlace, Kin
  <2> QED
    BY <1>4, <2>3, <2>4 DEF Right
<1> QED
  BY <1>3, <1>4

\* Any run without a fault, after whatever runs that failed or were killed
\* anywhere, leaves all entries, contents and link targets of the new tree
\* and, but for tempfiles of killed runs, nothing else, if the target was
\* faithful before the first of them and the user may write to any directory:
\* run_apply, for every tree, diff and number of runs.
THEOREM RerunRepairsAll == ApplySpec => []RerunRepairs
<1>1. ASSUME Inv, TempsInv /\ BareInv /\ HalfwayInv /\ SettledInv
      PROVE  RerunRepairs
  <2> SUFFICES ASSUME Faithful, privileged, apc = "done", faulted < runs
               PROVE  Contents({e \in tree : e.path = root \/ Last(e.path) # Temp})
                        = Contents(after)
    BY DEF RerunRepairs
  <2>1. Repairs
    BY <1>1 DEF Repairs, SettledInv
  <2>2. PICK lasting : lasting = {e \in tree : e.path = root \/ Last(e.path) # Temp}
    OBVIOUS
  <2>3. lasting = {e \in tree : ~ IsTemp(e.path)}
    BY <2>2 DEF IsTemp
  <2>4. after \in Trees
    BY InvDiffed, <1>1 DEF IsDiffed
  <2>5. /\ \A e \in lasting : \E y \in after : Kin(e, y)
        /\ \A y \in after : \E e \in lasting : Kin(e, y)
    <3>1. \A y \in after : ~ IsTemp(y.path)
      BY <2>4, TreesAre
    <3> QED
      BY <2>1, <2>3, <3>1, Repaired DEF Right, Kin
  <2> DEFINE content(e) == [path |-> e.path, kind |-> e.kind, hash |-> e.hash,
                            symlink_target |-> e.symlink_target]
  <2>6. \A e, y : Kin(e, y) => content(e) = content(y)
    BY DEF Kin
  <2>7. Contents(lasting) = {content(e) : e \in lasting}
    BY DEF Contents
  <2>8. Contents(after) = {content(y) : y \in after}
    BY DEF Contents
  <2> HIDE DEF content
  <2>9. Contents(lasting) = Contents(after)
    BY <2>5, <2>6, <2>7, <2>8
  <2> QED
    BY <2>2, <2>9
<1> QED
  BY <1>1, InvHolds, OutcomeHolds, PTL

----------------------------------------------------------------------------
(* A first run that reports no error, over a target that suits the diff,   *)
(* whether or not it was refused metadata.                                 *)

Parents == {parent(c.path) : c \in {c \in changes : c.path # root}}

\* A change whose path has its content from it.
Rewrites(c) == c.op = "Added" \/ c.has_content \/ c.new_symlink_target # None

\* What the diff takes for granted is there, as it is in the new tree.
Suited ==
    /\ \A f \in present : f.path \notin ChangedPaths =>
         \E y \in after : Kin(f, y) /\ (f.path \in implicit_dirs \/ matches(f.metadata, y.metadata))
    /\ \A y \in after : y.path \notin ChangedPaths => \E f \in present : f.path = y.path
    /\ \A c \in changes : c.op = "Modified" =>
         \E f \in present, y \in after :
            /\ f.path = c.path /\ y.path = c.path /\ f.kind = y.kind
            /\ ~ Rewrites(c) => Kin(f, y)

\* A path of the diff that the new tree has, has a change that puts it there.
LEMMA PutThere ==
    ASSUME IsDiffed, NEW y \in after, y.path \in ChangedPaths
    PROVE  \E c \in changes : c.op # "Removed" /\ c.path = y.path
<1>1. PICK c \in changes : c.path = y.path
  BY DEF ChangedPaths
<1>2. CASE c.op = "Removed"
  <2>1. PICK x : Gone(x) /\ x.path = y.path
    BY <1>1, <1>2, RemovedIs
  <2>2. Come(y)
    <3> SUFFICES ASSUME NEW z \in before, SamePlace(z, y) PROVE FALSE
      BY DEF Come
    <3>1. z = x
      BY <2>1, OneBefore DEF SamePlace, Gone
    <3> QED
      BY <2>1, <3>1 DEF Gone
  <2> QED
    BY <2>2, ComeIsAdded
<1> QED
  BY <1>1, <1>2

\* And nothing but a change leads to its path.
LEMMA LedThere ==
    ASSUME IsDiffed, NEW c \in changes, c.op # "Removed"
    PROVE  \E y \in after : y.path = c.path
  BY LeadsSomewhere DEF Leads

LEMMA RootChange ==
    ASSUME IsDiffed, NEW c \in changes, c.path = root
    PROVE  c.op = "Modified" /\ ~ c.has_content /\ c.new_symlink_target = None
<1>1. HasDirectory(after, root)
  BY TreesAre DEF IsDiffed
<1>2. PICK y \in after : y.path = root /\ y.kind = "Directory"
  BY <1>1 DEF HasDirectory
<1>3. PICK x : Stays(x, y)
  BY <1>2, NotTheRoot
<1>4. Kin(x, y) /\ x \in before
  BY <1>2, <1>3, CommonDirectory DEF Stays
<1> QED
  BY <1>2, <1>4, CommonChange

LEMMA SelfMatches ==
    ASSUME NEW m, NEW n, m.mtime \in Int, n.mtime = m.mtime, n.size = m.size, n.mode = m.mode
    PROVE  matches(m, n) /\ matches(n, m)
<1>1. m.mtime - n.mtime = 0 /\ n.mtime - m.mtime = 0
  OBVIOUS
<1>2. 0 \in -MTIME_TOLERANCE .. MTIME_TOLERANCE
  BY ToleranceAssumption
<1> QED
  BY <1>1, <1>2 DEF matches, mtime_matches

\* What is in both trees and of no change is alike.
LEMMA Unchanged ==
    ASSUME IsDiffed, NEW x \in before, x.path \notin ChangedPaths
    PROVE  \E y \in after : Kin(x, y) /\ matches(x.metadata, y.metadata)
<1>1. ~ Gone(x)
  BY GoneIsRemoved DEF ChangedPaths
<1>2. PICK y \in after : Stays(x, y)
  BY <1>1 DEF Gone, Stays
<1>3. Equivalent(x, y)
  <2> SUFFICES ASSUME ~ Equivalent(x, y) PROVE FALSE
    OBVIOUS
  <2> QED
    BY <1>2, DifferIsModified DEF ChangedPaths, Stays, SamePlace
<1> QED
  BY <1>2, <1>3 DEF Equivalent, Stays, SamePlace, Kin

\* A target as the source was suits.
LEMMA FaithfulSuits ==
    ASSUME IsDiffed, Faithful
    PROVE  Suited
<1>1. present = before
  BY DEF Faithful
<1>2. ASSUME NEW y \in after, y.path \notin ChangedPaths
      PROVE  \E f \in present : f.path = y.path
  <2>1. ~ Come(y)
    BY <1>2, ComeIsAdded DEF ChangedPaths
  <2> QED
    BY <1>1, <2>1 DEF Come, SamePlace
<1>3. ASSUME NEW c \in changes, c.op = "Modified"
      PROVE  \E f \in present, y \in after :
                /\ f.path = c.path /\ y.path = c.path /\ f.kind = y.kind
                /\ ~ Rewrites(c) => Kin(f, y)
  <2>1. PICK x, y : Stays(x, y) /\ Says(c, x, y)
    BY <1>3, ModifiedTells
  <2> QED
    BY <1>1, <1>3, <2>1 DEF Stays, SamePlace, Says, Rewrites, Kin
<1> QED
  BY <1>1, <1>2, <1>3, Unchanged DEF Suited

\* So does one that verify accepts.
LEMMA AcceptedSuits ==
    ASSUME IsDiffed, present \in Trees, Accepted
    PROVE  Suited
<1>1. PICK list, result : list = DiffOf(before, after) /\ result = simulate_apply(present, list)
  OBVIOUS
<1>2. \A e \in result \cup after : ~ Mismatch(e.path, result, after, implicit_dirs)
  BY <1>1 DEF Accepted
<1>3. /\ IsFiniteSet(before) /\ PathsDistinct(before)
      /\ IsFiniteSet(after) /\ PathsDistinct(after)
  BY TreesAre DEF IsDiffed
<1>4. Enumerates(list, ChangesOf(before, after)) /\ changes = ChangesOf(before, after)
  BY <1>1, <1>3, DiffOfEnumerates DEF IsDiffed
<1>5. Recorded(after) /\ Recorded(present)
  BY TreesAre DEF IsDiffed, Recorded, IsRecord, IsEntry
<1>6. ASSUME NEW p
      PROVE  /\ (\A c \in changes : c.path # p) => At(result, p) = At(present, p)
             /\ \A x \in before, y \in after :
                  x.path = p /\ SamePlace(x, y) /\ ~ Equivalent(x, y) =>
                    At(result, p) = {Updated(e, ModifiedEntry(x, y)) : e \in At(present, p)}
  BY <1>1, <1>3, <1>4, <1>5, DiffAt
<1>7. ASSUME NEW f \in present, f.path \notin ChangedPaths
      PROVE  \E y \in after : Kin(f, y) /\ (f.path \in implicit_dirs \/ matches(f.metadata, y.metadata))
  <2>1. At(result, f.path) = At(present, f.path)
    BY <1>6, <1>7 DEF ChangedPaths
  <2>2. f \in At(result, f.path) /\ f \in result
    BY <2>1 DEF At
  <2> QED
    BY <1>2, <2>2 DEF Mismatch, At, Kin
<1>8. ASSUME NEW y \in after, y.path \notin ChangedPaths
      PROVE  \E f \in present : f.path = y.path
  <2>1. At(result, y.path) = At(present, y.path)
    BY <1>6, <1>8 DEF ChangedPaths
  <2>2. At(result, y.path) # {}
    BY <1>2 DEF Mismatch
  <2> QED
    BY <2>1, <2>2 DEF At
<1>9. ASSUME NEW c \in changes, c.op = "Modified"
      PROVE  \E f \in present, y \in after :
                /\ f.path = c.path /\ y.path = c.path /\ f.kind = y.kind
                /\ ~ Rewrites(c) => Kin(f, y)
  <2>1. PICK x \in before, y \in after :
          SamePlace(x, y) /\ ~ Equivalent(x, y) /\ c = ModifiedEntry(x, y)
    BY <1>4, <1>9, ChangesOfIs DEF build_removed_change, build_added_change
  <2>2. Says(c, x, y)
    BY <2>1, TreesAre, ModifiedSays DEF IsDiffed
  <2>3. At(result, y.path) = {Updated(e, c) : e \in At(present, y.path)}
    BY <1>6, <2>1 DEF SamePlace
  <2>4. At(result, y.path) # {}
    BY <1>2 DEF Mismatch
  <2>5. PICK f \in present : f.path = y.path /\ Updated(f, c) \in At(result, y.path)
    BY <2>3, <2>4 DEF At
  <2>6. PICK g : g = Updated(f, c)
    OBVIOUS
  <2>7. IsUpdated(g, f, c)
    BY <1>5, <2>6, UpdatedIs DEF Recorded
  <2>8. g.kind = y.kind /\ g.hash = y.hash /\ g.symlink_target = y.symlink_target
    BY <1>2, <2>5, <2>6 DEF Mismatch, At
  <2>9. ~ Rewrites(c) => c.new_hash = None /\ c.new_symlink_target = None
    BY <2>2 DEF Rewrites, Says
  <2> QED
    BY <2>2, <2>5, <2>7, <2>8, <2>9 DEF IsUpdated, Says, Kin
<1> QED
  BY <1>7, <1>8, <1>9 DEF Suited

Running == apc \in {"delete", "create", "content", "times", "done"}

Sure == runs = 1 /\ ~ errors /\ Suited /\ Running

\* A tempfile is that of the file being written.
Tidy == \A e \in tree : IsTemp(e.path) => temp # None /\ e.path = TempPath(change.path)

\* What no change speaks of, nor of what is directly in it, is as it was; and
\* there is nothing else that no change speaks of.
Spared ==
    /\ \A f \in present : f.path \notin ChangedPaths \cup Parents => f \in tree
    /\ \A e \in tree : ~ IsTemp(e.path) /\ e.path \notin ChangedPaths =>
         \E f \in present : f.path = e.path

\* What is removed and not replaced yet is gone.
Emptied ==
    \A c \in Done : c.op = "Removed" /\ (\A d \in Done : d.path = c.path => d = c) =>
        Lacks(tree, c.path)

TimeOf(y) == [path |-> y.path, mtime |-> y.metadata.mtime]

\* The entry e has the metadata of y, or will have, unless the run was refused
\* it.  The mtime of a directory is set in the end; what apply takes for an
\* untouched directory gets back another mtime.
Dressed(e, y) ==
    /\ \/ StampOf(y) \in stamp
       \/ y.path \in unstamped
       \/ /\ e.metadata.mode = y.metadata.mode
          /\ \/ e.metadata.mtime = y.metadata.mtime
             \/ y.kind = "Directory"
             \/ apc = "done" /\ y.path \in implicit_dirs
    /\ y.kind = "Directory" =>
         /\ TimeOf(y) \in dir_metadata_changes
         /\ apc = "done" => \/ e.metadata.mtime = y.metadata.mtime
                            \/ y.path \in implicit_dirs \cup unstamped

\* What a change put, or left, at its path.
Stands(c) ==
    \E e \in tree, y \in after :
        /\ y.path = c.path /\ Finishes(e, y)
        /\ Gives(c) => Dressed(e, y)

Standing == \A c \in Done : c.op # "Removed" => Stands(c)

\* What is still to be modified is as it was, but for its metadata.
Waiting ==
    \A c \in changes \ Done : c.op = "Modified" =>
        \A f \in present : f.path = c.path => \E e \in tree : Like(e, f)

\* The metadata to come are those of the new tree, and of one entry.
Coming ==
    /\ \A t \in dir_metadata_changes : \E y \in after : t = TimeOf(y)
    /\ \A s \in stamp : \E y \in after : s = StampOf(y)
    /\ \A s, t \in stamp : s = t

SureInv ==
    Sure => Tidy /\ Spared /\ Emptied /\ Standing /\ Waiting /\ Coming

\* A first run begins with what was there.
LEMMA SureStart ==
    ASSUME Inv, TimesInv, Start
    PROVE  SureInv'
<1> SUFFICES ASSUME Sure'
             PROVE  (Tidy /\ Spared /\ Emptied /\ Standing /\ Waiting /\ Coming)'
  BY DEF SureInv
<1>1. /\ present' = present /\ after' = after /\ changes' = changes
      /\ ChangedPaths' = ChangedPaths /\ Done' = {}
  <2>1. [ApplyNext]_applyVars
    BY DEF ApplyNext
  <2>2. UNCHANGED input
    BY <2>1, InputStays
  <2> QED
    BY <2>1, <2>2, InputStays, DoneEnds DEF input
<1>2. tree' = present
  <2>1. runs' = runs + 1 /\ runs' = 1 /\ runs \in Nat
    BY DEF Start, Sure, TimesInv
  <2> QED
    BY <2>1 DEF TimesInv, Start
<1>3. dir_metadata_changes' = {} /\ stamp' = {}
  BY DEF Start, Inv, PlanInv, None
<1>4. present \in Trees
  BY DEF Inv, PlanInv
<1>5. Tidy'
  BY <1>2, <1>4, TreesAre DEF Tidy
<1>6. Spared' /\ Waiting'
  BY <1>1, <1>2, SameIs DEF Spared, Waiting
<1>7. Emptied' /\ Standing' /\ Coming'
  BY <1>1, <1>3 DEF Emptied, Standing, Coming
<1> QED
  BY <1>5, <1>6, <1>7

\* No step but the following is one of such a run.
LEMMA SureSteps ==
    ASSUME [ApplyNext]_applyVars, ~ Start, Sure'
    PROVE  /\ Sure
           /\ \/ UNCHANGED applyVars \/ DeletionsDone \/ CreationsDone \/ ContentDone
              \/ Stamp \/ RestoreTimes \/ BeginWrite
              \/ Delete \/ AddDirectory \/ MakeLink \/ ChangeMetadata \/ Persist
<1>1. runs' = 1 /\ ~ errors' /\ apc' \notin {"failed", "killed"}
  BY DEF Sure, Running
<1>2. ~ Kill
  BY <1>1 DEF Kill
<1>3. /\ ~ DeleteFails /\ ~ AddDirectoryFails /\ ~ MakeLinkFails /\ ~ PersistFails
      /\ ~ Abort
  BY <1>1 DEF DeleteFails, AddDirectoryFails, MakeLinkFails, PersistFails, Abort, Failed
<1>4. \/ UNCHANGED applyVars \/ DeletionsDone \/ CreationsDone \/ ContentDone
      \/ Stamp \/ RestoreTimes \/ BeginWrite
      \/ Delete \/ AddDirectory \/ MakeLink \/ ChangeMetadata \/ Persist
  BY <1>2, <1>3 DEF ApplyNext, Step
<1>5. ~ errors /\ runs' = runs
  BY <1>1, <1>4 DEF applyVars, Stamp, Delete, DeletionsDone, NextPhase, AddDirectory,
                    MakeLink, ChangeMetadata, CreationsDone, BeginWrite, Persist,
                    ContentDone, RestoreTimes
<1>6. Running
  <2>1. \/ apc' = apc
        \/ apc \in {"delete", "create", "content", "times"}
    BY <1>4 DEF applyVars, Stamp, Delete, DeletionsDone, NextPhase, AddDirectory,
                MakeLink, ChangeMetadata, CreationsDone, BeginWrite, Persist,
                ContentDone, RestoreTimes
  <2> QED
    BY <2>1 DEF Running, Sure
<1>7. Suited
  BY InputStays DEF Sure, Suited, input, implicit_dirs, ChangedPaths
<1> QED
  BY <1>1, <1>4, <1>5, <1>6, <1>7 DEF Sure

\* A directory comes into one that is there: it was, and stays, or the diff
\* put it there before.
LEMMA SureParentThere ==
    ASSUME Inv, KeptInv, Suited, Standing, Waiting, In("create"), AddsDirectory
    PROVE  HasDirectory(tree, parent(change.path))
<1>1. PICK p \in Seq(Nat) : p = change.path /\ ~ IsTemp(p)
  BY AtChange DEF Inv
<1>2. /\ IsDiffed /\ after \in Trees /\ present \in Trees
      /\ change \in changes /\ change.op = "Added"
  BY InvDiffed, AtOf DEF IsDiffed, AddsDirectory, Inv, PlanInv
<1>3. PICK y \in after : y.path = p
  BY <1>1, <1>2, LedThere
<1>4. p # root
  BY <1>1, <1>2, RootChange
<1>5. PICK d \in after : d.path = parent(p) /\ d.kind = "Directory"
  BY <1>3, <1>2, <1>4, TreesAre DEF Sound, IsTree, At
<1> SUFFICES \E e \in tree : e.path = d.path /\ e.kind = "Directory"
  BY <1>1, <1>5 DEF HasDirectory
<1>6. CASE d.path \notin ChangedPaths
  <2>1. PICK f \in present : f.path = d.path
    BY <1>6 DEF Suited
  <2>2. PICK z \in after : Kin(f, z)
    BY <1>6, <2>1 DEF Suited
  <2>3. z = d
    BY <1>2, <2>1, <2>2, OneAfter DEF Kin
  <2>4. ~ IsTemp(f.path)
    BY <1>2, TreesAre
  <2>5. PICK e \in tree : Same(e, f)
    BY <1>6, <2>1, <2>4 DEF KeptInv, Kept
  <2> QED
    BY <1>5, <2>1, <2>2, <2>3, <2>5 DEF Kin, Same, Like
<1>7. CASE d.path \in ChangedPaths
  <2>1. PICK c \in changes : c.op # "Removed" /\ c.path = d.path
    BY <1>2, <1>7, PutThere
  <2>2. CASE c \in Done
    <3>1. PICK e \in tree, z \in after : z.path = c.path /\ Finishes(e, z)
      BY <2>1, <2>2 DEF Standing, Stands
    <3>2. z = d
      BY <1>2, <2>1, <3>1, OneAfter
    <3> QED
      BY <1>5, <3>1, <3>2 DEF Finishes, Kin
  <2>3. CASE c \notin Done
    <3>1. CASE c.op = "Modified"
      <4>1. PICK f \in present, z \in after : f.path = c.path /\ z.path = c.path /\ f.kind = z.kind
        BY <3>1 DEF Suited
      <4>2. z = d
        BY <1>2, <2>1, <4>1, OneAfter
      <4>3. PICK e \in tree : Like(e, f)
        BY <2>3, <3>1, <4>1 DEF Waiting
      <4> QED
        BY <1>5, <2>1, <4>1, <4>2, <4>3 DEF Like
    <3>2. CASE c.op = "Added"
      <4>1. c.entry = d /\ ~ c.has_content
        <5>1. Come(c.entry) /\ c.path = c.entry.path /\ (c.has_content <=> c.entry.kind = "File")
          BY <1>2, <3>2, AddedIs
        <5>2. c.entry = d
          BY <1>2, <2>1, <5>1, OneAfter DEF Come
        <5> QED
          BY <1>5, <5>1, <5>2
      <4>2. c \in items
        BY <3>2, <4>1 DEF items, HasContent
      <4>3. c \in todo
        BY <2>3, <4>2 DEF In, Done
      <4>4. change \in Current /\ apc = "create"
        BY DEF change, In
      <4>5. Len(parent(p)) = Len(p) - 1 /\ Len(p) \in Nat
        BY <1>4, ParentIs
      <4>6. PICK m, n : m = Len(change.path) /\ n = Len(c.path)
        OBVIOUS
      <4>7. m = Len(p) /\ n = Len(p) - 1
        BY <1>1, <1>5, <2>1, <4>5, <4>6
      <4>8. c # change
        <5> SUFFICES ASSUME c = change PROVE FALSE
          OBVIOUS
        <5>1. m = n
          BY <4>6
        <5> QED
          BY <4>5, <4>7, <5>1
      <4>9. Earlier(change, c)
        BY <4>3, <4>4, <4>8 DEF Current
      <4>10. m < n
        BY <4>4, <4>5, <4>6, <4>7, <4>9 DEF Earlier
      <4> QED
        BY <4>5, <4>7, <4>10
    <3> QED
      BY <1>2, <2>1, <3>1, <3>2, OpsAre
  <2> QED
    BY <2>2, <2>3
<1> QED
  BY <1>6, <1>7

\* What a step that is done with a change does for it, and to nothing else.
Achieves ==
    /\ \E paths, dirs : /\ Touched(tree, tree', paths, dirs)
                        /\ paths \subseteq {change.path, TempPath(change.path)}
                        /\ dirs \subseteq Parents
    /\ \A e \in tree' : ~ IsTemp(e.path)
    /\ change.op = "Removed" =>
         /\ Lacks(tree', change.path)
         /\ stamp' = {} /\ dir_metadata_changes' = dir_metadata_changes
    /\ change.op # "Removed" =>
         \E e \in tree', y \in after :
            /\ y.path = change.path /\ Finishes(e, y)
            /\ stamp' = IF Gives(change) THEN {StampOf(y)} ELSE {}
            /\ dir_metadata_changes' =
                 IF Gives(change) /\ y.kind = "Directory"
                 THEN dir_metadata_changes \cup {TimeOf(y)} ELSE dir_metadata_changes

Orderly == Inv /\ KeptInv /\ TimesInv /\ BareInv /\ Sure /\ SureInv

LEMMA OrderlyAt ==
    ASSUME Orderly, NEW phase, In(phase)
    PROVE  /\ Inv /\ IsDiffed /\ change \in changes /\ stamp = {}
           /\ Tidy /\ Spared /\ Emptied /\ Standing /\ Waiting /\ Coming
           /\ change.path \in Seq(Nat) /\ ~ IsTemp(change.path)
           /\ change.path # root => parent(change.path) \in Parents
           /\ phase # "content" => \A e \in tree : ~ IsTemp(e.path)
<1>1. Inv /\ IsDiffed /\ change \in changes
  BY InvDiffed, AtOf DEF Orderly
<1>2. Tidy /\ Spared /\ Emptied /\ Standing /\ Waiting /\ Coming
  BY DEF Orderly, SureInv
<1>3. change.path \in Seq(Nat) /\ ~ IsTemp(change.path)
  BY <1>1, AtChange DEF Inv
<1>4. change.path # root => parent(change.path) \in Parents
  BY <1>1 DEF Parents
<1>5. phase # "content" => temp = None
  BY <1>1 DEF Inv, TempInv, In
<1> QED
  BY <1>1, <1>2, <1>3, <1>4, <1>5 DEF In, None, Tidy

\* What is not underneath the paths of a step has no tempfile from it.
LEMMA StillTidy ==
    ASSUME NEW paths, NEW dirs, Touched(tree, tree', paths, dirs),
           \A e \in tree : ~ IsTemp(e.path), \A q \in paths : ~ IsTemp(q)
    PROVE  \A e \in tree' : ~ IsTemp(e.path)
  BY DEF Touched, Same, Like

LEMMA DeleteAchieves ==
    ASSUME Orderly, Delete
    PROVE  Achieves
<1>1. In("delete")
  BY DEF Delete
<1>2. PICK p, dirs : p = change.path /\ dirs = {parent(change.path)}
  OBVIOUS
<1>3. /\ Inv /\ IsDiffed /\ change \in changes /\ stamp = {} /\ ~ IsTemp(p)
      /\ change.path # root => parent(change.path) \in Parents
      /\ \A e \in tree : ~ IsTemp(e.path)
  BY <1>1, <1>2, OrderlyAt
<1>4. change.op = "Removed"
  BY <1>1, <1>3, AtOf
<1>5. Touched(tree, tree', {p}, dirs) /\ Lacks(tree', p)
  BY <1>2, <1>3, DeleteTouches
<1>6. dirs \subseteq Parents
  BY <1>2, <1>3, <1>4, RootChange
<1>7. \A e \in tree' : ~ IsTemp(e.path)
  BY <1>3, <1>5, StillTidy
<1>8. stamp' = {} /\ dir_metadata_changes' = dir_metadata_changes
  BY <1>3 DEF Delete, memory
<1> QED
  BY <1>2, <1>4, <1>5, <1>6, <1>7, <1>8 DEF Achieves

LEMMA AddDirectoryAchieves ==
    ASSUME Orderly, AddDirectory
    PROVE  Achieves
<1>1. In("create") /\ AddsDirectory /\ Creatable(change.path)
  BY DEF AddDirectory, Succeeds
<1>2. PICK p, paths, dirs : /\ p = change.path /\ paths = Lacking(change.path)
                            /\ dirs = {parent(q) : q \in Lacking(change.path)}
  OBVIOUS
<1>3. /\ Inv /\ IsDiffed /\ change \in changes /\ ~ IsTemp(p) /\ p \in Seq(Nat)
      /\ change.path # root => parent(change.path) \in Parents
      /\ \A e \in tree : ~ IsTemp(e.path)
      /\ Standing /\ Waiting
  BY <1>1, <1>2, OrderlyAt
<1>4. change.op = "Added" /\ change.op # "Removed"
  BY <1>1 DEF AddsDirectory
<1>5. HasDirectory(tree, parent(p))
  BY <1>1, <1>2, <1>3, SureParentThere DEF Orderly, Sure
<1>6. paths \subseteq {p} /\ (p \notin paths => \E e \in tree : e.path = p)
  BY <1>2, <1>3, <1>5, LackingOnly
<1>7. dirs \subseteq Parents
  BY <1>2, <1>3, <1>4, <1>6, RootChange
<1>8. Touched(tree, tree', paths, dirs)
  BY <1>2, <1>3, AddDirectoryTouches
<1>9. \A e \in tree' : ~ IsTemp(e.path)
  BY <1>3, <1>6, <1>8, StillTidy
<1>10. PICK y : y = change.entry
  OBVIOUS
<1>11. /\ y \in after /\ y.path = p /\ y.kind = "Directory" /\ stamp' = {StampOf(y)}
       /\ \A q \in paths : \E e \in tree', z \in after : e.path = q /\ Finishes(e, z)
  BY <1>2, <1>3, <1>10, AddDirectoryMakes
<1>12. dir_metadata_changes' = dir_metadata_changes \cup {TimeOf(y)}
  BY <1>2, <1>10, <1>11 DEF AddDirectory, TimeOf
<1>13. \E e \in tree' : Finishes(e, y)
  <2>1. CASE p \in paths
    <3>1. PICK e \in tree', z \in after : e.path = p /\ Finishes(e, z)
      BY <1>11, <2>1
    <3>2. z = y
      BY <1>3, <1>11, <3>1, OneAfter DEF Finishes, Kin
    <3> QED
      BY <3>1, <3>2
  <2>2. CASE p \notin paths
    <3>1. PICK e \in tree : e.path = p
      BY <1>6, <2>2
    <3>2. Lacking(p) = {}
      BY <1>2, <1>6, <2>2
    <3>3. PICK d \in tree : d.path = p /\ d.kind = "Directory"
      BY <1>1, <1>2, <3>2 DEF Creatable, At
    <3>4. Bare(d)
      BY <3>3 DEF Orderly, BareInv
    <3>5. PICK f \in tree' : Same(f, d)
      BY <1>8, <2>2, <3>3 DEF Touched
    <3>6. y.hash = None /\ y.symlink_target = None /\ y.metadata.size = 0
      BY <1>3, <1>11, TreesAre DEF IsDiffed, Proper
    <3> QED
      BY <1>11, <3>3, <3>4, <3>5, <3>6 DEF Same, Like, Bare, Finishes, Kin
  <2> QED
    BY <2>1, <2>2
<1>14. Gives(change)
  BY <1>4 DEF Gives
<1> QED
  BY <1>2, <1>4, <1>6, <1>7, <1>8, <1>9, <1>11, <1>12, <1>13, <1>14 DEF Achieves

LEMMA MakeLinkAchieves ==
    ASSUME Orderly, MakeLink
    PROVE  Achieves
<1>1. In("create") /\ MakesLink
  BY DEF MakeLink
<1>2. PICK p, dirs : p = change.path /\ dirs = {parent(change.path)}
  OBVIOUS
<1>3. /\ Inv /\ IsDiffed /\ change \in changes /\ ~ IsTemp(p)
      /\ change.path # root => parent(change.path) \in Parents
      /\ \A e \in tree : ~ IsTemp(e.path)
  BY <1>1, <1>2, OrderlyAt
<1>4. PICK e \in tree', y \in after :
        /\ Touched(tree, tree', {p}, dirs)
        /\ y.path = p /\ Finishes(e, y)
        /\ stamp' = IF Gives(change) THEN {StampOf(y)} ELSE {}
  BY <1>2, <1>3, MakeLinkMakes
<1>5. \E z \in after : z.path = p /\ z.kind = "Symlink"
  <2>1. CASE change.op = "Added"
    BY <1>1, <1>2, <1>3, <2>1, AddedIs DEF MakesLink, Come
  <2>2. CASE change.op = "Modified"
    BY <1>1, <1>2, <1>3, <2>2, ModifiedTells DEF MakesLink, Says, Stays
  <2> QED
    BY <1>1, <2>1, <2>2 DEF MakesLink
<1>6. y.kind # "Directory"
  BY <1>3, <1>4, <1>5, OneAfter
<1>7. dirs \subseteq Parents
  BY <1>1, <1>2, <1>3, RootChange DEF MakesLink
<1>8. \A x \in tree' : ~ IsTemp(x.path)
  BY <1>3, <1>4, StillTidy
<1>9. dir_metadata_changes' = dir_metadata_changes /\ change.op # "Removed"
  BY <1>1 DEF MakeLink, memory, MakesLink
<1> QED
  BY <1>2, <1>4, <1>6, <1>7, <1>8, <1>9 DEF Achieves

LEMMA ChangeMetadataAchieves ==
    ASSUME Orderly, ChangeMetadata
    PROVE  Achieves
<1>1. In("create") /\ change.op = "Modified" /\ change.new_symlink_target = None /\ tree' = tree
  BY DEF ChangeMetadata, MakesLink
<1>2. PICK p : p = change.path
  OBVIOUS
<1>3. /\ Inv /\ IsDiffed /\ change \in changes /\ Waiting
      /\ \A e \in tree : ~ IsTemp(e.path)
  BY <1>1, OrderlyAt
<1>4. ~ Rewrites(change) /\ change \notin Done
  BY <1>1, <1>3, AtOf, NotDone DEF Rewrites, Takes
<1>5. PICK f \in present, y \in after : f.path = p /\ y.path = p /\ Kin(f, y)
  BY <1>1, <1>2, <1>3, <1>4 DEF Orderly, Sure, Suited
<1>6. PICK e \in tree : Like(e, f)
  BY <1>1, <1>2, <1>3, <1>4, <1>5 DEF Waiting
<1>7. f.metadata.size = y.metadata.size
  <2>1. present \in Trees /\ after \in Trees
    BY <1>3 DEF Inv, PlanInv
  <2>2. CASE f.kind = "File"
    BY <1>5, <2>1, <2>2, ContentsAssumption DEF Kin
  <2>3. CASE f.kind # "File"
    BY <1>5, <2>1, <2>3, TreesAre DEF Kin
  <2> QED
    BY <2>2, <2>3
<1>8. Finishes(e, y)
  BY <1>5, <1>6, <1>7 DEF Finishes, Kin, Like
<1>9. change.new_metadata \in {None, Some(y.metadata)}
  <2>1. PICK v, w : Stays(v, w) /\ Says(change, v, w)
    BY <1>1, <1>3, ModifiedTells
  <2>2. w = y
    BY <1>2, <1>3, <1>5, <2>1, OneAfter DEF Stays, Says
  <2> QED
    BY <2>1, <2>2 DEF Says
<1>10. Gives(change) <=> change.new_metadata # None
  BY <1>1 DEF Gives
<1>11. stamp' = {[path |-> p, metadata |-> m] : m \in change.new_metadata}
  BY <1>2 DEF ChangeMetadata
<1>12. stamp' = IF Gives(change) THEN {StampOf(y)} ELSE {}
  <2>1. CASE change.new_metadata = None
    BY <1>10, <1>11, <2>1 DEF None
  <2>2. CASE change.new_metadata # None
    <3>1. change.new_metadata = {y.metadata}
      BY <1>9, <2>2 DEF Some
    <3> QED
      BY <1>5, <1>10, <1>11, <2>2, <3>1 DEF StampOf
  <2> QED
    BY <2>1, <2>2
<1>13. dir_metadata_changes' = dir_metadata_changes \cup
         {[path |-> s.path, mtime |-> s.metadata.mtime] :
            s \in {s \in stamp' : \E d \in At(tree, s.path) : d.kind = "Directory"}}
  BY DEF ChangeMetadata
<1>14. dir_metadata_changes' =
         IF Gives(change) /\ y.kind = "Directory"
         THEN dir_metadata_changes \cup {TimeOf(y)} ELSE dir_metadata_changes
  <2>1. (\E d \in At(tree, y.path) : d.kind = "Directory") <=> y.kind = "Directory"
    <3>1. \A d \in tree : d.path = y.path => d = e
      BY <1>3, <1>8, OfOnePath DEF Inv, Finishes, Kin
    <3> QED
      BY <1>8, <3>1 DEF At, Finishes, Kin
  <2>2. PICK there : there = {s \in stamp' : \E d \in At(tree, s.path) : d.kind = "Directory"}
    OBVIOUS
  <2>3. CASE Gives(change) /\ y.kind = "Directory"
    <3>1. there = {StampOf(y)}
      BY <1>12, <2>1, <2>2, <2>3 DEF StampOf
    <3>2. {[path |-> s.path, mtime |-> s.metadata.mtime] : s \in there} = {TimeOf(y)}
      BY <3>1 DEF StampOf, TimeOf
    <3> QED
      BY <1>13, <2>2, <2>3, <3>2
  <2>4. CASE ~ (Gives(change) /\ y.kind = "Directory")
    <3>1. there = {}
      BY <1>12, <2>1, <2>2, <2>4 DEF StampOf
    <3> QED
      BY <1>13, <2>2, <2>4, <3>1
  <2> QED
    BY <2>3, <2>4
<1>15. PICK none : none = {}
  OBVIOUS
<1>16. /\ Touched(tree, tree', none, none)
       /\ none \subseteq {change.path, TempPath(change.path)} /\ none \subseteq Parents
  BY <1>1, <1>15, NothingTouched
<1> QED
  BY <1>1, <1>2, <1>3, <1>5, <1>8, <1>12, <1>14, <1>16 DEF Achieves

LEMMA PersistAchieves ==
    ASSUME Orderly, Persist
    PROVE  Achieves
<1>1. In("content")
  BY DEF Persist
<1>2. PICK p, t, dirs : p = change.path /\ t = TempPath(change.path) /\ dirs = {parent(change.path)}
  OBVIOUS
<1>3. /\ Inv /\ IsDiffed /\ change \in changes /\ ~ IsTemp(p) /\ Tidy
      /\ change.path # root => parent(change.path) \in Parents
  BY <1>1, <1>2, OrderlyAt
<1>4. PICK e \in tree', y \in after :
        /\ Touched(tree, tree', {p, t}, dirs) /\ Lacks(tree', t) /\ Gives(change)
        /\ y.path = p /\ Finishes(e, y) /\ stamp' = {StampOf(y)}
  BY <1>2, <1>3, PersistMakes
<1>5. change.has_content /\ change \in contents /\ change.op # "Removed"
  BY <1>1, <1>3, AtOf
<1>6. y.kind # "Directory"
  BY <1>2, <1>3, <1>4, <1>5, TempOfContent, OneAfter
<1>7. dirs \subseteq Parents
  BY <1>2, <1>3, <1>5, RootChange
<1>8. \A x \in tree' : ~ IsTemp(x.path)
  BY <1>2, <1>3, <1>4 DEF Touched, Lacks, Tidy, Same, Like
<1>9. dir_metadata_changes' = dir_metadata_changes
  BY DEF Persist, memory
<1> QED
  BY <1>2, <1>4, <1>5, <1>6, <1>7, <1>8, <1>9 DEF Achieves

LEMMA InputsStay ==
    ASSUME UNCHANGED input
    PROVE  /\ before' = before /\ after' = after /\ present' = present /\ changes' = changes
           /\ ChangedPaths' = ChangedPaths /\ Parents' = Parents
           /\ implicit_dirs' = implicit_dirs
  BY DEF input, ChangedPaths, Parents, implicit_dirs

\* What a step does not touch is as before.
LEMMA SureTouched ==
    ASSUME Orderly, UNCHANGED input, NEW paths, NEW dirs,
           Touched(tree, tree', paths, dirs), dirs \subseteq Parents,
           \A q \in paths : IsTemp(q) \/ q \in ChangedPaths,
           stamp = {}, apc # "done", apc' # "done",
           dir_metadata_changes \subseteq dir_metadata_changes',
           unstamped \subseteq unstamped'
    PROVE  /\ Spared'
           /\ \A c \in Done : c.op # "Removed" /\ c.path \notin paths => Stands(c)'
           /\ \A p : p \notin paths /\ Lacks(tree, p) => Lacks(tree', p)
           /\ \A f : f.path \notin paths /\ (\E e \in tree : Like(e, f)) =>
                \E e \in tree' : Like(e, f)
<1>1. /\ Spared /\ Standing
      /\ after' = after /\ present' = present
      /\ ChangedPaths' = ChangedPaths /\ Parents' = Parents
  BY InputsStay DEF Orderly, SureInv
<1>2. Spared'
  <2>1. ASSUME NEW f \in present, f.path \notin ChangedPaths \cup Parents
        PROVE  f \in tree'
    <3>1. f \in tree /\ ~ IsTemp(f.path)
      BY <1>1, <2>1, TreesAre DEF Spared, Orderly, Inv, PlanInv
    <3>2. f.path \notin paths /\ f.path \notin dirs
      BY <2>1, <3>1
    <3> QED
      BY <3>1, <3>2 DEF Touched
  <2>2. ASSUME NEW e \in tree', ~ IsTemp(e.path), e.path \notin ChangedPaths
        PROVE  \E f \in present : f.path = e.path
    BY <1>1, <2>2 DEF Touched, Spared, Same, Like
  <2> QED
    BY <1>1, <2>1, <2>2 DEF Spared
<1>3. ASSUME NEW c \in Done, c.op # "Removed", c.path \notin paths
      PROVE  Stands(c)'
  <2>1. PICK e \in tree, y \in after : /\ y.path = c.path /\ Finishes(e, y)
                                       /\ Gives(c) => Dressed(e, y)
    BY <1>1, <1>3 DEF Standing, Stands
  <2>2. e.path = c.path /\ e.kind = y.kind
    BY <2>1 DEF Finishes, Kin
  <2>3. PICK f \in tree' : Same(f, e)
    BY <1>3, <2>2 DEF Touched
  <2>4. Finishes(f, y)
    BY <2>1, <2>3 DEF Same, Like, Finishes, Kin
  <2>5. ASSUME Gives(c)
        PROVE  /\ \/ y.path \in unstamped'
                  \/ /\ f.metadata.mode = y.metadata.mode
                     /\ f.metadata.mtime = y.metadata.mtime \/ y.kind = "Directory"
               /\ y.kind = "Directory" => TimeOf(y) \in dir_metadata_changes'
    BY <2>1, <2>2, <2>3, <2>5 DEF Same, Dressed
  <2> QED
    BY <1>1, <2>1, <2>4, <2>5 DEF Stands, Dressed, Gives, TimeOf, Finishes, Kin
<1> QED
  BY <1>2, <1>3 DEF Touched, Lacks, Same, Like

LEMMA HandledOrderly ==
    ASSUME Orderly, [ApplyNext]_applyVars,
           Delete \/ AddDirectory \/ MakeLink \/ ChangeMetadata \/ Persist
    PROVE  (Tidy /\ Spared /\ Emptied /\ Standing /\ Waiting /\ Coming)'
<1>1. Achieves
  BY DeleteAchieves, AddDirectoryAchieves, MakeLinkAchieves, ChangeMetadataAchieves,
     PersistAchieves
<1>2. PICK phase \in {"delete", "create", "content"} : In(phase) /\ apc' = apc
  BY DEF Delete, AddDirectory, MakeLink, ChangeMetadata, Persist
<1>3. /\ Inv /\ IsDiffed /\ change \in changes /\ stamp = {}
      /\ Emptied /\ Standing /\ Waiting /\ Coming
      /\ change.path \in Seq(Nat) /\ ~ IsTemp(change.path)
  BY <1>2, OrderlyAt
<1>4. change \notin Done /\ (apc = "delete" => \A c \in Done : c.op = "Removed")
  BY <1>2, <1>3, NotDone DEF Takes, In
<1>5. Done' = Done \cup {change} /\ UNCHANGED input
  <2>1. Finishing /\ UNCHANGED input
    BY HandledFinishes, InputStays DEF Handled
  <2> QED
    BY <1>3, <2>1, DoneGrows
<1>6. /\ after' = after /\ present' = present /\ changes' = changes
      /\ ChangedPaths' = ChangedPaths /\ Parents' = Parents
  BY <1>5, InputsStay
<1>7. PICK p, t : p = change.path /\ t = TempPath(change.path) /\ p \in ChangedPaths
                  /\ IsTemp(t)
  BY <1>3, TempPaths DEF ChangedPaths
<1>8. PICK paths, dirs : /\ Touched(tree, tree', paths, dirs) /\ paths \subseteq {p, t}
                         /\ dirs \subseteq Parents
  BY <1>1, <1>7 DEF Achieves
<1>9. apc # "done" /\ apc' # "done"
  BY <1>2 DEF In
<1>10. dir_metadata_changes \subseteq dir_metadata_changes' /\ unstamped' = unstamped
  BY <1>1 DEF Achieves, Delete, AddDirectory, MakeLink, ChangeMetadata, Persist, memory
<1>11. /\ Spared'
       /\ \A c \in Done : c.op # "Removed" /\ c.path \notin paths => Stands(c)'
       /\ \A q : q \notin paths /\ Lacks(tree, q) => Lacks(tree', q)
       /\ \A f : f.path \notin paths /\ (\E e \in tree : Like(e, f)) =>
            \E e \in tree' : Like(e, f)
  BY <1>3, <1>5, <1>7, <1>8, <1>9, <1>10, SureTouched
<1>12. \A c \in changes : ~ IsTemp(c.path)
  BY <1>3, ChangePath, TreesAre DEF IsDiffed
<1>13. ASSUME NEW c \in changes, c.path # p
       PROVE  c.path \notin paths
  BY <1>7, <1>8, <1>12, <1>13
<1>14. Done \subseteq changes
  BY <1>3, DonePlanned
<1>15. Tidy'
  BY <1>1 DEF Achieves, Tidy
<1>16. Emptied'
  <2> SUFFICES ASSUME NEW c \in Done', c.op = "Removed",
                      \A d \in Done' : d.path = c.path => d = c
               PROVE  Lacks(tree', c.path)
    BY DEF Emptied
  <2>1. CASE c = change
    BY <1>1, <2>1 DEF Achieves
  <2>2. CASE c # change
    <3>1. c \in Done /\ c.path # p
      BY <1>5, <1>7, <2>2
    <3>2. Lacks(tree, c.path)
      BY <1>3, <1>5, <3>1 DEF Emptied
    <3> QED
      BY <1>11, <1>13, <1>14, <3>1, <3>2
  <2> QED
    BY <2>1, <2>2
<1>17. Standing'
  <2> SUFFICES ASSUME NEW c \in Done', c.op # "Removed"
               PROVE  Stands(c)'
    BY DEF Standing
  <2>1. CASE c = change
    <3>1. PICK e \in tree', y \in after :
            /\ y.path = c.path /\ Finishes(e, y)
            /\ Gives(c) => StampOf(y) \in stamp'
            /\ Gives(c) /\ y.kind = "Directory" => TimeOf(y) \in dir_metadata_changes'
      BY <1>1, <2>1 DEF Achieves
    <3> QED
      BY <1>6, <1>9, <3>1 DEF Stands, Dressed, Gives, Finishes, Kin, TimeOf, StampOf
  <2>2. CASE c # change
    <3>1. c \in Done
      BY <1>5, <2>2
    <3>2. c.path # p
      <4>1. change.op # "Removed"
        BY <1>2, <1>3, <1>4, <3>1, AtOf DEF In
      <4> QED
        BY <1>3, <1>7, <1>14, <2>2, <3>1, <4>1, SoleChange
    <3> QED
      BY <1>11, <1>13, <1>14, <3>1, <3>2
  <2> QED
    BY <2>1, <2>2
<1>18. Waiting'
  <2> SUFFICES ASSUME NEW c \in changes, c \notin Done', c.op = "Modified",
                      NEW f \in present, f.path = c.path
               PROVE  \E e \in tree' : Like(e, f)
    BY <1>6 DEF Waiting
  <2>1. c \notin Done /\ c # change
    BY <1>5
  <2>2. c.path # p
    BY <1>3, <1>7, <2>1, ModifiedOnce DEF IsDiffed
  <2>3. \E e \in tree : Like(e, f)
    BY <1>3, <2>1 DEF Waiting
  <2> QED
    BY <1>11, <1>13, <2>2, <2>3
<1>19. Coming'
  BY <1>1, <1>3, <1>6 DEF Achieves, Coming, TimeOf, StampOf
<1> QED
  BY <1>11, <1>15, <1>16, <1>17, <1>18, <1>19

LEMMA StampOrderly ==
    ASSUME Orderly, [ApplyNext]_applyVars, Stamp
    PROVE  (Tidy /\ Spared /\ Emptied /\ Standing /\ Waiting /\ Coming)'
<1>1. /\ Inv /\ IsDiffed
      /\ Tidy /\ Spared /\ Emptied /\ Standing /\ Waiting /\ Coming
  BY InvDiffed DEF Orderly, SureInv
<1>2. /\ UNCHANGED <<apc, todo, temp, dir_metadata_changes>> /\ UNCHANGED input
      /\ stamp' = {} /\ unstamped \subseteq unstamped'
  BY DEF Stamp, Warns, None
<1>3. /\ after' = after /\ present' = present /\ changes' = changes
      /\ ChangedPaths' = ChangedPaths /\ Parents' = Parents
      /\ implicit_dirs' = implicit_dirs /\ Done' = Done
  BY <1>1, <1>2, InputsStay, DoneStays
<1>4. \A e \in tree : ~ IsTemp(e.path)
  BY <1>1 DEF Tidy, Inv, TempInv, In, Stamp
<1>5. PICK s \in stamp : \A x \in tree : \E e \in tree' :
          /\ Like(e, x) /\ (x.path # s.path => e = x)
          /\ x.path = s.path => \/ s.path \in unstamped'
                                \/ /\ e.metadata.mode = s.metadata.mode
                                   /\ e.metadata.mtime = s.metadata.mtime
  BY <1>1, StampTouches
<1>6. \A e \in tree' : \E x \in tree : Like(e, x)
  BY <1>1, StampTouches DEF Restyled
<1>7. PICK z \in after : s = StampOf(z)
  BY <1>1 DEF Coming
<1>8. stamp = {s} /\ s.path \in ChangedPaths
  BY <1>1 DEF Coming, Inv, PlanInv
<1>9. Tidy'
  BY <1>4, <1>6 DEF Tidy, Like
<1>10. Spared'
  BY <1>1, <1>3, <1>5, <1>6, <1>8 DEF Spared, Like
<1>11. Emptied'
  BY <1>1, <1>3, <1>6 DEF Emptied, Lacks, Like
<1>12. Waiting'
  BY <1>1, <1>3, <1>5 DEF Waiting, Like
<1>13. Coming'
  BY <1>1, <1>2, <1>3 DEF Coming, TimeOf
<1>14. Standing'
  <2> SUFFICES ASSUME NEW c \in Done, c.op # "Removed"
               PROVE  Stands(c)'
    BY <1>3 DEF Standing
  <2>1. PICK e \in tree, y \in after : /\ y.path = c.path /\ Finishes(e, y)
                                       /\ Gives(c) => Dressed(e, y)
    BY <1>1 DEF Standing, Stands
  <2>2. PICK f \in tree' : /\ Like(f, e) /\ (e.path # s.path => f = e)
                           /\ e.path = s.path => \/ s.path \in unstamped'
                                                 \/ /\ f.metadata.mode = s.metadata.mode
                                                    /\ f.metadata.mtime = s.metadata.mtime
    BY <1>5
  <2>3. Finishes(f, y) /\ e.path = y.path
    BY <2>1, <2>2 DEF Like, Finishes, Kin
  <2>4. ASSUME Gives(c)
        PROVE  Dressed(f, y)'
    <3>1. y.kind = "Directory" =>
            /\ TimeOf(y) \in dir_metadata_changes /\ apc # "done"
      BY <1>1, <1>8, <2>1, <2>4 DEF Dressed, Inv, PlanInv, None
    <3>2. CASE y.path = s.path
      <4>1. z = y
        BY <1>1, <1>7, <3>2, OneAfter DEF StampOf
      <4> QED
        BY <1>2, <1>7, <2>2, <2>3, <3>1, <3>2, <4>1 DEF Dressed, StampOf, TimeOf
    <3>3. CASE y.path # s.path
      <4>1. StampOf(y) \notin stamp
        BY <1>8, <3>3 DEF StampOf
      <4> QED
        BY <1>2, <1>3, <2>1, <2>2, <2>3, <2>4, <3>1, <3>3, <4>1 DEF Dressed, TimeOf
    <3> QED
      BY <3>2, <3>3
  <2> QED
    BY <1>3, <2>1, <2>3, <2>4 DEF Stands, Gives, Finishes, Kin
<1> QED
  BY <1>9, <1>10, <1>11, <1>12, <1>13, <1>14

LEMMA RestoreOrderly ==
    ASSUME Orderly, [ApplyNext]_applyVars, RestoreTimes
    PROVE  (Tidy /\ Spared /\ Emptied /\ Standing /\ Waiting /\ Coming)'
<1>1. /\ Inv /\ IsDiffed /\ runs = 1
      /\ Tidy /\ Spared /\ Emptied /\ Standing /\ Waiting /\ Coming
  BY InvDiffed DEF Orderly, SureInv, Sure
<1>2. /\ apc = "times" /\ apc' = "done" /\ UNCHANGED input /\ stamp' = stamp
      /\ dir_metadata_changes' = dir_metadata_changes /\ unstamped \subseteq unstamped'
  BY DEF RestoreTimes, Warns
<1>3. /\ after' = after /\ present' = present /\ changes' = changes
      /\ ChangedPaths' = ChangedPaths /\ Parents' = Parents
      /\ implicit_dirs' = implicit_dirs /\ Done' = Done
  BY <1>1, <1>2, InputsStay, DoneStays
<1>4. stamp = {} /\ \A e \in tree : ~ IsTemp(e.path)
  BY <1>1, <1>2 DEF Tidy, Inv, PlanInv, TempInv, In, None
<1>0. PICK explicit \in SUBSET dir_metadata_changes, saved \in SUBSET saved_dir_mtimes :
        /\ \A t \in (dir_metadata_changes \ explicit) \cup (saved_dir_mtimes \ saved) :
             t.path \in unstamped'
        /\ \E between : Timed(tree, between, explicit) /\ Timed(between, tree', saved)
  BY <1>1, RestoreTouches
<1>5. PICK between :
        /\ \A t \in (dir_metadata_changes \ explicit) \cup (saved_dir_mtimes \ saved) :
             t.path \in unstamped'
        /\ Timed(tree, between, explicit) /\ Timed(between, tree', saved)
        /\ Restyled(tree, tree')
  BY <1>0, <1>1, RestoreTouches
<1>6. \A t \in saved : t.path \in implicit_dirs
  BY <1>1, <1>5 DEF Orderly, TimesInv
<1>7. implicit_dirs \subseteq Parents
  BY DEF implicit_dirs, implicit_dirs_of, Parents
<1>8. \A t \in explicit : t.path \in ChangedPaths
  BY <1>1, <1>5 DEF Inv, PlanInv
<1>9. Tidy'
  BY <1>4, <1>5 DEF Tidy, Restyled, Like
<1>10. Spared'
  <2>1. ASSUME NEW f \in present, f.path \notin ChangedPaths \cup Parents
        PROVE  f \in tree'
    <3>1. f \in tree
      BY <1>1, <2>1 DEF Spared
    <3>2. f \in between
      BY <1>5, <1>8, <2>1, <3>1 DEF Timed
    <3> QED
      BY <1>5, <1>6, <1>7, <2>1, <3>2 DEF Timed
  <2> QED
    BY <1>1, <1>3, <1>5, <2>1 DEF Spared, Restyled, Like
<1>11. Emptied'
  BY <1>1, <1>3, <1>5 DEF Emptied, Lacks, Restyled, Like
<1>12. Waiting'
  BY <1>1, <1>3, <1>5 DEF Waiting, Restyled, Like
<1>13. Coming'
  BY <1>1, <1>2, <1>3 DEF Coming, TimeOf, StampOf
<1>14. Standing'
  <2> SUFFICES ASSUME NEW c \in Done, c.op # "Removed"
               PROVE  Stands(c)'
    BY <1>3 DEF Standing
  <2>1. PICK e \in tree, y \in after : /\ y.path = c.path /\ Finishes(e, y)
                                       /\ Gives(c) => Dressed(e, y)
    BY <1>1 DEF Standing, Stands
  <2>2. PICK f \in between :
          /\ Like(f, e) /\ f.metadata.mode = e.metadata.mode
          /\ \/ f = e /\ \A t \in explicit : t.path # e.path
             \/ \E t \in explicit : t.path = e.path /\ f.metadata.mtime = t.mtime
    BY <1>5 DEF Timed
  <2>3. PICK g \in tree' :
          /\ Like(g, f) /\ g.metadata.mode = f.metadata.mode
          /\ \/ g = f /\ \A t \in saved : t.path # f.path
             \/ \E t \in saved : t.path = f.path /\ g.metadata.mtime = t.mtime
    BY <1>5 DEF Timed
  <2>4. Finishes(g, y) /\ e.path = y.path /\ f.path = y.path
    BY <2>1, <2>2, <2>3 DEF Like, Finishes, Kin
  <2>5. ASSUME Gives(c)
        PROVE  Dressed(g, y)'
    <3>1. /\ \/ y.path \in unstamped'
             \/ /\ e.metadata.mode = y.metadata.mode
                /\ e.metadata.mtime = y.metadata.mtime \/ y.kind = "Directory"
          /\ y.kind = "Directory" =>
               /\ TimeOf(y) \in dir_metadata_changes
               /\ TimeOf(y) \in explicit \/ y.path \in unstamped'
      BY <1>2, <1>4, <1>5, <2>1, <2>5 DEF Dressed, TimeOf
    <3>2. f.metadata.mtime = y.metadata.mtime \/ y.path \in unstamped'
      <4>1. ASSUME NEW t \in explicit, t.path = y.path
            PROVE  t.mtime = y.metadata.mtime
        <5>1. PICK z \in after : t = TimeOf(z)
          BY <1>1, <1>5 DEF Coming
        <5>2. z = y
          BY <1>1, <4>1, <5>1, OneAfter DEF TimeOf
        <5> QED
          BY <5>1, <5>2 DEF TimeOf
      <4>2. y.kind = "Directory" =>
              (\E t \in explicit : t.path = y.path) \/ y.path \in unstamped'
        BY <3>1 DEF TimeOf
      <4> QED
        BY <2>2, <2>4, <3>1, <4>1, <4>2
    <3>3. \/ g.metadata.mtime = y.metadata.mtime
          \/ y.path \in implicit_dirs \cup unstamped'
      BY <1>6, <2>3, <2>4, <3>2
    <3>4. \/ y.path \in unstamped'
          \/ /\ g.metadata.mode = y.metadata.mode
             /\ g.metadata.mtime = y.metadata.mtime \/ y.path \in implicit_dirs
      BY <2>2, <2>3, <3>1, <3>3
    <3>5. y.kind = "Directory" => TimeOf(y)' \in dir_metadata_changes'
      BY <1>2, <3>1 DEF TimeOf
    <3>6. CASE y.path \in unstamped'
      BY <3>5, <3>6 DEF Dressed
    <3>7. CASE y.path \notin unstamped'
      <4>1. (y.path \in implicit_dirs)' <=> y.path \in implicit_dirs
        BY <1>3
      <4> QED
        BY <1>2, <3>4, <3>5, <3>7, <4>1 DEF Dressed
    <3> QED
      BY <3>6, <3>7
  <2> QED
    BY <1>3, <2>1, <2>4, <2>5 DEF Stands, Gives, Finishes, Kin
<1> QED
  BY <1>9, <1>10, <1>11, <1>12, <1>13, <1>14

LEMMA BeginWriteOrderly ==
    ASSUME Orderly, [ApplyNext]_applyVars, BeginWrite
    PROVE  (Tidy /\ Spared /\ Emptied /\ Standing /\ Waiting /\ Coming)'
<1>1. In("content") /\ temp = None /\ temp' # None
  BY DEF BeginWrite, Some, None
<1>2. /\ Inv /\ IsDiffed /\ change \in changes /\ stamp = {}
      /\ Tidy /\ Emptied /\ Standing /\ Waiting /\ Coming
      /\ change.path \in Seq(Nat)
      /\ change.path # root => parent(change.path) \in Parents
  BY <1>1, OrderlyAt
<1>3. UNCHANGED <<apc, todo, stamp, dir_metadata_changes, unstamped>> /\ UNCHANGED input
  BY DEF BeginWrite, memory
<1>4. /\ after' = after /\ present' = present /\ changes' = changes
      /\ ChangedPaths' = ChangedPaths /\ Done' = Done
  BY <1>2, <1>3, InputsStay, DoneStays
<1>5. change' = change
  BY <1>3 DEF change, Current, Earlier
<1>6. PICK t, dirs : t = TempPath(change.path) /\ dirs = {parent(change.path)} /\ IsTemp(t)
  BY <1>2, TempPaths
<1>7. Touched(tree, tree', {t}, dirs)
  BY <1>2, <1>6, BeginWriteTouches
<1>8. dirs \subseteq Parents
  BY <1>1, <1>2, <1>6, AtOf, RootChange
<1>9. apc # "done" /\ apc' # "done"
  BY <1>1, <1>3 DEF In
<1>10. /\ Spared'
       /\ \A c \in Done : c.op # "Removed" /\ c.path \notin {t} => Stands(c)'
       /\ \A q : q \notin {t} /\ Lacks(tree, q) => Lacks(tree', q)
       /\ \A f : f.path \notin {t} /\ (\E e \in tree : Like(e, f)) =>
            \E e \in tree' : Like(e, f)
  <2>1. \A q \in {t} : IsTemp(q) \/ q \in ChangedPaths
    BY <1>6
  <2>2. /\ dir_metadata_changes \subseteq dir_metadata_changes'
        /\ unstamped \subseteq unstamped'
    BY <1>3
  <2> QED
    BY <1>2, <1>3, <1>7, <1>8, <1>9, <2>1, <2>2, SureTouched
<1>11. \A c \in changes : c.path # t
  BY <1>2, <1>6, ChangePath, TreesAre DEF IsDiffed
<1>12. Done \subseteq changes
  BY <1>2, DonePlanned
<1>13. Tidy'
  <2>1. \A e \in tree : ~ IsTemp(e.path)
    BY <1>1, <1>2 DEF Tidy
  <2>2. \A e \in tree' : IsTemp(e.path) => e.path = t
    BY <1>7, <2>1 DEF Touched, Same, Like
  <2>3. TempPath(change.path)' = t
    BY <1>5, <1>6 DEF TempPath
  <2> QED
    BY <1>1, <2>2, <2>3 DEF Tidy
<1>14. Emptied'
  BY <1>2, <1>4, <1>10, <1>11, <1>12 DEF Emptied
<1>15. Standing'
  BY <1>4, <1>10, <1>11, <1>12 DEF Standing
<1>16. Waiting'
  BY <1>2, <1>4, <1>10, <1>11 DEF Waiting
<1>17. Coming'
  BY <1>2, <1>3, <1>4 DEF Coming, TimeOf, StampOf
<1> QED
  BY <1>10, <1>13, <1>14, <1>15, <1>16, <1>17

LEMMA IdleOrderly ==
    ASSUME Orderly, [ApplyNext]_applyVars,
           UNCHANGED applyVars \/ DeletionsDone \/ CreationsDone \/ ContentDone
    PROVE  (Tidy /\ Spared /\ Emptied /\ Standing /\ Waiting /\ Coming)'
<1>1. /\ Inv /\ IsDiffed
      /\ Tidy /\ Spared /\ Emptied /\ Standing /\ Waiting /\ Coming
  BY InvDiffed DEF Orderly, SureInv
<1>2. /\ UNCHANGED <<tree, stamp, temp, dir_metadata_changes, unstamped>>
      /\ UNCHANGED input
      /\ \/ UNCHANGED <<apc, todo>>
         \/ todo = {} /\ apc # "done" /\ apc' # "done"
  BY DEF applyVars, memory, DeletionsDone, CreationsDone, ContentDone, NextPhase
<1>3. /\ after' = after /\ present' = present /\ changes' = changes
      /\ ChangedPaths' = ChangedPaths /\ Parents' = Parents
      /\ implicit_dirs' = implicit_dirs
  BY <1>2, InputsStay
<1>4. Done' = Done
  <2>1. UNCHANGED <<apc, todo>> \/ DeletionsDone \/ CreationsDone \/ ContentDone
    BY DEF applyVars
  <2> QED
    BY <1>1, <1>2, <2>1, DoneStays
<1>5. Tidy'
  <2>1. CASE UNCHANGED <<apc, todo>>
    <3>1. change' = change
      BY <2>1 DEF change, Current, Earlier
    <3> QED
      BY <1>1, <1>2, <3>1 DEF Tidy, TempPath
  <2>2. CASE todo = {}
    <3>1. temp = None
      BY <1>1, <2>2 DEF Inv, TempInv, In, Current
    <3> QED
      BY <1>1, <1>2, <3>1 DEF Tidy
  <2> QED
    BY <1>2, <2>1, <2>2
<1>6. Spared' /\ Emptied' /\ Waiting' /\ Coming'
  BY <1>1, <1>2, <1>3, <1>4 DEF Spared, Emptied, Lacks, Waiting, Coming, TimeOf, StampOf
<1>7. Standing'
  <2> SUFFICES ASSUME NEW c \in Done, c.op # "Removed"
               PROVE  Stands(c)'
    BY <1>4 DEF Standing
  <2>1. PICK e \in tree, y \in after : /\ y.path = c.path /\ Finishes(e, y)
                                       /\ Gives(c) => Dressed(e, y)
    BY <1>1 DEF Standing, Stands
  <2>2. Dressed(e, y) => Dressed(e, y)'
    BY <1>2, <1>3 DEF Dressed, TimeOf, StampOf
  <2> QED
    BY <1>2, <1>3, <2>1, <2>2 DEF Stands, Gives, Finishes, Kin
<1> QED
  BY <1>5, <1>6, <1>7

LEMMA SureStep ==
    ASSUME Inv, KeptInv, TimesInv, BareInv, SureInv, [ApplyNext]_applyVars
    PROVE  SureInv'
<1>1. CASE Start
  BY <1>1, SureStart
<1>2. CASE ~ Start
  <2> SUFFICES ASSUME Sure'
               PROVE  (Tidy /\ Spared /\ Emptied /\ Standing /\ Waiting /\ Coming)'
    BY DEF SureInv
  <2>1. /\ Sure
        /\ \/ UNCHANGED applyVars \/ DeletionsDone \/ CreationsDone \/ ContentDone
           \/ Stamp \/ RestoreTimes \/ BeginWrite
           \/ Delete \/ AddDirectory \/ MakeLink \/ ChangeMetadata \/ Persist
    BY <1>2, SureSteps
  <2>2. Orderly
    BY <2>1 DEF Orderly
  <2> QED
    BY <2>1, <2>2, HandledOrderly, StampOrderly, RestoreOrderly, BeginWriteOrderly, IdleOrderly
<1> QED
  BY <1>1, <1>2

\* What is to be removed is there, and what is to be added is not, unless it
\* is to be removed first.
Pending ==
    /\ apc = "delete" => \A c \in todo : \E e \in tree : e.path = c.path /\ e.kind = c.kind
    /\ \A c \in changes \ Done : c.op = "Added" =>
         \A e \in tree : e.path = c.path =>
            \E d \in changes \ Done : d.op = "Removed" /\ d.path = c.path

CalmInv ==
    Faithful /\ privileged /\ FirstRun => ~ errors /\ unstamped = {} /\ Running /\ Pending

LEMMA CalmStart ==
    ASSUME Inv, TimesInv, Start
    PROVE  CalmInv'
<1> SUFFICES ASSUME Faithful', FirstRun'
             PROVE  ~ errors' /\ unstamped' = {} /\ Running' /\ Pending'
  BY DEF CalmInv
<1>1. [ApplyNext]_applyVars
  BY DEF ApplyNext
<1>2. UNCHANGED input
  BY <1>1, InputStays
<1>3. /\ before' = before /\ after' = after /\ present' = present /\ changes' = changes
      /\ Done' = {} /\ IsDiffed
  BY <1>2, InputsStay, DoneEnds, InvDiffed
<1>4. tree' = before
  <2>1. runs' = runs + 1 /\ runs' = 1 /\ runs \in Nat
    BY DEF Start, FirstRun, TimesInv
  <2> QED
    BY <1>3, <2>1 DEF TimesInv, Start, Faithful
<1>5. errors' = FALSE /\ unstamped' = {} /\ apc' = "delete" /\ todo' = deletions
  BY DEF Start
<1>6. ASSUME NEW c \in deletions
      PROVE  \E e \in before : e.path = c.path /\ e.kind = c.kind
  BY <1>3, RemovedIs DEF deletions, Gone
<1>7. ASSUME NEW c \in changes, c.op = "Added", NEW e \in before, e.path = c.path
      PROVE  \E d \in changes : d.op = "Removed" /\ d.path = c.path
  <2>1. PICK y : y = c.entry
    OBVIOUS
  <2>2. Come(y) /\ y.path = c.path
    BY <1>3, <1>7, <2>1, AddedIs
  <2>3. Gone(e)
    <3> SUFFICES ASSUME NEW z \in after, SamePlace(e, z) PROVE FALSE
      BY DEF Gone
    <3>1. z = y
      BY <1>3, <1>7, <2>2, OneAfter DEF SamePlace, Come
    <3> QED
      BY <2>2, <3>1 DEF Come
  <2> QED
    BY <1>3, <1>7, <2>3, GoneIsRemoved
<1> QED
  BY <1>3, <1>4, <1>5, <1>6, <1>7 DEF Running, Pending

\* Nothing fails in it.
LEMMA NothingFails ==
    ASSUME Repairs, privileged, Pending, runs \in Nat, faulted' < runs',
           [ApplyNext]_applyVars, ~ Start
    PROVE  ~ DeleteFails /\ ~ AddDirectoryFails /\ ~ MakeLinkFails /\ ~ Abort
           /\ ~ PersistFails /\ ~ Kill
<1>1. Inv /\ IsDiffed
  BY InvDiffed DEF Repairs
<1>2. ASSUME DeleteFails PROVE FALSE
  <2>1. In("delete") /\ ~ Removable(tree, change.path, change.kind)
    BY <1>2, Unfaulted DEF DeleteFails
  <2>2. Settled(change)
    BY <2>1, DeleteSettles
  <2>3. change \in changes /\ change \in todo /\ change.op = "Removed" /\ apc = "delete"
    BY <1>1, <2>1, AtOf DEF In
  <2>4. PICK e \in tree : e.path = change.path /\ e.kind = change.kind
    BY <2>3 DEF Pending
  <2>5. PICK y \in after : Kin(e, y)
    BY <2>2, <2>3, <2>4 DEF Settled, Right
  <2>6. PICK x : Gone(x) /\ change.path = x.path /\ change.kind = x.kind
    BY <1>1, <2>3, RemovedIs
  <2> QED
    BY <2>4, <2>5, <2>6 DEF Kin, Gone, SamePlace
<1>3. ASSUME MakeLinkFails PROVE FALSE
  <2>1. In("create") /\ MakesLink /\ ~ Linkable
    BY <1>3, Unfaulted DEF MakeLinkFails
  <2>2. PICK e \in tree : change.op = "Added" /\ e.path = change.path
    BY <2>1, LinkPossible
  <2>3. change \in changes /\ change \notin Done
    BY <1>1, <2>1, AtOf, NotDone DEF Takes
  <2>4. PICK d \in changes \ Done : d.op = "Removed"
    BY <2>2, <2>3 DEF Pending
  <2>5. d \in Done
    BY <2>1, <2>4 DEF In, Done, deletions
  <2> QED
    BY <2>4, <2>5
<1>4. ~ AddDirectoryFails
  BY Unfaulted, AddDirectoryPossible DEF AddDirectoryFails
<1>5. ~ Abort /\ ~ PersistFails
  BY Unfaulted, WritePossible DEF Abort, PersistFails
<1>6. ~ Kill
  BY Unfaulted
<1> QED
  BY <1>2, <1>3, <1>4, <1>5, <1>6

LEMMA CalmStep ==
    ASSUME Inv, KeptInv, TimesInv, TempsInv, BareInv, HalfwayInv, SettledInv,
           SureInv, CalmInv, [ApplyNext]_applyVars
    PROVE  CalmInv'
<1>1. CASE Start
  BY <1>1, CalmStart
<1>2. CASE ~ Start
  <2> SUFFICES ASSUME Faithful', privileged', FirstRun'
               PROVE  ~ errors' /\ unstamped' = {} /\ Running' /\ Pending'
    BY DEF CalmInv
  <2>1. /\ UNCHANGED input /\ before' = before /\ after' = after
        /\ present' = present /\ changes' = changes /\ privileged' = privileged
        /\ IsDiffed /\ runs \in Nat
    BY InputStays, InputsStay, InvDiffed DEF input, TimesInv
  <2>2. Faithful /\ privileged
    BY <2>1 DEF Faithful
  <2>3. faulted' < runs'
    BY DEF FirstRun
  <2>4. runs' = runs /\ faulted' = faulted
    BY <1>2, <2>1, <2>3, Unfaulted
  <2>5. FirstRun /\ faulted < runs
    BY <2>3, <2>4 DEF FirstRun
  <2>6. Pending /\ Sure /\ unstamped = {}
    BY <2>1, <2>2, <2>5, FaithfulSuits DEF CalmInv, Sure, FirstRun
  <2>7. Repairs /\ Orderly
    BY <2>2, <2>5, <2>6 DEF Repairs, SettledInv, Orderly
  <2>8. ~ DeleteFails /\ ~ AddDirectoryFails /\ ~ MakeLinkFails /\ ~ Abort
        /\ ~ PersistFails /\ ~ Kill
    BY <1>2, <2>1, <2>2, <2>3, <2>6, <2>7, NothingFails
  <2>9. \/ UNCHANGED applyVars \/ DeletionsDone \/ CreationsDone \/ ContentDone
        \/ Stamp \/ RestoreTimes \/ BeginWrite
        \/ Delete \/ AddDirectory \/ MakeLink \/ ChangeMetadata \/ Persist
    BY <1>2, <2>8 DEF ApplyNext, Step
  <2>10. ~ errors' /\ unstamped' = {} /\ Running'
    <3>0. unstamped' = unstamped
      <4>1. CASE Stamp \/ RestoreTimes
        BY <1>2, <2>1, <2>2, <2>3, <4>1, Unfaulted
      <4>2. CASE ~ (Stamp \/ RestoreTimes)
        BY <2>9, <4>2 DEF applyVars, memory, Delete, DeletionsDone, NextPhase, AddDirectory,
                    MakeLink, ChangeMetadata, CreationsDone, BeginWrite, Persist, ContentDone
      <4> QED
        BY <4>1, <4>2
    <3>1. errors' = errors /\ (apc' = apc \/ apc' \in {"create", "content", "times", "done"})
      BY <2>9 DEF applyVars, Stamp, Delete, DeletionsDone, NextPhase, AddDirectory,
                  MakeLink, ChangeMetadata, CreationsDone, BeginWrite, Persist,
                  ContentDone, RestoreTimes
    <3> QED
      BY <2>6, <3>0, <3>1 DEF Sure, Running
  <2>11. \A c \in changes : ~ IsTemp(c.path)
    BY <2>1, ChangePath, TreesAre DEF IsDiffed
  <2>12. CASE Delete \/ AddDirectory \/ MakeLink \/ ChangeMetadata \/ Persist
    <3>1. Achieves
      BY <2>7, <2>12, DeleteAchieves, AddDirectoryAchieves, MakeLinkAchieves,
         ChangeMetadataAchieves, PersistAchieves
    <3>2. PICK phase \in {"delete", "create", "content"} :
            In(phase) /\ apc' = apc /\ todo' = todo \ {change}
      BY <2>12 DEF Delete, AddDirectory, MakeLink, ChangeMetadata, Persist
    <3>3. change \in changes /\ change.path \in Seq(Nat)
      BY <2>7, <3>2, OrderlyAt
    <3>4. Done' = Done \cup {change}
      BY <2>1, <2>12, HandledFinishes, DoneGrows DEF Handled
    <3>5. PICK p, t : p = change.path /\ t = TempPath(change.path) /\ IsTemp(t)
      BY <3>3, TempPaths
    <3>6. PICK paths, dirs : Touched(tree, tree', paths, dirs) /\ paths \subseteq {p, t}
      BY <3>1, <3>5 DEF Achieves
    <3>7. ASSUME NEW c \in changes, c.path # p
          PROVE  c.path \notin paths
      BY <2>11, <3>5, <3>6, <3>7
    <3>8. ASSUME apc' = "delete", NEW c \in todo'
          PROVE  \E e \in tree' : e.path = c.path /\ e.kind = c.kind
      <4>1. /\ c \in todo /\ c # change /\ apc = "delete" /\ c \in changes
            /\ c.op = "Removed" /\ change.op = "Removed"
        BY <3>2, <3>8, AtOf DEF Inv, PlanInv, deletions, In
      <4>2. c.path # p
        BY <2>1, <3>3, <3>5, <4>1, SoleChange
      <4>3. PICK e \in tree : e.path = c.path /\ e.kind = c.kind
        BY <2>6, <4>1 DEF Pending
      <4> QED
        BY <3>6, <3>7, <4>1, <4>2, <4>3 DEF Touched, Same, Like
    <3>9. ASSUME NEW c \in changes, c \notin Done', c.op = "Added",
                 NEW e \in tree', e.path = c.path
          PROVE  \E d \in changes \ Done' : d.op = "Removed" /\ d.path = c.path
      <4>1. c \notin Done /\ c # change
        BY <3>4, <3>9
      <4>2. c.path # p
        <5> SUFFICES ASSUME c.path = p PROVE FALSE
          OBVIOUS
        <5>1. change.op # "Removed"
          BY <3>1, <3>5, <3>9 DEF Achieves, Lacks
        <5> QED
          BY <2>1, <3>3, <3>5, <3>9, <4>1, <5>1, SoleChange
      <4>3. PICK x \in tree : x.path = c.path
        BY <3>6, <3>7, <3>9, <4>2 DEF Touched, Same, Like
      <4>4. PICK d \in changes \ Done : d.op = "Removed" /\ d.path = c.path
        BY <2>6, <3>9, <4>1, <4>3 DEF Pending
      <4> QED
        BY <3>4, <3>5, <4>2, <4>4
    <3> QED
      BY <2>1, <2>10, <3>8, <3>9 DEF Pending
  <2>13. CASE \/ UNCHANGED applyVars \/ DeletionsDone \/ CreationsDone \/ ContentDone
              \/ Stamp \/ RestoreTimes \/ BeginWrite
    <3>1. Done' = Done
      <4>1. \/ UNCHANGED <<apc, todo>> \/ DeletionsDone \/ CreationsDone
            \/ ContentDone \/ RestoreTimes
        BY <2>13 DEF applyVars, Stamp, BeginWrite
      <4> QED
        BY <2>1, <4>1, DoneStays
    <3>2. ASSUME NEW e \in tree', ~ IsTemp(e.path)
          PROVE  \E x \in tree : x.path = e.path
      <4>1. CASE Stamp \/ RestoreTimes
        BY <4>1, StampTouches, RestoreTouches DEF Restyled, Like
      <4>2. CASE BeginWrite
        <5>1. In("content") /\ change.path \in Seq(Nat)
          BY <2>7, <4>2, OrderlyAt DEF BeginWrite
        <5>2. PICK t, dirs : /\ t = TempPath(change.path) /\ dirs = {parent(change.path)}
                             /\ IsTemp(t)
          BY <5>1, TempPaths
        <5>3. Touched(tree, tree', {t}, dirs)
          BY <4>2, <5>2, BeginWriteTouches
        <5> QED
          BY <3>2, <5>2, <5>3 DEF Touched, Same, Like
      <4>3. CASE tree' = tree
        BY <4>3
      <4> QED
        BY <2>13, <4>1, <4>2, <4>3 DEF applyVars, DeletionsDone, CreationsDone,
                                       ContentDone, NextPhase
    <3>3. apc' = "delete" => tree' = tree /\ todo' = todo /\ apc = "delete"
      BY <2>13 DEF applyVars, DeletionsDone, CreationsDone, ContentDone, NextPhase,
                   Stamp, RestoreTimes, BeginWrite, In, Inv, PlanInv, None
    <3>4. \A c \in changes \ Done : c.op = "Added" =>
            \A e \in tree' : e.path = c.path =>
               \E d \in changes \ Done : d.op = "Removed" /\ d.path = c.path
      BY <2>6, <2>11, <3>2 DEF Pending
    <3> QED
      BY <2>1, <2>6, <2>10, <3>1, <3>3, <3>4 DEF Pending
  <2> QED
    BY <2>9, <2>12, <2>13
<1> QED
  BY <1>1, <1>2

LEMMA FirstHolds ==
    ApplySpec => [](SureInv /\ CalmInv)
<1>1. ApplyInit => SureInv /\ CalmInv
  BY DEF ApplyInit, SureInv, Sure, CalmInv, FirstRun
<1>2. ASSUME Inv, KeptInv, TimesInv, TempsInv /\ BareInv /\ HalfwayInv /\ SettledInv,
             SureInv /\ CalmInv, [ApplyNext]_applyVars
      PROVE  (SureInv /\ CalmInv)'
  BY <1>2, SureStep, CalmStep
<1> QED
  BY <1>1, <1>2, InvHolds, KeptHolds, TimesHold, OutcomeHolds, PTL DEF ApplySpec

\* A change that says nothing of metadata is that of a link.
LEMMA SilentIsRetargeted ==
    ASSUME IsDiffed, NEW c \in changes, c.op # "Removed", ~ Gives(c)
    PROVE  c.path \in Retargeted
<1>1. c.op = "Modified" /\ c.new_metadata = None
  BY OpsAre DEF Gives
<1>2. PICK x, y : Stays(x, y) /\ Says(c, x, y) /\ ~ Equivalent(x, y)
  BY <1>1, ModifiedTells
<1>3. ~ c.has_content
  BY <1>1, <1>2 DEF Says, Some, None
<1>4. c.new_symlink_target # None
  BY <1>1, <1>2, <1>3 DEF Says, Equivalent
<1> QED
  BY <1>1, <1>4 DEF Retargeted

\* In the end every path of either tree is one of both.
LEMMA EndPaths ==
    ASSUME Orderly, apc = "done"
    PROVE  /\ \A e \in tree : \E y \in after : y.path = e.path
           /\ \A y \in after : \E e \in tree : e.path = y.path
           /\ stamp = {}
<1>1. /\ Inv /\ IsDiffed /\ after \in Trees /\ present \in Trees /\ Suited /\ KeptInv
      /\ Tidy /\ Spared /\ Emptied /\ Standing
  BY InvDiffed DEF Orderly, SureInv, Sure, IsDiffed, Inv, PlanInv
<1>2. Done = changes
  BY DEF Done
<1>3. stamp = {} /\ temp = None
  BY <1>1 DEF Inv, PlanInv, TempInv, In, None
<1>4. ASSUME NEW e \in tree
      PROVE  \E y \in after : y.path = e.path
  <2>1. ~ IsTemp(e.path)
    BY <1>1, <1>3 DEF Tidy
  <2>2. CASE e.path \notin ChangedPaths
    <3>1. PICK f \in present : f.path = e.path
      BY <1>1, <2>1, <2>2 DEF Spared
    <3> QED
      BY <1>1, <2>2, <3>1 DEF Suited, Kin
  <2>3. CASE e.path \in ChangedPaths
    <3>1. PICK c \in changes : c.path = e.path
      BY <2>3 DEF ChangedPaths
    <3>2. PICK d \in changes : d.path = e.path /\ d.op # "Removed"
      <4> SUFFICES ASSUME \A d \in changes : d.path = e.path => d.op = "Removed"
                   PROVE  FALSE
        OBVIOUS
      <4>1. \A d \in changes : d.path = c.path => d = c
        BY <1>1, <3>1, SoleChange
      <4>2. Lacks(tree, c.path)
        BY <1>1, <1>2, <3>1, <4>1 DEF Emptied
      <4> QED
        BY <3>1, <4>2 DEF Lacks
    <3> QED
      BY <1>1, <3>2, LedThere
  <2> QED
    BY <2>2, <2>3
<1>5. ASSUME NEW y \in after
      PROVE  \E e \in tree : e.path = y.path
  <2>1. CASE y.path \notin ChangedPaths
    <3>1. PICK f \in present : f.path = y.path
      BY <1>1, <2>1 DEF Suited
    <3>2. ~ IsTemp(f.path)
      BY <1>1, TreesAre
    <3> QED
      BY <1>1, <2>1, <3>1, <3>2 DEF KeptInv, Kept, Same, Like
  <2>2. CASE y.path \in ChangedPaths
    <3>1. PICK c \in changes : c.op # "Removed" /\ c.path = y.path
      BY <1>1, <2>2, PutThere
    <3> QED
      BY <1>1, <1>2, <3>1 DEF Standing, Stands, Finishes, Kin
  <2> QED
    BY <2>1, <2>2
<1> QED
  BY <1>3, <1>4, <1>5

\* And what is there agrees, with the exceptions made for metadata.
LEMMA EndAgrees ==
    ASSUME Orderly, apc = "done", NEW e \in tree, NEW y \in after, e.path = y.path
    PROVE  /\ Kin(e, y)
           /\ e.path \in ChangedPaths \ Retargeted =>
                matches(e.metadata, y.metadata) \/ e.path \in implicit_dirs \cup unstamped
           /\ e.path \notin ChangedPaths =>
                \E f \in present :
                   /\ f.path = e.path /\ Same(e, f) /\ Kin(f, y)
                   /\ \/ e.path \in implicit_dirs
                      \/ e = f /\ matches(f.metadata, y.metadata)
<1>1. /\ Inv /\ IsDiffed /\ after \in Trees /\ present \in Trees /\ Suited /\ KeptInv
      /\ Spared /\ Standing
  BY InvDiffed DEF Orderly, SureInv, Sure, IsDiffed, Inv, PlanInv
<1>2. Done = changes
  BY DEF Done
<1>3. stamp = {}
  BY EndPaths
<1>4. CASE e.path \in ChangedPaths
  <2>1. PICK c \in changes : c.op # "Removed" /\ c.path = y.path
    BY <1>1, <1>4, PutThere
  <2>2. PICK g \in tree, z \in after : /\ z.path = c.path /\ Finishes(g, z)
                                       /\ Gives(c) => Dressed(g, z)
    BY <1>1, <1>2, <2>1 DEF Standing, Stands
  <2>3. z = y
    BY <1>1, <2>1, <2>2, OneAfter
  <2>4. g = e
    BY <1>1, <2>2, <2>3, OfOnePath DEF Inv, Finishes, Kin
  <2>5. ASSUME e.path \notin Retargeted
        PROVE  matches(e.metadata, y.metadata) \/ e.path \in implicit_dirs \cup unstamped
    <3>1. Gives(c)
      BY <1>1, <2>1, <2>5, SilentIsRetargeted
    <3>2. Dressed(e, y)
      BY <2>2, <2>3, <2>4, <3>1
    <3>3. y.metadata.mtime \in Int
      BY <1>1, TreesAre DEF Proper
    <3>4. \/ y.path \in implicit_dirs \cup unstamped
          \/ /\ e.metadata.mode = y.metadata.mode
             /\ e.metadata.mtime = y.metadata.mtime
      BY <1>3, <3>2 DEF Dressed
    <3>5. CASE /\ e.metadata.mode = y.metadata.mode
               /\ e.metadata.mtime = y.metadata.mtime
      <4>1. PICK m, n : m = e.metadata /\ n = y.metadata
        OBVIOUS
      <4>2. m.mtime = n.mtime /\ m.size = n.size /\ m.mode = n.mode /\ n.mtime \in Int
        BY <2>2, <2>3, <2>4, <3>3, <3>4, <3>5, <4>1 DEF Finishes
      <4>3. matches(m, n)
        BY <4>2, SelfMatches
      <4> QED
        BY <4>1, <4>3
    <3> QED
      BY <3>4, <3>5
  <2> QED
    BY <1>4, <2>2, <2>3, <2>4, <2>5 DEF Finishes
<1>5. CASE e.path \notin ChangedPaths
  <2>1. PICK f \in present : f.path = y.path
    BY <1>1, <1>5 DEF Suited
  <2>2. PICK z \in after : /\ Kin(f, z)
                           /\ f.path \in implicit_dirs \/ matches(f.metadata, z.metadata)
    BY <1>1, <1>5, <2>1 DEF Suited
  <2>3. z = y
    BY <1>1, <2>1, <2>2, OneAfter DEF Kin
  <2>4. ~ IsTemp(f.path)
    BY <1>1, TreesAre
  <2>5. PICK g \in tree : Same(g, f)
    BY <1>1, <1>5, <2>1, <2>4 DEF KeptInv, Kept
  <2>6. g = e
    BY <1>1, <2>1, <2>5, OfOnePath DEF Inv, Same, Like
  <2>7. e.path \notin implicit_dirs => e = f
    <3>1. e.path \notin implicit_dirs => e.path \notin Parents
      <4>1. e.path \in Parents => e.path \in implicit_dirs
        BY <1>5 DEF implicit_dirs, implicit_dirs_of, Parents, ChangedPaths
      <4> QED
        BY <4>1
    <3>2. e.path \notin Parents => f \in tree
      BY <1>1, <1>5, <2>1 DEF Spared
    <3> QED
      BY <1>1, <2>1, <3>1, <3>2, OfOnePath DEF Inv
  <2> QED
    BY <1>5, <2>1, <2>2, <2>3, <2>5, <2>6, <2>7 DEF Same, Like, Kin
<1> QED
  BY <1>4, <1>5

\* A directory whose mtime apply puts back, and which has a change, was to
\* become something else.
LEMMA ImplicitIsReplaced ==
    ASSUME IsDiffed, Faithful, NEW y \in after, y.path \in ChangedPaths,
           y.path \in implicit_dirs, y.path \notin Retargeted
    PROVE  y.path \in Replaced
<1>1. /\ present = before /\ after \in Trees /\ before \in Trees
  BY DEF Faithful, IsDiffed
<1>2. PICK p : p = y.path
  OBVIOUS
<1>3. PICK b \in changes : b.path # root /\ parent(b.path) = p
  BY <1>2 DEF implicit_dirs, implicit_dirs_of
<1>4. /\ \A c \in changes : c.path = p => ~ (c.op = "Added" /\ c.entry.kind = "Directory")
      /\ \A c \in changes : c.path = p =>
           ~ (/\ c.op = "Modified" /\ c.new_metadata # None
              /\ \E e \in At(present, c.path) : e.kind = "Directory")
  BY <1>2 DEF implicit_dirs, implicit_dirs_of
<1>5. PICK c \in changes : c.op # "Removed" /\ c.path = p
  BY <1>2, PutThere
<1>6. Gives(c)
  BY <1>2, <1>5, SilentIsRetargeted
<1>7. y.kind # "Directory"
  <2> SUFFICES ASSUME y.kind = "Directory" PROVE FALSE
    OBVIOUS
  <2>1. CASE c.op = "Added"
    <3>1. PICK z : z = c.entry
      OBVIOUS
    <3>2. Come(z) /\ c.path = z.path
      BY <2>1, <3>1, AddedIs
    <3>3. z = y
      BY <1>2, <1>5, <3>2, OneAfter DEF Come
    <3> QED
      BY <1>4, <1>5, <2>1, <3>1, <3>3
  <2>2. CASE c.op = "Modified"
    <3>1. PICK v, w : Stays(v, w) /\ Says(c, v, w)
      BY <2>2, ModifiedTells
    <3>2. w = y
      BY <1>2, <1>5, <3>1, OneAfter DEF Stays, Says
    <3>3. v \in At(present, c.path) /\ v.kind = "Directory"
      BY <1>1, <3>1, <3>2 DEF Stays, SamePlace, Says, At
    <3> QED
      BY <1>4, <1>5, <1>6, <2>2, <3>3 DEF Gives
  <2> QED
    BY <1>5, <2>1, <2>2, OpsAre
<1>8. ASSUME NEW z \in after, z.path = b.path
      PROVE  FALSE
  <2>1. PICK d \in after : d.path = p /\ d.kind = "Directory"
    BY <1>1, <1>3, <1>8, TreesAre DEF Sound, IsTree, At
  <2> QED
    BY <1>2, <1>7, <2>1, OneAfter
<1>9. b.op = "Removed"
  BY <1>8, LedThere
<1>10. PICK x \in before : x.path = b.path
  BY <1>9, RemovedIs DEF Gone
<1>11. PICK d \in before : d.path = p /\ d.kind = "Directory"
  BY <1>1, <1>3, <1>10, TreesAre DEF Sound, IsTree, At
<1> QED
  BY <1>1, <1>2, <1>7, <1>11 DEF Replaced, At

LEMMA MetadataAlike ==
    ASSUME NEW m, NEW n, NEW o, m.mode = n.mode, m.mtime = n.mtime, m.size = n.size,
           matches(n, o)
    PROVE  matches(m, o)
  BY DEF matches, mtime_matches

\* In a first run without a fault, over a target that is as the source was and
\* by a user who may write to any directory, no operation fails and the run
\* ends with the new tree, but for the metadata of retargeted links and of
\* directories that became something else: run_apply, for every diff of two
\* trees.
THEOREM AppliedMatchesAll == ApplySpec => []AppliedMatches
<1>1. ASSUME Inv, KeptInv, TimesInv, TempsInv /\ BareInv /\ HalfwayInv /\ SettledInv,
             SureInv /\ CalmInv
      PROVE  AppliedMatches
  <2> SUFFICES ASSUME Faithful, privileged, FirstRun, apc \in {"done", "failed"}
               PROVE  /\ apc = "done" /\ ~ errors
                      /\ \A e \in tree \cup after :
                           ~ Mismatch(e.path, tree, after, Retargeted \cup Replaced)
    BY DEF AppliedMatches
  <2>1. apc = "done" /\ ~ errors /\ unstamped = {}
    BY <1>1 DEF CalmInv, Running
  <2>2. /\ IsDiffed /\ after \in Trees /\ present \in Trees /\ present = before
    BY <1>1, InvDiffed DEF IsDiffed, Inv, PlanInv, Faithful
  <2>3. Orderly
    BY <1>1, <2>1, <2>2, FaithfulSuits DEF Orderly, Sure, FirstRun, Running
  <2>4. ASSUME NEW e \in tree, NEW y \in after, e.path = y.path
        PROVE  /\ Kin(e, y)
               /\ e.path \notin Retargeted \cup Replaced => matches(e.metadata, y.metadata)
    <3>1. Kin(e, y)
      BY <2>1, <2>3, <2>4, EndAgrees
    <3>2. CASE e.path \in ChangedPaths
      BY <2>1, <2>2, <2>3, <2>4, <3>1, <3>2, EndAgrees, ImplicitIsReplaced
    <3>3. CASE e.path \notin ChangedPaths
      <4>1. PICK f \in present : /\ f.path = e.path /\ Same(e, f) /\ Kin(f, y)
                                 /\ \/ e.path \in implicit_dirs
                                    \/ e = f /\ matches(f.metadata, y.metadata)
        BY <2>1, <2>3, <2>4, <3>3, EndAgrees
      <4>2. PICK z \in after : Kin(f, z) /\ matches(f.metadata, z.metadata)
        BY <2>2, <3>3, <4>1, Unchanged
      <4>3. z = y
        BY <2>2, <2>4, <4>1, <4>2, OneAfter DEF Kin
      <4>4. e.metadata.mtime = f.metadata.mtime
        <5>1. CASE f.kind = "Directory" /\ e.path \in implicit_dirs
          <6>1. ParentTimesPreserved /\ runs = 1
            BY <1>1 DEF TimesInv, FirstRun
          <6> QED
            BY <2>1, <4>1, <5>1, <6>1 DEF ParentTimesPreserved, Same, Like
        <5>2. CASE ~ (f.kind = "Directory" /\ e.path \in implicit_dirs)
          BY <4>1, <5>2 DEF Same
        <5> QED
          BY <5>1, <5>2
      <4>5. PICK m, n, o : m = e.metadata /\ n = f.metadata /\ o = y.metadata
        OBVIOUS
      <4>6. m.mode = n.mode /\ m.mtime = n.mtime /\ m.size = n.size
        BY <4>1, <4>4, <4>5 DEF Same, Like
      <4>7. matches(m, o)
        BY <4>2, <4>3, <4>5, <4>6, MetadataAlike
      <4> QED
        BY <3>1, <4>5, <4>7
    <3> QED
      BY <3>2, <3>3
  <2>5. \A e \in tree \cup after : ~ Mismatch(e.path, tree, after, Retargeted \cup Replaced)
    BY <2>1, <2>3, <2>4, EndPaths DEF Mismatch, At, Kin
  <2> QED
    BY <2>1, <2>5
<1> QED
  BY <1>1, InvHolds, KeptHolds, TimesHold, OutcomeHolds, FirstHolds, PTL

\* If verify finds that what simulate_apply makes of a target does not disagree
\* with the new tree, then a first run over that target that comes to its end
\* and reports no errors leaves what does not disagree either, whatever the
\* target, but for the metadata it was warned that it may not set: the
\* simulation of `verify' tells what apply does.
THEOREM VerifiedThenAppliedAll == ApplySpec => []VerifiedThenApplied
<1>1. ASSUME Inv, KeptInv, TimesInv, TempsInv /\ BareInv /\ HalfwayInv /\ SettledInv,
             SureInv /\ CalmInv
      PROVE  VerifiedThenApplied
  <2> SUFFICES ASSUME runs = 1, apc = "done", ~ errors, Accepted
               PROVE  \A e \in tree \cup after :
                        ~ Mismatch(e.path, tree, after,
                                   implicit_dirs \cup Retargeted \cup unstamped)
    BY DEF VerifiedThenApplied
  <2>1. IsDiffed /\ present \in Trees
    BY <1>1, InvDiffed DEF Inv, PlanInv
  <2>2. Orderly
    BY <1>1, <2>1, AcceptedSuits DEF Orderly, Sure, Running
  <2>3. ASSUME NEW e \in tree, NEW y \in after, e.path = y.path
        PROVE  /\ Kin(e, y)
               /\ e.path \notin implicit_dirs \cup Retargeted \cup unstamped =>
                    matches(e.metadata, y.metadata)
    BY <2>2, <2>3, EndAgrees
  <2> QED
    BY <2>2, <2>3, EndPaths DEF Mismatch, At, Kin
<1> QED
  BY <1>1, InvHolds, KeptHolds, TimesHold, OutcomeHolds, FirstHolds, PTL
=============================================================================
