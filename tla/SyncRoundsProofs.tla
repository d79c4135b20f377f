-------------------------- MODULE SyncRoundsProofs --------------------------
(***************************************************************************)
(* Proofs about many rounds, for all trees, any number of edits and of     *)
(* rounds, and any choice of what a walk cannot read, a run does not get   *)
(* to, or is not granted.                                                  *)
(*                                                                         *)
(* The diffs that are under way form a chain: each starts from the entries *)
(* the one before it leads to, the first from those the target has, or, if *)
(* it was tried before, leads to those the target has already.  The target *)
(* has the entries of the last diff applied, but for an mtime that each    *)
(* diff may leave as it is within the tolerance, and but for content, mode *)
(* and mtime of the paths that are astray, unset and untimed.              *)
(***************************************************************************)
EXTENDS SyncRounds, EntriesProofs

\* Entries of a snapshot, also one with entries left out.
Listing(entries) ==
    /\ PathsDistinct(entries)
    /\ IsTree(entries)
    /\ \A e \in entries : IsEntry(e) /\ Proper(e)

LEMMA TreeIsListing ==
    ASSUME NEW tree, IsFileTree(tree)
    PROVE  Listing(tree)
  BY FileTrees DEF Listing, WellFormed, IsFileTree

LEMMA ListingFinds ==
    ASSUME NEW entries, Listing(entries), NEW x \in entries
    PROVE  /\ IsEntry(x) /\ Proper(x) /\ x.path \in Seq(Nat)
           /\ \A y \in entries : y.path = x.path => y = x
  BY DEF Listing, PathsDistinct

\* Above what is listed is a directory.
LEMMA DirectoryAbove ==
    ASSUME NEW entries, Listing(entries), NEW p \in Seq(Nat),
           NEW z \in entries, contains(p, z.path)
    PROVE  \E d \in entries : d.path = p /\ d.kind = "Directory"
<1> DEFINE Bad == {Len(y.path) : y \in {y \in entries : contains(p, y.path)}}
<1> SUFFICES ASSUME ~ \E d \in entries : d.path = p /\ d.kind = "Directory"
             PROVE  FALSE
  OBVIOUS
<1>1. \A y \in entries : y.path \in Seq(Nat) /\ Len(y.path) \in Nat
  BY ListingFinds
<1>2. Bad \subseteq Nat /\ Bad # {}
  BY <1>1
<1>3. PICK n \in Bad : \A m \in Bad : n <= m
  BY <1>2, HasLeast
<1>4. PICK y \in entries : contains(p, y.path) /\ n = Len(y.path)
  OBVIOUS
<1>5. PICK q : q = parent(y.path)
  OBVIOUS
<1>6. y.path # root /\ q \in Seq(Nat) /\ Len(q) = Len(y.path) - 1
      /\ (q = p \/ contains(p, q))
  BY <1>1, <1>4, <1>5, ParentBelow
<1>7. PICK d \in entries : d.path = q /\ d.kind = "Directory"
  BY <1>5, <1>6 DEF Listing, IsTree, At
<1>8. contains(p, d.path)
  BY <1>6, <1>7
<1>9. Len(d.path) \in Bad
  BY <1>8
<1> HIDE DEF Bad
<1> QED
  BY <1>1, <1>3, <1>4, <1>6, <1>7, <1>9

\* What is left of a tree without something, and all that is underneath.
LEMMA CutIsListing ==
    ASSUME NEW entries, Listing(entries), NEW cut, cut \subseteq Seq(Nat),
           NEW part, part \subseteq entries,
           \A e \in part : \A p \in cut : ~ contains(p, e.path),
           \A e \in entries : e.kind = "Directory" /\ (\A p \in cut : ~ contains(p, e.path))
                                => e \in part
    PROVE  Listing(part)
<1>1. PathsDistinct(part) /\ \A e \in part : IsEntry(e) /\ Proper(e)
  BY DEF Listing, PathsDistinct
<1>2. \A e, f \in part : e.path = f.path => e = f
  BY <1>1 DEF PathsDistinct
<1>3. ASSUME NEW e \in part, e.path # root
      PROVE  \E d \in At(part, parent(e.path)) : d.kind = "Directory"
  <2>1. PICK q : q = parent(e.path)
    OBVIOUS
  <2>2. PICK d \in entries : d.path = q /\ d.kind = "Directory"
    BY <1>3, <2>1 DEF Listing, IsTree, At
  <2>3. e.path \in Seq(Nat)
    BY <1>1 DEF PathsDistinct
  <2>4. ASSUME NEW p \in cut, contains(p, q)
        PROVE  FALSE
    <3>1. p \in Seq(Nat) /\ q \in Seq(Nat) /\ Len(q) = Len(e.path) - 1
          /\ \A k \in 1 .. Len(e.path) - 1 : q[k] = e.path[k]
      BY <1>3, <2>1, <2>3, ParentIs
    <3>2. Len(p) < Len(q) /\ \A k \in 1 .. Len(p) : p[k] = q[k]
      BY <2>4, <3>1, ContainsIs
    <3>3. Len(p) < Len(e.path) /\ \A k \in 1 .. Len(p) : p[k] = e.path[k]
      BY <2>3, <3>1, <3>2
    <3>4. contains(p, e.path)
      BY <2>3, <3>1, <3>3, ContainsIs
    <3> QED
      BY <3>4
  <2>5. d \in part
    BY <2>2, <2>4
  <2> QED
    BY <2>1, <2>2, <2>5 DEF At
<1> QED
  BY <1>1, <1>2, <1>3 DEF Listing, IsTree

\* What is known of a run_diff that has walked.
Ran(r) ==
    /\ Listing(r.input)
    /\ Listing(r.entries)
    /\ IsFileTree(r.seen)
    /\ r.clean => r.entries = Walk(r.seen, r.input)

LEMMA WalkRan ==
    ASSUME IsFileTree(disk), NEW previous, Listing(previous),
           NEW unreadable \in MaybeUnreadable,
           NEW r, r = Walked(previous, unreadable)
    PROVE  Ran(r) /\ r.input = previous
<1>1. /\ r.input = previous /\ r.entries = Found(previous, unreadable)
      /\ r.seen = disk /\ r.clean = (unreadable = {})
  BY DEF Walked
<1>2. IsFileTree(Walk(disk, previous))
  BY WalkedTree DEF Listing
<1>3. Listing(Walk(disk, previous))
  BY <1>2, TreeIsListing
<1>4. PICK all, part : all = Walk(disk, previous) /\ part = Found(previous, unreadable)
  OBVIOUS
<1>5. /\ part \subseteq all
      /\ \A e \in part : \A p \in unreadable : ~ contains(p, e.path)
      /\ \A e \in all : e.kind = "Directory" /\ (\A p \in unreadable : ~ contains(p, e.path))
                          => e \in part
  BY <1>4 DEF Found
<1>6. unreadable \subseteq Seq(Nat)
  <2>1. Listing(disk)
    BY TreeIsListing
  <2> QED
    BY <2>1, ListingFinds DEF MaybeUnreadable
<1>7. Listing(r.entries)
  <2>1. Listing(part)
    BY <1>3, <1>4, <1>5, <1>6, CutIsListing
  <2> QED
    BY <1>1, <1>4, <2>1
<1>8. ASSUME r.clean
      PROVE  r.entries = Walk(disk, previous)
  <2>1. unreadable = {}
    BY <1>1, <1>8
  <2> QED
    BY <1>1, <2>1 DEF Found
<1> QED
  BY <1>1, <1>7, <1>8 DEF Ran

----------------------------------------------------------------------------
(* The changes of a path.                                                  *)

IsAddition(c, y) ==
    /\ c.op = "Added" /\ c.path = y.path /\ c.entry = y
    /\ c.has_content <=> y.kind = "File"

IsModification(c, x, y) ==
    /\ c.op = "Modified" /\ c.path = y.path
    /\ c.has_content <=> x.hash # y.hash
    /\ c.has_content => y.kind = "File" /\ c.new_hash = y.hash
    /\ ~ c.has_content => c.new_hash = None
    /\ c.new_metadata = IF ~ matches(x.metadata, y.metadata) \/ x.hash # y.hash
                        THEN Some(y.metadata) ELSE None
    /\ c.new_symlink_target = IF x.symlink_target # y.symlink_target
                              THEN y.symlink_target ELSE None

LEMMA AdditionIs ==
    ASSUME NEW y, NEW c, c = build_added_change(y)
    PROVE  IsAddition(c, y)
  BY DEF build_added_change, IsAddition

LEMMA ModificationIs ==
    ASSUME NEW x, Proper(x), NEW y, Proper(y), SamePlace(x, y),
           NEW c, c = ModifiedEntry(x, y)
    PROVE  IsModification(c, x, y)
<1>1. x.hash # y.hash => y.kind = "File"
  BY DEF Proper, SamePlace
<1>2. PICK m, g, h, t :
        /\ m = IF ~ matches(x.metadata, y.metadata) \/ (x.hash # y.hash /\ y.kind = "File")
               THEN Some(y.metadata) ELSE None
        /\ g = IF x.hash # y.hash THEN y.hash ELSE None
        /\ h \in BOOLEAN /\ (h <=> x.hash # y.hash /\ y.kind = "File")
        /\ t = IF x.symlink_target # y.symlink_target THEN y.symlink_target ELSE None
  OBVIOUS
<1>3. c = [path |-> y.path, op |-> "Modified", new_metadata |-> m, new_hash |-> g,
           has_content |-> h, new_symlink_target |-> t]
  BY <1>2 DEF ModifiedEntry
<1> QED
  BY <1>1, <1>2, <1>3 DEF IsModification

\* A removal at p is of an entry that has no successor.
LEMMA RemovalIs ==
    ASSUME NEW b, NEW a, NEW c \in ChangesOf(b, a), c.op = "Removed"
    PROVE  \E x \in b : /\ c.path = x.path /\ c.kind = x.kind
                        /\ ~ \E y \in a : SamePlace(x, y)
  BY ChangesOfIs DEF build_removed_change, build_added_change, ModifiedEntry

LEMMA RemovalOf ==
    ASSUME NEW b, NEW a, NEW x \in b, ~ \E y \in a : SamePlace(x, y)
    PROVE  \E c \in ChangesOf(b, a) : c.op = "Removed" /\ c.path = x.path /\ c.kind = x.kind
<1>1. PICK c : c = build_removed_change(x)
  OBVIOUS
<1>2. c \in ChangesOf(b, a)
  BY <1>1, ChangesOfIs
<1> QED
  BY <1>1, <1>2 DEF build_removed_change

\* Whatever is no removal.
LEMMA ChangeStands ==
    ASSUME NEW b, Listing(b), NEW a, Listing(a), NEW c \in ChangesOf(b, a)
    PROVE  \/ c.op = "Removed" /\ \E x \in b : c.path = x.path /\ ~ \E y \in a : SamePlace(x, y)
           \/ \E y \in a : IsAddition(c, y) /\ ~ \E x \in b : SamePlace(x, y)
           \/ \E x \in b, y \in a : /\ SamePlace(x, y) /\ ~ Equivalent(x, y)
                                    /\ IsModification(c, x, y)
<1>1. CASE \E x \in b : c = build_removed_change(x) /\ ~ \E y \in a : SamePlace(x, y)
  BY <1>1 DEF build_removed_change
<1>2. CASE \E y \in a : c = build_added_change(y) /\ ~ \E x \in b : SamePlace(x, y)
  BY <1>2, AdditionIs
<1>3. CASE \E x \in b, y \in a : SamePlace(x, y) /\ ~ Equivalent(x, y) /\ c = ModifiedEntry(x, y)
  <2>1. PICK x \in b, y \in a : SamePlace(x, y) /\ ~ Equivalent(x, y) /\ c = ModifiedEntry(x, y)
    BY <1>3
  <2>2. IsModification(c, x, y)
    BY <2>1, ListingFinds, ModificationIs
  <2> QED
    BY <2>1, <2>2
<1> QED
  BY <1>1, <1>2, <1>3, ChangesOfIs

LEMMA NothingChanges ==
    ASSUME NEW b, Listing(b), NEW a, Listing(a),
           NEW x \in b, NEW y \in a, SamePlace(x, y), Equivalent(x, y)
    PROVE  \A c \in ChangesOf(b, a) : c.path # y.path
<1> SUFFICES ASSUME NEW c \in ChangesOf(b, a), c.path = y.path
             PROVE  FALSE
  OBVIOUS
<1>1. /\ \A u \in b : u.path = y.path => u = x
      /\ \A v \in a : v.path = y.path => v = y
  BY ListingFinds DEF SamePlace
<1> QED
  BY <1>1, ChangeStands DEF SamePlace, IsAddition, IsModification

LEMMA OneModifies ==
    ASSUME NEW b, Listing(b), NEW a, Listing(a),
           NEW x \in b, NEW y \in a, SamePlace(x, y), ~ Equivalent(x, y)
    PROVE  \E c \in ChangesOf(b, a) :
             /\ IsModification(c, x, y)
             /\ \A k \in ChangesOf(b, a) : k.path = y.path => k = c
<1>1. PICK c : c = ModifiedEntry(x, y)
  OBVIOUS
<1>2. c \in ChangesOf(b, a) /\ IsModification(c, x, y)
  BY <1>1, ListingFinds, ModificationIs, ChangesOfIs
<1>3. /\ \A u \in b : u.path = y.path => u = x
      /\ \A v \in a : v.path = y.path => v = y
  BY ListingFinds DEF SamePlace
<1>4. ASSUME NEW k \in ChangesOf(b, a), k.path = y.path
      PROVE  k = c
  <2>1. CASE \E u \in b : k = build_removed_change(u) /\ ~ \E v \in a : SamePlace(u, v)
    BY <1>3, <1>4, <2>1 DEF build_removed_change
  <2>2. CASE \E v \in a : k = build_added_change(v) /\ ~ \E u \in b : SamePlace(u, v)
    BY <1>3, <1>4, <2>2 DEF build_added_change
  <2>3. CASE \E u \in b, v \in a : SamePlace(u, v) /\ k = ModifiedEntry(u, v)
    <3>1. PICK u \in b, v \in a : SamePlace(u, v) /\ k = ModifiedEntry(u, v)
      BY <2>3
    <3>2. v.path = y.path /\ u.path = y.path
      BY <1>4, <3>1 DEF ModifiedEntry, SamePlace
    <3> QED
      BY <1>1, <1>3, <3>1, <3>2
  <2> QED
    BY <2>1, <2>2, <2>3, ChangesOfIs
<1> QED
  BY <1>2, <1>4

LEMMA OneAdds ==
    ASSUME NEW b, Listing(b), NEW a, Listing(a),
           NEW y \in a, ~ \E x \in b : SamePlace(x, y)
    PROVE  \E c \in ChangesOf(b, a) :
             /\ IsAddition(c, y)
             /\ \A k \in ChangesOf(b, a) : k.path = y.path => k = c \/ k.op = "Removed"
<1>1. PICK c : c = build_added_change(y)
  OBVIOUS
<1>2. c \in ChangesOf(b, a) /\ IsAddition(c, y)
  BY <1>1, AdditionIs, ChangesOfIs
<1>3. \A v \in a : v.path = y.path => v = y
  BY ListingFinds
<1>4. ASSUME NEW k \in ChangesOf(b, a), k.path = y.path
      PROVE  k = c \/ k.op = "Removed"
  <2>1. CASE \E u \in b : k = build_removed_change(u)
    BY <2>1 DEF build_removed_change
  <2>2. CASE \E v \in a : k = build_added_change(v)
    BY <1>1, <1>3, <1>4, <2>2 DEF build_added_change
  <2>3. CASE \E u \in b, v \in a : SamePlace(u, v) /\ k = ModifiedEntry(u, v)
    <3>1. PICK u \in b, v \in a : SamePlace(u, v) /\ k = ModifiedEntry(u, v)
      BY <2>3
    <3>2. v = y
      BY <1>3, <1>4, <3>1 DEF ModifiedEntry
    <3> QED
      BY <3>1, <3>2
  <2> QED
    BY <2>1, <2>2, <2>3, ChangesOfIs
<1> QED
  BY <1>2, <1>4

----------------------------------------------------------------------------
(* A target that follows a listing.                                        *)

\* Where the target departs: paths that are astray, unset and untimed.
IsMarks(marks) == marks = [astray |-> marks.astray, unset |-> marks.unset,
                           untimed |-> marks.untimed]

\* An entry as another says, where it does not depart.
Fits(t, s, drift, marks) ==
    /\ t.kind = s.kind /\ t.symlink_target = s.symlink_target
    /\ t.hash = s.hash \/ t.path \in marks.astray
    /\ t.metadata.mode = s.metadata.mode \/ t.path \in marks.astray \cup marks.unset
    /\ t.metadata.mtime \in Int
    /\ \/ t.metadata.mtime - s.metadata.mtime \in -drift .. drift
       \/ t.path \in marks.astray \cup marks.untimed

\* A set of entries as another one says.
Follows(state, entries, drift, marks) ==
    /\ \A t \in state : IsEntry(t)
    /\ \A t \in state : \E s \in entries : s.path = t.path
    /\ \A s \in entries : (\E t \in state : t.path = s.path) \/ s.path \in marks.astray
    /\ \A p \in marks.astray : \E s \in entries : s.path = p /\ s.kind = "File"
    /\ \A t \in state, s \in entries : t.path = s.path => Fits(t, s, drift, marks)

\* What a run starts from: a target that follows the listing the diff is from,
\* or, if it was tried before, the one it leads to.
Setting(b, a, start, state, drift, wide, marks) ==
    /\ Listing(b) /\ Listing(a)
    /\ drift \in Nat /\ wide \in Nat
    /\ \/ start = b /\ wide = drift + MTIME_TOLERANCE
       \/ start = a /\ wide = drift
    /\ Follows(state, start, drift, marks)

\* The deletions leave alone what has no removal.
LEMMA NotRemoved ==
    ASSUME NEW state, NEW changes, NEW p,
           \A c \in changes : c.op = "Removed" => c.path # p
    PROVE  At(Remaining(state, changes), p) = At(state, p)
  BY DEF Remaining, At

LEMMA FewerRemain ==
    ASSUME NEW state, NEW changes, NEW p
    PROVE  At(Remaining(state, changes), p) \subseteq At(state, p)
  BY DEF Remaining, At

\* What has no successor goes, and a directory with all that is in it.
LEMMA AllRemoved ==
    ASSUME NEW b, Listing(b), NEW a, Listing(a),
           NEW state, NEW drift, NEW marks, Follows(state, b, drift, marks),
           NEW x \in b, ~ \E y \in a : SamePlace(x, y)
    PROVE  At(Remaining(state, ChangesOf(b, a)), x.path) = {}
<1> SUFFICES ASSUME NEW e \in state, e.path = x.path,
                    e \in Remaining(state, ChangesOf(b, a))
             PROVE  FALSE
  BY DEF At, Remaining
<1> DEFINE Hit(f) == \E c \in ChangesOf(b, a) :
                        /\ c.op = "Removed" /\ c.path = f.path
                        /\ (c.kind = "Directory") = (f.kind = "Directory")
<1>1. ASSUME NEW f \in state, NEW z \in b, f.path = z.path, ~ \E y \in a : SamePlace(z, y)
      PROVE  Hit(f)
  <2>1. f.kind = z.kind
    BY <1>1 DEF Follows, Fits
  <2> QED
    BY <1>1, <2>1, RemovalOf
<1>2. Hit(e)
  BY <1>1
<1>3. PICK f \in state : contains(e.path, f.path) /\ ~ Hit(f)
  BY <1>2 DEF Remaining
<1>4. PICK z \in b : z.path = f.path
  BY DEF Follows
<1>5. x.path \in Seq(Nat) /\ contains(x.path, z.path)
  BY <1>3, <1>4, ListingFinds
<1>6. x.kind = "Directory"
  BY <1>5, DirectoryAbove, ListingFinds
<1>7. ASSUME NEW y \in a, SamePlace(z, y)
      PROVE  FALSE
  <2>1. contains(x.path, y.path)
    BY <1>5, <1>7 DEF SamePlace
  <2>2. PICK d \in a : d.path = x.path /\ d.kind = "Directory"
    BY <1>5, <2>1, DirectoryAbove
  <2> QED
    BY <1>6, <2>2 DEF SamePlace
<1> QED
  BY <1>1, <1>3, <1>4, <1>7

\* What is there when additions begin: at the path of an entry that stays, what
\* there was; of a new one, nothing, or what was made of it before; of one that
\* is no more, nothing.
LEMMA StaysThere ==
    ASSUME NEW b, Listing(b), NEW a, Listing(a), NEW state,
           NEW x \in b, NEW y \in a, SamePlace(x, y)
    PROVE  At(Remaining(state, ChangesOf(b, a)), y.path) = At(state, y.path)
<1>1. ASSUME NEW c \in ChangesOf(b, a), c.op = "Removed", c.path = y.path
      PROVE  FALSE
  <2>1. PICK u \in b : c.path = u.path /\ ~ \E v \in a : SamePlace(u, v)
    BY <1>1, RemovalIs
  <2>2. u = x
    BY <1>1, <2>1, ListingFinds DEF SamePlace
  <2> QED
    BY <2>1, <2>2
<1> QED
  BY <1>1, NotRemoved

LEMMA NewThere ==
    ASSUME NEW b, NEW a, NEW start, NEW state, NEW drift, NEW wide, NEW marks,
           Setting(b, a, start, state, drift, wide, marks),
           NEW y \in a, ~ \E x \in b : SamePlace(x, y),
           NEW e \in At(Remaining(state, ChangesOf(b, a)), y.path)
    PROVE  start = a /\ wide = drift /\ e \in state /\ e.path = y.path /\ Fits(e, y, drift, marks)
<1>1. Listing(b) /\ Listing(a) /\ Follows(state, start, drift, marks)
  BY DEF Setting
<1>2. e \in state /\ e.path = y.path
  BY FewerRemain DEF At
<1>3. ASSUME start = b
      PROVE  FALSE
  <2>1. PICK x \in b : x.path = y.path
    BY <1>1, <1>2, <1>3 DEF Follows
  <2>2. ASSUME NEW v \in a, SamePlace(x, v)
        PROVE  FALSE
    <3>1. v = y
      BY <1>1, <2>1, <2>2, ListingFinds DEF SamePlace
    <3> QED
      BY <2>2, <3>1
  <2>3. At(Remaining(state, ChangesOf(b, a)), x.path) = {}
    BY <1>1, <1>3, <2>2, AllRemoved
  <2> QED
    BY <2>1, <2>3
<1>4. start = a /\ wide = drift
  BY <1>3 DEF Setting
<1> QED
  BY <1>1, <1>2, <1>4 DEF Follows

LEMMA GoneThere ==
    ASSUME NEW b, NEW a, NEW start, NEW state, NEW drift, NEW wide, NEW marks,
           Setting(b, a, start, state, drift, wide, marks),
           NEW p, \A y \in a : y.path # p
    PROVE  At(Remaining(state, ChangesOf(b, a)), p) = {}
<1>1. Listing(b) /\ Listing(a) /\ Follows(state, start, drift, marks)
  BY DEF Setting
<1> SUFFICES ASSUME NEW e \in At(Remaining(state, ChangesOf(b, a)), p)
             PROVE  FALSE
  OBVIOUS
<1>2. e \in state /\ e.path = p
  BY FewerRemain DEF At
<1>3. PICK x \in start : x.path = p
  BY <1>1, <1>2 DEF Follows
<1>4. start = b
  BY <1>3 DEF Setting
<1>5. ~ \E y \in a : SamePlace(x, y)
  BY <1>3 DEF SamePlace
<1>6. At(Remaining(state, ChangesOf(b, a)), x.path) = {}
  BY <1>1, <1>3, <1>4, <1>5, AllRemoved
<1> QED
  BY <1>3, <1>6

----------------------------------------------------------------------------
(* A run.                                                                  *)

DoneOf(changes, fs, stored) ==
    {c \in changes : /\ c.op # "Removed" /\ (HasContent(c) => c \in stored)
                     /\ ~ Blocked(c, At(fs, c.path))}

OutcomesOf(d, changes, fs, done) ==
    {e \in fs : e.path \notin PathsOf(done)}
        \cup UNION {Outcome(c, At(fs, c.path), Brought(d, ContentsOf(changes), c)) : c \in done}

StampedBy(done) == PathsOf({c \in done : MetadataOf(c) # None})
BareOf(done) == PathsOf({c \in done : Retargets(c) /\ MetadataOf(c) = None})

AstrayAfter(d, changes, done, astr) ==
    (astr \ PathsOf({c \in changes : c.op = "Removed" \/ HasContent(c)}))
       \cup PathsOf({c \in ContentsOf(changes) :
                c \notin done \/ Brought(d, ContentsOf(changes), c) # HashOfContent(c)})

Dressed(e, marks) ==
    [e EXCEPT !.metadata.mode = IF e.path \in marks.unset THEN FreshMode ELSE @,
              !.metadata.mtime = IF e.path \in marks.untimed THEN Now ELSE @]

\* What a run does: `done' are the changes made, `made' what comes of it before
\* refusals, `moved' what gets other mtimes.
Runs(d, changes, state, stored, refused, moved, marks, done, made, after, result) ==
    /\ done = DoneOf(changes, Remaining(state, changes), stored)
    /\ made = OutcomesOf(d, changes, Remaining(state, changes), done)
    /\ after.astray = AstrayAfter(d, changes, done, marks.astray)
    /\ after.unset = (marks.unset \ StampedBy(done)) \cup (refused \cap StampedBy(done))
                       \cup BareOf(done)
    /\ after.untimed = (marks.untimed \ StampedBy(done)) \cup refused \cup BareOf(done)
                         \cup moved
    /\ result = {Dressed(e, after) : e \in made}

LEMMA StillMarked ==
    ASSUME NEW d, NEW changes, NEW state, NEW stored, NEW refused, NEW moved, NEW marks,
           NEW done, NEW made, NEW after, NEW result,
           Runs(d, changes, state, stored, refused, moved, marks, done, made, after, result),
           NEW p, \A c \in done : c.path # p
    PROVE  /\ p \in marks.unset => p \in after.unset
           /\ p \in marks.untimed => p \in after.untimed
<1>1. p \notin StampedBy(done)
  BY DEF StampedBy, PathsOf
<1> QED
  BY <1>1 DEF Runs

LEMMA StillAstray ==
    ASSUME NEW d, NEW changes, NEW state, NEW stored, NEW refused, NEW moved, NEW marks,
           NEW done, NEW made, NEW after, NEW result,
           Runs(d, changes, state, stored, refused, moved, marks, done, made, after, result),
           NEW p, \A c \in changes : c.path = p => c.op # "Removed" /\ ~ HasContent(c)
    PROVE  p \in after.astray <=> p \in marks.astray
<1>1. p \notin PathsOf({c \in changes : c.op = "Removed" \/ HasContent(c)})
  BY DEF PathsOf
<1>2. p \notin PathsOf({c \in ContentsOf(changes) :
                c \notin done \/ Brought(d, ContentsOf(changes), c) # HashOfContent(c)})
  BY DEF PathsOf, ContentsOf
<1> QED
  BY <1>1, <1>2 DEF Runs, AstrayAfter

LEMMA GoesAstray ==
    ASSUME NEW d, NEW changes, NEW state, NEW stored, NEW refused, NEW moved, NEW marks,
           NEW done, NEW made, NEW after, NEW result,
           Runs(d, changes, state, stored, refused, moved, marks, done, made, after, result),
           NEW c \in changes, HasContent(c),
           c \notin done \/ Brought(d, ContentsOf(changes), c) # HashOfContent(c)
    PROVE  c.path \in after.astray
<1>1. c.path \in PathsOf({k \in ContentsOf(changes) :
                k \notin done \/ Brought(d, ContentsOf(changes), k) # HashOfContent(k)})
  BY DEF PathsOf, ContentsOf
<1> QED
  BY <1>1 DEF Runs, AstrayAfter

LEMMA AstrayWhy ==
    ASSUME NEW d, NEW changes, NEW state, NEW stored, NEW refused, NEW moved, NEW marks,
           NEW done, NEW made, NEW after, NEW result,
           Runs(d, changes, state, stored, refused, moved, marks, done, made, after, result),
           NEW p \in after.astray
    PROVE  \/ p \in marks.astray /\ \A c \in changes : c.path = p => c.op # "Removed"
           \/ \E c \in changes : c.path = p /\ HasContent(c)
<1>1. CASE p \in PathsOf({c \in ContentsOf(changes) :
                c \notin done \/ Brought(d, ContentsOf(changes), c) # HashOfContent(c)})
  BY <1>1 DEF PathsOf, ContentsOf
<1>2. CASE p \in marks.astray \ PathsOf({c \in changes : c.op = "Removed" \/ HasContent(c)})
  BY <1>2 DEF PathsOf
<1> QED
  BY <1>1, <1>2 DEF Runs, AstrayAfter

LEMMA BareMarked ==
    ASSUME NEW d, NEW changes, NEW state, NEW stored, NEW refused, NEW moved, NEW marks,
           NEW done, NEW made, NEW after, NEW result,
           Runs(d, changes, state, stored, refused, moved, marks, done, made, after, result),
           NEW c \in done, Retargets(c), MetadataOf(c) = None
    PROVE  c.path \in after.unset /\ c.path \in after.untimed
<1>1. c.path \in BareOf(done)
  BY DEF BareOf, PathsOf
<1> QED
  BY <1>1 DEF Runs

\* An entry with a mode or an mtime that it may depart by fits as before.
LEMMA DressedFits ==
    ASSUME NEW e, IsEntry(e), NEW s, NEW drift, NEW marks, Fits(e, s, drift, marks),
           NEW f, f = Dressed(e, marks)
    PROVE  IsEntry(f) /\ f.path = e.path /\ Fits(f, s, drift, marks)
<1>1. PICK p, k, h, l, z, m, u :
        e = [path |-> p, kind |-> k, hash |-> h, symlink_target |-> l,
             metadata |-> [size |-> z, mode |-> m, mtime |-> u]]
  BY DEF IsEntry
<1>2. PICK n, v : /\ n = IF p \in marks.unset THEN FreshMode ELSE m
                  /\ v = IF p \in marks.untimed THEN Now ELSE u
  OBVIOUS
<1>3. f = [path |-> p, kind |-> k, hash |-> h, symlink_target |-> l,
           metadata |-> [size |-> z, mode |-> n, mtime |-> v]]
  <2>1. e.path = p /\ e.metadata.mode = m /\ e.metadata.mtime = u
    BY <1>1
  <2>2. f = [e EXCEPT !.metadata.mode = n, !.metadata.mtime = v]
    BY <1>2, <2>1 DEF Dressed
  <2> QED
    BY <1>1, <2>2
<1>4. p \in Seq(Nat) /\ k \in EntryKind
  BY <1>1 DEF IsEntry
<1>5. IsEntry(f) /\ f.path = e.path
  BY <1>1, <1>3, <1>4 DEF IsEntry
<1>6. n = m \/ p \in marks.unset
  BY <1>2
<1>7. v = u \/ (p \in marks.untimed /\ v = Now)
  BY <1>2
<1>8. v \in Int
  BY <1>1, <1>7, SyncAssumption DEF Fits
<1> QED
  BY <1>1, <1>3, <1>5, <1>6, <1>7, <1>8 DEF Fits

----------------------------------------------------------------------------
(* What comes of one change.                                               *)

IsMetadata(m) == m = [size |-> m.size, mode |-> m.mode, mtime |-> m.mtime]

Bare == [size |-> 0, mode |-> FreshMode, mtime |-> Now]

LEMMA OrElseIs ==
    ASSUME NEW m, NEW old
    PROVE  OrElse(Some(m), old) = m /\ OrElse(None, old) = old /\ Some(m) # None
  BY DEF OrElse, Some, None

LEMMA EntryMetadata ==
    ASSUME NEW e, IsEntry(e)
    PROVE  IsMetadata(e.metadata)
<1>1. PICK p, k, h, l, z, m, u :
        e = [path |-> p, kind |-> k, hash |-> h, symlink_target |-> l,
             metadata |-> [size |-> z, mode |-> m, mtime |-> u]]
  BY DEF IsEntry
<1>2. e.metadata = [size |-> z, mode |-> m, mtime |-> u]
  BY <1>1
<1> QED
  BY <1>2 DEF IsMetadata

LEMMA MadeIsEntry ==
    ASSUME NEW p \in Seq(Nat), NEW k \in EntryKind, NEW h, NEW l, NEW m, IsMetadata(m),
           NEW e, e = [path |-> p, kind |-> k, hash |-> h, symlink_target |-> l, metadata |-> m]
    PROVE  /\ IsEntry(e) /\ e.path = p /\ e.kind = k /\ e.hash = h
           /\ e.symlink_target = l /\ e.metadata = m
<1>1. PICK z, n, u : m = [size |-> z, mode |-> n, mtime |-> u]
  BY DEF IsMetadata
<1>2. e = [path |-> p, kind |-> k, hash |-> h, symlink_target |-> l,
           metadata |-> [size |-> z, mode |-> n, mtime |-> u]]
  BY <1>1
<1> QED
  BY <1>1, <1>2 DEF IsEntry

LEMMA StoredIs ==
    ASSUME NEW c, HasContent(c), c.path \in Seq(Nat),
           NEW m, IsMetadata(m), MetadataOf(c) = Some(m), NEW there, NEW hash
    PROVE  \E e : /\ Outcome(c, there, hash) = {e}
                  /\ IsEntry(e) /\ e.path = c.path /\ e.kind = "File" /\ e.hash = hash
                  /\ e.symlink_target = None /\ e.metadata = m
<1>1. PICK e : e = [path |-> c.path, kind |-> "File", hash |-> hash,
                    symlink_target |-> None, metadata |-> m]
  OBVIOUS
<1>2. OrElse(MetadataOf(c), Bare) = m
  BY OrElseIs
<1>3. Outcome(c, there, hash) = {e}
  BY <1>1, <1>2 DEF Outcome, Bare
<1>4. "File" \in EntryKind
  BY DEF EntryKind
<1>5. /\ IsEntry(e) /\ e.path = c.path /\ e.kind = "File" /\ e.hash = hash
      /\ e.symlink_target = None /\ e.metadata = m
  <2>1. PICK p, k, h, l : p = c.path /\ k = "File" /\ h = hash /\ l = None
    OBVIOUS
  <2>2. /\ p \in Seq(Nat) /\ k \in EntryKind
        /\ e = [path |-> p, kind |-> k, hash |-> h, symlink_target |-> l, metadata |-> m]
    BY <1>1, <1>4, <2>1
  <2>3. IsMetadata(m)
    OBVIOUS
  <2>4. /\ IsEntry(e) /\ e.path = p /\ e.kind = k /\ e.hash = h
        /\ e.symlink_target = l /\ e.metadata = m
    BY ONLY <2>2, <2>3, MadeIsEntry
  <2> QED
    BY <2>1, <2>4
<1> QED
  BY <1>3, <1>5

LEMMA RetargetedIs ==
    ASSUME NEW c, ~ HasContent(c), Retargets(c), c.path \in Seq(Nat),
           NEW m, IsMetadata(m), m = OrElse(MetadataOf(c), Bare), NEW there, NEW hash
    PROVE  \E e : /\ Outcome(c, there, hash) = {e}
                  /\ IsEntry(e) /\ e.path = c.path /\ e.kind = "Symlink" /\ e.hash = None
                  /\ e.symlink_target = c.new_symlink_target /\ e.metadata = m
<1>1. PICK e : e = [path |-> c.path, kind |-> "Symlink", hash |-> None,
                    symlink_target |-> c.new_symlink_target, metadata |-> m]
  OBVIOUS
<1>2. c.op # "Added"
  BY DEF Retargets
<1>3. Outcome(c, there, hash) = {e}
  BY <1>1, <1>2 DEF Outcome, Bare
<1>4. "Symlink" \in EntryKind
  BY DEF EntryKind
<1>5. /\ IsEntry(e) /\ e.path = c.path /\ e.kind = "Symlink" /\ e.hash = None
      /\ e.symlink_target = c.new_symlink_target /\ e.metadata = m
  <2>1. PICK p, k, h, l : p = c.path /\ k = "Symlink" /\ h = None /\ l = c.new_symlink_target
    OBVIOUS
  <2>2. /\ p \in Seq(Nat) /\ k \in EntryKind
        /\ e = [path |-> p, kind |-> k, hash |-> h, symlink_target |-> l, metadata |-> m]
    BY <1>1, <1>4, <2>1
  <2>3. /\ IsEntry(e) /\ e.path = p /\ e.kind = k /\ e.hash = h
        /\ e.symlink_target = l /\ e.metadata = m
    BY <2>2, MadeIsEntry
  <2> QED
    BY <2>1, <2>3
<1> QED
  BY <1>3, <1>5

LEMMA UpdatedEntry ==
    ASSUME NEW e, IsEntry(e), NEW m, IsMetadata(m),
           NEW c, c.new_metadata = Some(m), c.new_hash = None, c.new_symlink_target = None,
           NEW f, f = Updated(e, c)
    PROVE  /\ IsEntry(f) /\ f.path = e.path /\ f.kind = e.kind /\ f.hash = e.hash
           /\ f.symlink_target = e.symlink_target /\ f.metadata = m
<1>1. PICK p, k, h, l, n : /\ p \in Seq(Nat) /\ k \in EntryKind
                           /\ e = [path |-> p, kind |-> k, hash |-> h,
                                   symlink_target |-> l, metadata |-> n]
  BY DEF IsEntry
<1>2. f = [e EXCEPT !.metadata = m, !.hash = h, !.symlink_target = l]
  BY <1>1, OrElseIs DEF Updated
<1>3. f = [path |-> p, kind |-> k, hash |-> h, symlink_target |-> l, metadata |-> m]
  BY <1>1, <1>2
<1> QED
  BY <1>1, <1>3, MadeIsEntry

LEMMA OutcomePath ==
    ASSUME NEW b, Listing(b), NEW a, Listing(a), NEW c \in ChangesOf(b, a),
           c.op # "Removed", NEW there, \A e \in there : IsEntry(e) /\ e.path = c.path,
           NEW hash, NEW f \in Outcome(c, there, hash)
    PROVE  f.path = c.path
<1>1. CASE \E y \in a : IsAddition(c, y)
  <2>1. c.op = "Added" /\ c.entry.path = c.path
    BY <1>1 DEF IsAddition
  <2> QED
    BY <2>1 DEF Outcome
<1>2. CASE \E x \in b, y \in a : IsModification(c, x, y) /\ SamePlace(x, y) /\ ~ Equivalent(x, y)
  <2>1. c.op # "Added"
    BY <1>2 DEF IsModification
  <2>2. CASE HasContent(c) \/ Retargets(c)
    BY <2>1, <2>2 DEF Outcome
  <2>3. CASE ~ HasContent(c) /\ ~ Retargets(c)
    <3>1. PICK e \in there : f = Updated(e, c)
      BY <2>1, <2>3 DEF Outcome
    <3>2. PICK p, k, h, l, n : e = [path |-> p, kind |-> k, hash |-> h,
                                    symlink_target |-> l, metadata |-> n]
      BY DEF IsEntry
    <3>3. PICK m, g, t :
            /\ m = OrElse(c.new_metadata, n)
            /\ g = IF c.new_hash = None THEN h ELSE c.new_hash
            /\ t = IF c.new_symlink_target = None THEN l ELSE c.new_symlink_target
      OBVIOUS
    <3>4. f = [e EXCEPT !.metadata = m, !.hash = g, !.symlink_target = t]
      BY <3>1, <3>2, <3>3 DEF Updated
    <3>5. f.path = p /\ e.path = p
      BY <3>2, <3>4
    <3> QED
      BY <3>1, <3>5
  <2> QED
    BY <2>2, <2>3
<1> QED
  BY <1>1, <1>2, ChangeStands

\* At one path is what comes of its change, or what was there.
LEMMA MadeAt ==
    ASSUME NEW b, NEW a, NEW start, NEW state, NEW drift, NEW wide, NEW marks,
           Setting(b, a, start, state, drift, wide, marks),
           NEW changes, changes = ChangesOf(b, a), NEW fs, fs = Remaining(state, changes),
           NEW d, NEW stored, NEW done, done = DoneOf(changes, fs, stored),
           NEW made, made = OutcomesOf(d, changes, fs, done), NEW p
    PROVE  /\ (\A c \in done : c.path # p) => At(made, p) = At(fs, p)
           /\ \A c \in done : c.path = p /\ (\A k \in done : k.path = p => k = c) =>
                At(made, p) = Outcome(c, At(fs, p), Brought(d, ContentsOf(changes), c))
<1>1. Listing(b) /\ Listing(a) /\ \A e \in state : IsEntry(e)
  BY DEF Setting, Follows
<1>2. ASSUME NEW c \in done
      PROVE  /\ \A f \in Outcome(c, At(fs, c.path), Brought(d, ContentsOf(changes), c)) :
                  f.path = c.path
  <2>1. c \in ChangesOf(b, a) /\ c.op # "Removed"
    BY DEF DoneOf
  <2>2. \A e \in At(fs, c.path) : IsEntry(e) /\ e.path = c.path
    BY <1>1 DEF At, Remaining
  <2> QED
    BY <1>1, <2>1, <2>2, OutcomePath
<1> DEFINE G(c) == Outcome(c, At(fs, c.path), Brought(d, ContentsOf(changes), c))
<1>3. made = {e \in fs : e.path \notin PathsOf(done)} \cup UNION {G(c) : c \in done}
  BY DEF OutcomesOf
<1>4. \A c \in done : \A f \in G(c) : f.path = c.path
  BY <1>2
<1> HIDE DEF G
<1>5. ASSUME \A c \in done : c.path # p
      PROVE  At(made, p) = At(fs, p)
  BY <1>3, <1>4, <1>5 DEF At, PathsOf
<1>6. ASSUME NEW c \in done, c.path = p, \A k \in done : k.path = p => k = c
      PROVE  At(made, p) = G(c)
  BY <1>3, <1>4, <1>6 DEF At, PathsOf
<1>7. ASSUME NEW c \in done, c.path = p
      PROVE  G(c) = Outcome(c, At(fs, p), Brought(d, ContentsOf(changes), c))
  BY <1>7 DEF G
<1> QED
  BY <1>5, <1>6, <1>7

\* A run of the diff from b to a.
Course(b, a, start, state, drift, wide, marks,
       d, stored, refused, moved, done, made, after, result) ==
    /\ Setting(b, a, start, state, drift, wide, marks)
    /\ Runs(d, ChangesOf(b, a), state, stored, refused, moved, marks,
            done, made, after, result)

\* What is made at the path of an entry is as the entry says.
Holds(made, y, wide, after) ==
    /\ (\E e \in made : e.path = y.path) \/ y.path \in after.astray
    /\ \A e \in made : e.path = y.path => IsEntry(e) /\ Fits(e, y, wide, after)

LEMMA AtIs ==
    ASSUME NEW made, NEW p, NEW e
    PROVE  e \in At(made, p) <=> e \in made /\ e.path = p
  BY DEF At

\* What fits still does with as much to depart in.
LEMMA FitsStill ==
    ASSUME NEW e, NEW y, NEW drift, NEW marks, NEW after, Fits(e, y, drift, marks),
           e.path \in marks.astray => e.path \in after.astray,
           e.path \in marks.unset => e.path \in after.unset,
           e.path \in marks.untimed => e.path \in after.untimed
    PROVE  Fits(e, y, drift, after)
  BY DEF Fits

LEMMA FitsAlike ==
    ASSUME NEW y, Proper(y), NEW drift \in Nat, NEW marks, NEW e,
           e.kind = y.kind, e.symlink_target = y.symlink_target,
           e.hash = y.hash \/ e.path \in marks.astray, e.metadata = y.metadata
    PROVE  Fits(e, y, drift, marks)
<1>1. PICK n \in Int : n = y.metadata.mtime
  BY DEF Proper
<1>2. n - n \in -drift .. drift
  OBVIOUS
<1>3. e.metadata.mtime = n /\ e.metadata.mode = y.metadata.mode
  BY <1>1
<1> QED
  BY <1>1, <1>2, <1>3 DEF Fits

\* Of an entry as good as equal to the next one, what follows it follows that.
LEMMA FitsNext ==
    ASSUME NEW e, NEW x, NEW y, NEW drift \in Nat, NEW marks, Fits(e, x, drift, marks),
           Proper(x), Proper(y), SamePlace(x, y), Equivalent(x, y)
    PROVE  Fits(e, y, drift + MTIME_TOLERANCE, marks)
<1>1. x.kind = y.kind /\ x.hash = y.hash /\ x.symlink_target = y.symlink_target
  BY DEF SamePlace, Equivalent
<1>2. PICK i \in Int, j \in Int, k \in Int :
        i = e.metadata.mtime /\ j = x.metadata.mtime /\ k = y.metadata.mtime
  BY DEF Fits, Proper
<1>3. x.metadata.mode = y.metadata.mode /\ j - k \in -MTIME_TOLERANCE .. MTIME_TOLERANCE
  BY <1>2 DEF Equivalent, matches, mtime_matches
<1>4. i - j \in -drift .. drift => i - k \in -(drift + MTIME_TOLERANCE) .. drift + MTIME_TOLERANCE
  BY <1>3, ToleranceAssumption
<1>5. i - j \in -drift .. drift \/ e.path \in marks.astray \cup marks.untimed
  BY <1>2 DEF Fits
<1>6. e.metadata.mtime - y.metadata.mtime \in -(drift + MTIME_TOLERANCE) .. drift + MTIME_TOLERANCE
      \/ e.path \in marks.astray \cup marks.untimed
  BY <1>2, <1>4, <1>5
<1>7. e.metadata.mtime \in Int
  BY <1>2
<1> QED
  BY <1>1, <1>3, <1>6, <1>7 DEF Fits

LEMMA CourseIs ==
    ASSUME NEW b, NEW a, NEW start, NEW state, NEW drift, NEW wide, NEW marks,
           NEW d, NEW stored, NEW refused, NEW moved, NEW done, NEW made, NEW after, NEW result,
           Course(b, a, start, state, drift, wide, marks,
                  d, stored, refused, moved, done, made, after, result)
    PROVE  /\ Listing(b) /\ Listing(a) /\ drift \in Nat /\ wide \in Nat
           /\ \/ start = b /\ wide = drift + MTIME_TOLERANCE
              \/ start = a /\ wide = drift
           /\ Follows(state, start, drift, marks)
           /\ done = DoneOf(ChangesOf(b, a), Remaining(state, ChangesOf(b, a)), stored)
           /\ made = OutcomesOf(d, ChangesOf(b, a), Remaining(state, ChangesOf(b, a)), done)
           /\ result = {Dressed(e, after) : e \in made}
  BY DEF Course, Setting, Runs

\* What is made at a path of which no change is done, or just one.
LEMMA CourseAt ==
    ASSUME NEW b, NEW a, NEW start, NEW state, NEW drift, NEW wide, NEW marks,
           NEW d, NEW stored, NEW refused, NEW moved, NEW done, NEW made, NEW after, NEW result,
           Course(b, a, start, state, drift, wide, marks,
                  d, stored, refused, moved, done, made, after, result),
           NEW p, NEW there, there = At(Remaining(state, ChangesOf(b, a)), p)
    PROVE  /\ (\A c \in done : c.path # p) => At(made, p) = there
           /\ \A c \in done : c.path = p /\ (\A k \in done : k.path = p => k = c) =>
                At(made, p) = Outcome(c, there, Brought(d, ContentsOf(ChangesOf(b, a)), c))
<1>1. PICK changes, fs : changes = ChangesOf(b, a) /\ fs = Remaining(state, changes)
  OBVIOUS
<1>2. /\ Setting(b, a, start, state, drift, wide, marks)
      /\ done = DoneOf(changes, fs, stored)
      /\ made = OutcomesOf(d, changes, fs, done)
  BY <1>1, CourseIs DEF Course
<1>3. /\ (\A c \in done : c.path # p) => At(made, p) = At(fs, p)
      /\ \A c \in done : c.path = p /\ (\A k \in done : k.path = p => k = c) =>
           At(made, p) = Outcome(c, At(fs, p), Brought(d, ContentsOf(changes), c))
  BY <1>1, <1>2, MadeAt
<1> QED
  BY <1>1, <1>3

\* What there was of an entry that stays: it fits the entry it follows.
LEMMA CourseThere ==
    ASSUME NEW b, NEW a, NEW start, NEW state, NEW drift, NEW wide, NEW marks,
           NEW d, NEW stored, NEW refused, NEW moved, NEW done, NEW made, NEW after, NEW result,
           Course(b, a, start, state, drift, wide, marks,
                  d, stored, refused, moved, done, made, after, result),
           NEW x \in b, NEW y \in a, SamePlace(x, y), NEW there,
           there = At(Remaining(state, ChangesOf(b, a)), y.path)
    PROVE  /\ there # {} \/ y.path \in marks.astray
           /\ \A e \in there : IsEntry(e) /\ e.path = y.path
           /\ \/ start = b /\ wide = drift + MTIME_TOLERANCE
                 /\ \A e \in there : Fits(e, x, drift, marks)
              \/ start = a /\ wide = drift
                 /\ \A e \in there : Fits(e, y, drift, marks)
<1>1. /\ Listing(b) /\ Listing(a) /\ Follows(state, start, drift, marks)
      /\ \/ start = b /\ wide = drift + MTIME_TOLERANCE
         \/ start = a /\ wide = drift
  BY CourseIs
<1>2. there = At(state, y.path)
  BY <1>1, StaysThere
<1>3. x.path = y.path
  BY DEF SamePlace
<1>4. \A e : e \in there <=> e \in state /\ e.path = y.path
  BY <1>2, AtIs
<1>5. \A e \in there : IsEntry(e) /\ e.path = y.path
  BY <1>1, <1>4 DEF Follows
<1>6. \E s \in start : s.path = y.path
  BY <1>1, <1>3
<1>7. (\E t \in state : t.path = y.path) \/ y.path \in marks.astray
  BY <1>1, <1>6 DEF Follows
<1>8. \A e \in there, s \in start : s.path = y.path => Fits(e, s, drift, marks)
  BY <1>1, <1>4 DEF Follows
<1>9. there # {} \/ y.path \in marks.astray
  BY <1>4, <1>7
<1> QED
  BY <1>1, <1>3, <1>5, <1>8, <1>9

\* Where nothing is sent, what there was stays.
LEMMA KeptStays ==
    ASSUME NEW b, NEW a, NEW start, NEW state, NEW drift, NEW wide, NEW marks,
           NEW d, NEW stored, NEW refused, NEW moved, NEW done, NEW made, NEW after, NEW result,
           Course(b, a, start, state, drift, wide, marks,
                  d, stored, refused, moved, done, made, after, result),
           NEW x \in b, NEW y \in a, SamePlace(x, y), Equivalent(x, y)
    PROVE  Holds(made, y, wide, after)
<1>1. Listing(b) /\ Listing(a) /\ drift \in Nat
  BY CourseIs
<1>2. PICK changes : changes = ChangesOf(b, a)
  OBVIOUS
<1>3. \A c \in changes : c.path # y.path
  BY <1>1, <1>2, NothingChanges
<1>4. done \subseteq changes
  BY <1>2, CourseIs DEF DoneOf
<1>5. PICK there : there = At(Remaining(state, ChangesOf(b, a)), y.path)
  OBVIOUS
<1>6. At(made, y.path) = there
  BY <1>3, <1>4, <1>5, CourseAt
<1>7. /\ there # {} \/ y.path \in marks.astray
      /\ \A e \in there : IsEntry(e) /\ e.path = y.path
      /\ \/ start = b /\ wide = drift + MTIME_TOLERANCE
            /\ \A e \in there : Fits(e, x, drift, marks)
         \/ start = a /\ wide = drift
            /\ \A e \in there : Fits(e, y, drift, marks)
  BY <1>5, CourseThere
<1>8. Runs(d, changes, state, stored, refused, moved, marks, done, made, after, result)
  BY <1>2 DEF Course
<1>9. /\ y.path \in marks.unset => y.path \in after.unset
      /\ y.path \in marks.untimed => y.path \in after.untimed
  BY <1>3, <1>4, <1>8, StillMarked
<1>10. y.path \in after.astray <=> y.path \in marks.astray
  BY <1>3, <1>8, StillAstray
<1>11. Proper(x) /\ Proper(y)
  BY <1>1, ListingFinds
<1>12. ASSUME NEW e \in there
       PROVE  IsEntry(e) /\ Fits(e, y, wide, after)
  <2>1. CASE Fits(e, y, drift, marks) /\ wide = drift
    BY <1>7, <1>9, <1>10, <2>1, FitsStill
  <2>2. CASE Fits(e, x, drift, marks) /\ wide = drift + MTIME_TOLERANCE
    <3>1. Fits(e, y, wide, marks)
      BY <1>1, <1>11, <2>2, FitsNext
    <3> QED
      BY <1>7, <1>9, <1>10, <3>1, FitsStill
  <2>3. IsEntry(e)
    BY <1>7
  <2> QED
    BY <1>7, <2>1, <2>2, <2>3
<1>13. \A e : e \in there <=> e \in made /\ e.path = y.path
  BY <1>6, AtIs
<1> QED
  BY <1>7, <1>10, <1>12, <1>13 DEF Holds

\* What is stored at a path.
LEMMA StoredStays ==
    ASSUME NEW b, NEW a, NEW start, NEW state, NEW drift, NEW wide, NEW marks,
           NEW d, NEW stored, NEW refused, NEW moved, NEW done, NEW made, NEW after, NEW result,
           Course(b, a, start, state, drift, wide, marks,
                  d, stored, refused, moved, done, made, after, result),
           NEW y \in a, y.kind = "File",
           NEW c \in done, c \in ChangesOf(b, a), c.path = y.path, HasContent(c),
           MetadataOf(c) = Some(y.metadata), HashOfContent(c) = y.hash,
           \A k \in done : k.path = y.path => k = c
    PROVE  Holds(made, y, wide, after)
<1>1. Listing(a) /\ wide \in Nat
  BY CourseIs
<1>2. PICK changes : changes = ChangesOf(b, a)
  OBVIOUS
<1>3. PICK there : there = At(Remaining(state, ChangesOf(b, a)), y.path)
  OBVIOUS
<1>4. PICK hash : hash = Brought(d, ContentsOf(changes), c)
  OBVIOUS
<1>5. At(made, y.path) = Outcome(c, there, hash)
  BY <1>2, <1>3, <1>4, CourseAt
<1>6. IsEntry(y) /\ Proper(y) /\ y.path \in Seq(Nat)
  BY <1>1, ListingFinds
<1>7. PICK m : m = y.metadata
  OBVIOUS
<1>8. IsMetadata(m) /\ MetadataOf(c) = Some(m) /\ c.path \in Seq(Nat)
  BY <1>6, <1>7, EntryMetadata
<1>9. PICK e : /\ Outcome(c, there, hash) = {e}
               /\ IsEntry(e) /\ e.path = c.path /\ e.kind = "File" /\ e.hash = hash
               /\ e.symlink_target = None /\ e.metadata = m
  BY <1>8, StoredIs
<1>10. Runs(d, changes, state, stored, refused, moved, marks, done, made, after, result)
  BY <1>2 DEF Course
<1>11. hash = y.hash \/ y.path \in after.astray
  <2>1. CASE hash # HashOfContent(c)
    <3>1. c.path \in after.astray
      BY <1>2, <1>4, <1>10, <2>1, GoesAstray
    <3> QED
      BY <3>1
  <2> QED
    BY <2>1
<1>12. Fits(e, y, wide, after)
  <2>1. y.symlink_target = None
    BY <1>6 DEF Proper
  <2> QED
    BY <1>1, <1>6, <1>7, <1>9, <1>11, <2>1, FitsAlike
<1>13. \A f : f = e <=> f \in made /\ f.path = y.path
  <2>1. At(made, y.path) = {e}
    BY <1>5, <1>9
  <2>2. \A f : f \in At(made, y.path) <=> f \in made /\ f.path = y.path
    BY AtIs
  <2> QED
    BY <2>1, <2>2
<1> QED
  BY <1>9, <1>12, <1>13 DEF Holds

\* A file whose content does not come keeps what there was, and is astray.
LEMMA UnstoredStays ==
    ASSUME NEW b, NEW a, NEW start, NEW state, NEW drift, NEW wide, NEW marks,
           NEW d, NEW stored, NEW refused, NEW moved, NEW done, NEW made, NEW after, NEW result,
           Course(b, a, start, state, drift, wide, marks,
                  d, stored, refused, moved, done, made, after, result),
           NEW y \in a, y.kind = "File",
           NEW c \in ChangesOf(b, a), c.path = y.path, HasContent(c), c \notin done,
           \A k \in done : k.path # y.path,
           NEW there, there = At(Remaining(state, ChangesOf(b, a)), y.path),
           \A e \in there : /\ IsEntry(e)
                            /\ \E s, t : Fits(e, s, t, marks) /\ s.kind = "File" /\ s.symlink_target = None
    PROVE  Holds(made, y, wide, after)
<1>1. PICK changes : changes = ChangesOf(b, a)
  OBVIOUS
<1>2. Runs(d, changes, state, stored, refused, moved, marks, done, made, after, result)
  BY <1>1 DEF Course
<1>3. c.path \in after.astray
  BY <1>1, <1>2, GoesAstray
<1>4. At(made, y.path) = there
  BY CourseAt
<1>5. \A e : e \in there <=> e \in made /\ e.path = y.path
  BY <1>4, AtIs
<1>6. y.symlink_target = None
  BY CourseIs, ListingFinds DEF Proper
<1>7. ASSUME NEW e \in there
      PROVE  Fits(e, y, wide, after)
  <2>1. e.kind = "File" /\ e.symlink_target = None /\ e.metadata.mtime \in Int
    BY <1>7 DEF Fits
  <2>2. e.path \in after.astray
    BY <1>3, <1>5, <1>7
  <2> QED
    BY <1>6, <2>1, <2>2 DEF Fits
<1> QED
  BY <1>3, <1>5, <1>7 DEF Holds

\* Nothing of the same kind is in the way of a modification.
LEMMA NotInTheWay ==
    ASSUME NEW x, Proper(x), NEW y, Proper(y), SamePlace(x, y),
           NEW c, IsModification(c, x, y),
           NEW there, \A e \in there : e.kind = y.kind
    PROVE  ~ Blocked(c, there)
<1>1. c.op # "Added" /\ c.op # "Removed"
  BY DEF IsModification
<1>2. HasContent(c) => y.kind = "File"
  BY <1>1 DEF HasContent, IsModification
<1>3. Retargets(c) => y.kind = "Symlink"
  BY DEF Retargets, IsModification, Proper
<1> QED
  BY <1>1, <1>2, <1>3 DEF Blocked, AddsDirectory, AddsLink

LEMMA ModifiedStays ==
    ASSUME NEW b, NEW a, NEW start, NEW state, NEW drift, NEW wide, NEW marks,
           NEW d, NEW stored, NEW refused, NEW moved, NEW done, NEW made, NEW after, NEW result,
           Course(b, a, start, state, drift, wide, marks,
                  d, stored, refused, moved, done, made, after, result),
           NEW x \in b, NEW y \in a, SamePlace(x, y), ~ Equivalent(x, y)
    PROVE  Holds(made, y, wide, after)
<1>1. Listing(b) /\ Listing(a) /\ drift \in Nat /\ wide \in Nat
  BY CourseIs
<1>2. Proper(x) /\ Proper(y) /\ IsEntry(y)
  BY <1>1, ListingFinds
<1>3. PICK changes : changes = ChangesOf(b, a)
  OBVIOUS
<1>4. PICK c \in changes : /\ IsModification(c, x, y)
                           /\ \A k \in changes : k.path = y.path => k = c
  BY <1>1, <1>3, OneModifies
<1>5. PICK there : there = At(Remaining(state, ChangesOf(b, a)), y.path)
  OBVIOUS
<1>6. /\ there # {} \/ y.path \in marks.astray
      /\ \A e \in there : IsEntry(e) /\ e.path = y.path
      /\ \E s \in {x, y} : \A e \in there : Fits(e, s, drift, marks)
  BY <1>5, CourseThere
<1>7. PICK s \in {x, y} : \A e \in there : Fits(e, s, drift, marks)
  BY <1>6
<1>8. Proper(s) /\ s.kind = y.kind /\ \A e \in there : e.kind = y.kind
  BY <1>2, <1>7 DEF Fits, SamePlace
<1>9. ~ Blocked(c, there) /\ c.op # "Removed" /\ c.path = y.path
  BY <1>2, <1>4, <1>8, NotInTheWay DEF IsModification
<1>10. /\ done \subseteq changes
       /\ c \in done <=> (HasContent(c) => c \in stored)
  BY <1>3, <1>4, <1>5, <1>9, CourseIs DEF DoneOf
<1>11. \A k \in done : k.path = y.path => k = c
  BY <1>4, <1>10
<1>12. Runs(d, changes, state, stored, refused, moved, marks, done, made, after, result)
  BY <1>3 DEF Course
<1>13. c.op = "Modified"
  BY <1>4 DEF IsModification
<1>14. CASE HasContent(c)
  <2>1. /\ y.kind = "File" /\ c.new_hash = y.hash /\ c.new_metadata = Some(y.metadata)
    BY <1>4, <1>14 DEF HasContent, IsModification
  <2>2. MetadataOf(c) = Some(y.metadata) /\ HashOfContent(c) = y.hash
    BY <1>13, <2>1 DEF MetadataOf, HashOfContent
  <2>3. CASE c \in done
    BY <1>3, <1>9, <1>11, <1>14, <2>1, <2>2, <2>3, StoredStays
  <2>4. CASE c \notin done
    <3>1. \A k \in done : k.path # y.path
      BY <1>11, <2>4
    <3>2. s.kind = "File" /\ s.symlink_target = None
      BY <1>8, <2>1 DEF Proper
    <3>3. \A e \in there : /\ IsEntry(e)
                           /\ \E u, t : /\ Fits(e, u, t, marks)
                                        /\ u.kind = "File" /\ u.symlink_target = None
      BY <1>6, <1>7, <3>2
    <3> QED
      BY <1>3, <1>4, <1>5, <1>9, <1>14, <2>1, <2>4, <3>1, <3>3, UnstoredStays
  <2> QED
    BY <2>3, <2>4
<1>15. CASE ~ HasContent(c)
  <2>1. c \in done
    BY <1>10, <1>15
  <2>2. x.hash = y.hash /\ c.new_hash = None
    BY <1>4, <1>13, <1>15 DEF HasContent, IsModification
  <2>3. PICK hash : hash = Brought(d, ContentsOf(changes), c)
    OBVIOUS
  <2>4. At(made, y.path) = Outcome(c, there, hash)
    BY <1>3, <1>5, <1>9, <1>11, <2>1, <2>3, CourseAt
  <2>5. MetadataOf(c) = c.new_metadata
    BY <1>13 DEF MetadataOf
  <2>6. PICK m : m = y.metadata
    OBVIOUS
  <2>7. IsMetadata(m)
    BY <1>2, <2>6, EntryMetadata
  <2>8. \A f : f \in At(made, y.path) <=> f \in made /\ f.path = y.path
    BY AtIs
  <2>9. CASE Retargets(c)
    <3>1. c.new_symlink_target = y.symlink_target /\ y.symlink_target # None
      BY <1>4, <2>9 DEF Retargets, IsModification
    <3>2. y.kind = "Symlink" /\ y.hash = None
      BY <1>2, <3>1 DEF Proper
    <3>3. c.new_metadata = Some(m) \/ c.new_metadata = None
      BY <1>4, <2>6 DEF IsModification
    <3>4. PICK n : n = OrElse(MetadataOf(c), Bare)
      OBVIOUS
    <3>5. n = m \/ (n = Bare /\ MetadataOf(c) = None)
      BY <2>5, <3>3, <3>4, OrElseIs
    <3>6. IsMetadata(n)
      BY <2>7, <3>5 DEF IsMetadata, Bare
    <3>7. c.path \in Seq(Nat)
      BY <1>2, <1>9 DEF Proper
    <3>8. PICK e : /\ Outcome(c, there, hash) = {e}
                   /\ IsEntry(e) /\ e.path = c.path /\ e.kind = "Symlink" /\ e.hash = None
                   /\ e.symlink_target = c.new_symlink_target /\ e.metadata = n
      BY <1>15, <2>9, <3>4, <3>6, <3>7, RetargetedIs
    <3>9. CASE n = m
      <4>1. Fits(e, y, wide, after)
        BY <1>1, <1>2, <2>6, <3>1, <3>2, <3>8, <3>9, FitsAlike
      <4> QED
        BY <1>9, <2>4, <2>8, <3>8, <4>1 DEF Holds
    <3>10. CASE n = Bare /\ MetadataOf(c) = None
      <4>1. e.path \in after.unset /\ e.path \in after.untimed
        BY <1>12, <2>1, <2>9, <3>8, <3>10, BareMarked
      <4>2. e.metadata.mtime \in Int
        BY <3>8, <3>10, SyncAssumption DEF Bare
      <4>3. Fits(e, y, wide, after)
        BY <3>1, <3>2, <3>8, <4>1, <4>2 DEF Fits
      <4> QED
        BY <1>9, <2>4, <2>8, <3>8, <4>3 DEF Holds
    <3> QED
      BY <3>5, <3>9, <3>10
  <2>10. CASE ~ Retargets(c)
    <3>1. c.new_symlink_target = None
      BY <1>13, <2>10 DEF Retargets
    <3>2. x.symlink_target = y.symlink_target
      BY <1>2, <1>4, <3>1 DEF IsModification, SamePlace, Proper
    <3>3. ~ matches(x.metadata, y.metadata)
      BY <2>2, <3>2 DEF Equivalent
    <3>4. c.new_metadata = Some(m)
      BY <1>4, <2>6, <3>3 DEF IsModification
    <3>5. Outcome(c, there, hash) = {Updated(e, c) : e \in there}
      BY <1>13, <1>15, <2>10 DEF Outcome
    <3>6. \A k \in changes : k.path = y.path => k.op # "Removed" /\ ~ HasContent(k)
      BY <1>4, <1>9, <1>15
    <3>7. y.path \in after.astray <=> y.path \in marks.astray
      BY <1>12, <3>6, StillAstray
    <3>8. s.hash = y.hash /\ s.symlink_target = y.symlink_target
      BY <1>7, <2>2, <3>2
    <3>9. ASSUME NEW e \in there, NEW f, f = Updated(e, c)
          PROVE  f.path = y.path /\ IsEntry(f) /\ Fits(f, y, wide, after)
      <4>1. IsEntry(e) /\ e.path = y.path /\ Fits(e, s, drift, marks)
        BY <1>6, <1>7
      <4>2. /\ IsEntry(f) /\ f.path = e.path /\ f.kind = e.kind /\ f.hash = e.hash
            /\ f.symlink_target = e.symlink_target /\ f.metadata = m
        BY <2>2, <2>7, <3>1, <3>4, <3>9, <4>1, UpdatedEntry
      <4>3. /\ f.kind = y.kind /\ f.symlink_target = y.symlink_target
            /\ f.hash = y.hash \/ f.path \in after.astray
        BY <1>8, <3>7, <3>8, <4>1, <4>2 DEF Fits
      <4>4. Fits(f, y, wide, after)
        BY <1>1, <1>2, <2>6, <4>2, <4>3, FitsAlike
      <4> QED
        BY <4>1, <4>2, <4>4
    <3>10. \A f \in At(made, y.path) : IsEntry(f) /\ Fits(f, y, wide, after)
      BY <2>4, <3>5, <3>9
    <3>11. (\E f : f \in At(made, y.path)) \/ y.path \in after.astray
      BY <1>6, <2>4, <3>5, <3>7
    <3> QED
      BY <2>8, <3>10, <3>11 DEF Holds
  <2> QED
    BY <2>9, <2>10
<1> QED
  BY <1>14, <1>15

LEMMA AddedStays ==
    ASSUME NEW b, NEW a, NEW start, NEW state, NEW drift, NEW wide, NEW marks,
           NEW d, NEW stored, NEW refused, NEW moved, NEW done, NEW made, NEW after, NEW result,
           Course(b, a, start, state, drift, wide, marks,
                  d, stored, refused, moved, done, made, after, result),
           NEW y \in a, ~ \E x \in b : SamePlace(x, y)
    PROVE  Holds(made, y, wide, after)
<1>1. Listing(b) /\ Listing(a) /\ drift \in Nat /\ wide \in Nat
      /\ Follows(state, start, drift, marks)
  BY CourseIs
<1>2. Proper(y) /\ IsEntry(y)
  BY <1>1, ListingFinds
<1>3. PICK changes : changes = ChangesOf(b, a)
  OBVIOUS
<1>4. PICK c \in changes : /\ IsAddition(c, y)
                           /\ \A k \in changes : k.path = y.path => k = c \/ k.op = "Removed"
  BY <1>1, <1>3, OneAdds
<1>5. c.op = "Added" /\ c.path = y.path /\ c.entry = y /\ (HasContent(c) <=> y.kind = "File")
  BY <1>4 DEF IsAddition, HasContent
<1>6. PICK there : there = At(Remaining(state, ChangesOf(b, a)), y.path)
  OBVIOUS
<1>7. Setting(b, a, start, state, drift, wide, marks)
  BY DEF Course
<1>8. ASSUME NEW e \in there
      PROVE  start = a /\ wide = drift /\ IsEntry(e) /\ e.path = y.path /\ Fits(e, y, drift, marks)
  <2>1. start = a /\ wide = drift /\ e \in state /\ e.path = y.path /\ Fits(e, y, drift, marks)
    BY <1>6, <1>7, NewThere
  <2> QED
    BY <1>1, <2>1 DEF Follows
<1>9. \A e \in there : e.kind = y.kind
  BY <1>8 DEF Fits
<1>10. /\ done \subseteq changes
       /\ \A k \in done : k.op # "Removed"
       /\ c \in done <=> (HasContent(c) => c \in stored) /\ ~ Blocked(c, there)
  BY <1>3, <1>4, <1>5, <1>6, CourseIs DEF DoneOf
<1>11. \A k \in done : k.path = y.path => k = c
  BY <1>4, <1>10
<1>12. Runs(d, changes, state, stored, refused, moved, marks, done, made, after, result)
  BY <1>3 DEF Course
<1>13. \A f : f \in At(made, y.path) <=> f \in made /\ f.path = y.path
  BY AtIs
<1>14. ~ Retargets(c)
  BY <1>5 DEF Retargets
<1>15. CASE y.kind = "File"
  <2>1. HasContent(c) /\ ~ AddsLink(c) /\ ~ AddsDirectory(c)
    BY <1>5, <1>15 DEF AddsLink, AddsDirectory
  <2>2. MetadataOf(c) = Some(y.metadata) /\ HashOfContent(c) = y.hash
    BY <1>5 DEF MetadataOf, HashOfContent
  <2>3. CASE c \in done
    BY <1>3, <1>5, <1>11, <1>15, <2>1, <2>2, <2>3, StoredStays
  <2>4. CASE c \notin done
    <3>1. \A k \in done : k.path # y.path
      BY <1>11, <2>4
    <3>2. y.symlink_target = None
      BY <1>2, <1>15 DEF Proper
    <3>3. \A e \in there : /\ IsEntry(e)
                           /\ \E u, t : /\ Fits(e, u, t, marks)
                                        /\ u.kind = "File" /\ u.symlink_target = None
      BY <1>8, <1>15, <3>2
    <3> QED
      BY <1>3, <1>4, <1>5, <1>6, <1>15, <2>1, <2>4, <3>1, <3>3, UnstoredStays
  <2> QED
    BY <2>3, <2>4
<1>16. CASE y.kind # "File" /\ c \in done
  <2>1. PICK hash : hash = Brought(d, ContentsOf(changes), c)
    OBVIOUS
  <2>2. At(made, y.path) = Outcome(c, there, hash)
    BY <1>3, <1>5, <1>6, <1>11, <1>16, <2>1, CourseAt
  <2>3. Outcome(c, there, hash) = {y}
    BY <1>5, <1>16 DEF Outcome
  <2>4. Fits(y, y, wide, after)
    BY <1>1, <1>2, FitsAlike
  <2>5. \A f \in made : f.path = y.path => f = y
    BY <1>13, <2>2, <2>3
  <2>6. y \in made
    BY <1>13, <2>2, <2>3
  <2> QED
    BY <1>2, <2>4, <2>5, <2>6 DEF Holds
<1>17. CASE y.kind # "File" /\ c \notin done
  <2>1. \A k \in done : k.path # y.path
    BY <1>11, <1>17
  <2>2. At(made, y.path) = there
    BY <1>6, <2>1, CourseAt
  <2>3. Blocked(c, there)
    BY <1>5, <1>10, <1>17
  <2>4. PICK e \in there : TRUE
    BY <2>3 DEF Blocked
  <2>5. start = a /\ wide = drift
    BY <1>8
  <2>6. y.path \notin marks.astray
    <3>1. ASSUME y.path \in marks.astray
          PROVE  FALSE
      <4>1. PICK s \in a : s.path = y.path /\ s.kind = "File"
        BY <1>1, <2>5, <3>1 DEF Follows
      <4>2. s = y
        BY <1>1, <4>1, ListingFinds
      <4> QED
        BY <1>17, <4>1, <4>2
    <3> QED
      BY <3>1
  <2>7. /\ y.path \in marks.unset => y.path \in after.unset
        /\ y.path \in marks.untimed => y.path \in after.untimed
    BY <1>12, <2>1, StillMarked
  <2>8. ASSUME NEW f \in there
        PROVE  Fits(f, y, wide, after)
    BY <1>8, <2>5, <2>6, <2>7, FitsStill
  <2> QED
    BY <1>8, <1>13, <2>2, <2>4, <2>8 DEF Holds
<1> QED
  BY <1>15, <1>16, <1>17

\* What is no more.
LEMMA NoneStays ==
    ASSUME NEW b, NEW a, NEW start, NEW state, NEW drift, NEW wide, NEW marks,
           NEW d, NEW stored, NEW refused, NEW moved, NEW done, NEW made, NEW after, NEW result,
           Course(b, a, start, state, drift, wide, marks,
                  d, stored, refused, moved, done, made, after, result),
           NEW e \in made
    PROVE  \E y \in a : y.path = e.path
<1> SUFFICES ASSUME \A y \in a : y.path # e.path
             PROVE  FALSE
  OBVIOUS
<1>1. PICK changes : changes = ChangesOf(b, a)
  OBVIOUS
<1>2. Listing(b) /\ Listing(a)
      /\ done = DoneOf(changes, Remaining(state, changes), stored)
  BY <1>1, CourseIs
<1>3. ASSUME NEW c \in done
      PROVE  c.path # e.path
  <2>1. c \in changes /\ c.op # "Removed"
    BY <1>2 DEF DoneOf
  <2>2. \E y \in a : c.path = y.path
    BY <1>1, <1>2, <2>1, ChangeStands DEF IsAddition, IsModification
  <2> QED
    BY <2>2
<1>4. PICK p : p = e.path
  OBVIOUS
<1>5. PICK there : there = At(Remaining(state, ChangesOf(b, a)), p)
  OBVIOUS
<1>6. Setting(b, a, start, state, drift, wide, marks)
  BY DEF Course
<1>7. there = {}
  BY <1>4, <1>5, <1>6, GoneThere
<1>8. At(made, p) = there
  BY <1>3, <1>4, <1>5, CourseAt
<1> QED
  BY <1>4, <1>7, <1>8, AtIs

\* Only files are astray.
LEMMA AstrayFiles ==
    ASSUME NEW b, NEW a, NEW start, NEW state, NEW drift, NEW wide, NEW marks,
           NEW d, NEW stored, NEW refused, NEW moved, NEW done, NEW made, NEW after, NEW result,
           Course(b, a, start, state, drift, wide, marks,
                  d, stored, refused, moved, done, made, after, result),
           NEW p \in after.astray
    PROVE  \E y \in a : y.path = p /\ y.kind = "File"
<1>1. PICK changes : changes = ChangesOf(b, a)
  OBVIOUS
<1>2. Listing(b) /\ Listing(a) /\ Follows(state, start, drift, marks) /\ start \in {a, b}
  BY CourseIs
<1>3. Runs(d, changes, state, stored, refused, moved, marks, done, made, after, result)
  BY <1>1 DEF Course
<1>4. \/ p \in marks.astray /\ \A c \in changes : c.path = p => c.op # "Removed"
      \/ \E c \in changes : c.path = p /\ HasContent(c)
  BY <1>3, AstrayWhy
<1>5. CASE \E c \in changes : c.path = p /\ HasContent(c)
  <2>1. PICK c \in changes : c.path = p /\ HasContent(c)
    BY <1>5
  <2>2. c.op # "Removed" /\ c.has_content
    BY <2>1 DEF HasContent
  <2>3. CASE \E y \in a : IsAddition(c, y)
    BY <2>1, <2>2, <2>3 DEF IsAddition
  <2>4. CASE \E x \in b, y \in a : IsModification(c, x, y)
    BY <2>1, <2>2, <2>4 DEF IsModification
  <2> QED
    BY <1>1, <1>2, <2>2, <2>3, <2>4, ChangeStands
<1>6. CASE p \in marks.astray /\ \A c \in changes : c.path = p => c.op # "Removed"
  <2>1. PICK s \in start : s.path = p /\ s.kind = "File"
    BY <1>2, <1>6 DEF Follows
  <2>2. CASE start = b
    <3>1. \E y \in a : SamePlace(s, y)
      BY <1>1, <1>6, <2>1, <2>2, RemovalOf
    <3> QED
      BY <2>1, <3>1 DEF SamePlace
  <2> QED
    BY <1>2, <2>1, <2>2
<1> QED
  BY <1>4, <1>5, <1>6

\* The step of a round that matters: a target that follows one listing
\* follows the next one after the diff between the two.
LEMMA CourseFollows ==
    ASSUME NEW b, NEW a, NEW start, NEW state, NEW drift, NEW wide, NEW marks,
           NEW d, NEW stored, NEW refused, NEW moved, NEW done, NEW made, NEW after, NEW result,
           Course(b, a, start, state, drift, wide, marks,
                  d, stored, refused, moved, done, made, after, result)
    PROVE  Follows(result, a, wide, after)
<1>1. Listing(a) /\ result = {Dressed(e, after) : e \in made}
  BY CourseIs
<1>2. ASSUME NEW y \in a
      PROVE  Holds(made, y, wide, after)
  <2>1. CASE \A x \in b : ~ SamePlace(x, y)
    BY <2>1, AddedStays
  <2>2. ASSUME NEW x \in b, SamePlace(x, y), Equivalent(x, y)
        PROVE  Holds(made, y, wide, after)
    BY <2>2, KeptStays
  <2>3. ASSUME NEW x \in b, SamePlace(x, y), ~ Equivalent(x, y)
        PROVE  Holds(made, y, wide, after)
    BY <2>3, ModifiedStays
  <2> QED
    BY <2>1, <2>2, <2>3
<1>3. ASSUME NEW e \in made, NEW t, t = Dressed(e, after)
      PROVE  /\ t.path = e.path /\ IsEntry(t)
             /\ \E y \in a : y.path = t.path
             /\ \A y \in a : y.path = t.path => Fits(t, y, wide, after)
  <2>1. PICK z \in a : z.path = e.path
    BY NoneStays
  <2>2. ASSUME NEW y \in a, y.path = e.path
        PROVE  t.path = e.path /\ IsEntry(t) /\ Fits(t, y, wide, after)
    <3>1. IsEntry(e) /\ Fits(e, y, wide, after)
      BY <1>2, <2>2 DEF Holds
    <3> QED
      BY <1>3, <3>1, DressedFits
  <2> QED
    BY <2>1, <2>2
<1>4. \A t \in result : \E e \in made : t = Dressed(e, after)
  BY <1>1
<1>5. ASSUME NEW y \in a, y.path \notin after.astray
      PROVE  \E t \in result : t.path = y.path
  <2>1. PICK e \in made : e.path = y.path
    BY <1>2, <1>5 DEF Holds
  <2>2. PICK t : t = Dressed(e, after)
    OBVIOUS
  <2>3. t \in result /\ t.path = e.path
    BY <1>1, <1>3, <2>2
  <2> QED
    BY <2>1, <2>3
<1>6. \A p \in after.astray : \E y \in a : y.path = p /\ y.kind = "File"
  BY AstrayFiles
<1> QED
  BY <1>3, <1>4, <1>5, <1>6 DEF Follows

----------------------------------------------------------------------------
(* The invariant.                                                          *)

\* What is carried is the difference of two listings.
Parcel(d) == Ran(d.run)

\* Each diff starts from where the one before it leads, the first from `start'.
Chained(list, start) ==
    /\ \E S : list \in Seq(S)
    /\ \A i \in 1 .. Len(list) :
         /\ Parcel(list[i])
         /\ list[i].run.input = IF i = 1 THEN start ELSE list[i - 1].run.entries

LeadsTo(list, start) == IF list = <<>> THEN start ELSE list[Len(list)].run.entries

\* What the first of the carried diffs is from.
Start == IF tried THEN reached.input ELSE reached.entries

Marks == [astray |-> astray, unset |-> unset, untimed |-> untimed]

SyncInv ==
    /\ IsFileTree(disk)
    /\ applied \in Nat /\ tried \in BOOLEAN
    /\ Ran(run) /\ Ran(reached)
    /\ tried => carried # <<>> /\ Head(carried).run = reached
    /\ Chained(carried, Start)
    /\ snapshot_in = LeadsTo(carried, Start)
    /\ pc = "diff" => run.input = snapshot_in
    /\ Follows(target, reached.entries, applied * MTIME_TOLERANCE, Marks)

LEMMA NoneLong ==
    ASSUME NEW S, NEW list \in Seq(S)
    PROVE  list = <<>> <=> Len(list) = 0
  OBVIOUS

LEMMA ChainListing ==
    ASSUME NEW list, NEW start, Chained(list, start), Listing(start)
    PROVE  Listing(LeadsTo(list, start))
<1>1. CASE list = <<>>
  BY <1>1 DEF LeadsTo
<1>2. CASE list # <<>>
  <2>1. Len(list) \in 1 .. Len(list)
    BY <1>2 DEF Chained
  <2> QED
    BY <1>2, <2>1 DEF Chained, LeadsTo, Parcel, Ran
<1> QED
  BY <1>1, <1>2

LEMMA ChainGrows ==
    ASSUME NEW list, NEW start, Chained(list, start),
           NEW d, Parcel(d), d.run.input = LeadsTo(list, start),
           NEW more, more = Append(list, d)
    PROVE  Chained(more, start) /\ LeadsTo(more, start) = d.run.entries
<1>1. PICK S : list \in Seq(S)
  BY DEF Chained
<1>2. PICK T : T = S \cup {d}
  OBVIOUS
<1>3. list \in Seq(T) /\ d \in T
  BY <1>1, <1>2
<1>4. PICK n \in Nat : n = Len(list)
  BY <1>1
<1>5. /\ more \in Seq(T) /\ Len(more) = n + 1 /\ more # <<>>
      /\ \A i \in 1 .. n : more[i] = list[i]
      /\ more[n + 1] = d
  BY <1>3, <1>4
<1>6. ASSUME NEW i \in 1 .. n
      PROVE  /\ Parcel(more[i])
             /\ more[i].run.input = IF i = 1 THEN start ELSE more[i - 1].run.entries
  <2>1. /\ Parcel(list[i])
        /\ list[i].run.input = IF i = 1 THEN start ELSE list[i - 1].run.entries
    BY <1>4 DEF Chained
  <2>2. more[i] = list[i] /\ (i # 1 => more[i - 1] = list[i - 1])
    BY <1>4, <1>5
  <2> QED
    BY <2>1, <2>2
<1>7. d.run.input = IF n + 1 = 1 THEN start ELSE more[n].run.entries
  <2>1. CASE n = 0
    <3>1. list = <<>>
      BY <1>1, <1>4, <2>1, NoneLong
    <3>2. n + 1 = 1
      BY <2>1
    <3> QED
      BY <3>1, <3>2 DEF LeadsTo
  <2>2. CASE n # 0
    <3>1. list # <<>>
      BY <1>4, <2>2
    <3>2. n \in 1 .. n
      BY <2>2
    <3> QED
      BY <1>4, <1>5, <2>2, <3>1, <3>2 DEF LeadsTo
  <2> QED
    BY <2>1, <2>2
<1>8. Chained(more, start)
  <2>1. \A i \in 1 .. n + 1 : i \in 1 .. n \/ i = n + 1
    BY <1>4
  <2>2. more[n + 1].run.input = IF n + 1 = 1 THEN start ELSE more[(n + 1) - 1].run.entries
    BY <1>4, <1>5, <1>7
  <2> QED
    BY <1>5, <1>6, <2>1, <2>2 DEF Chained
<1> QED
  BY <1>5, <1>8 DEF LeadsTo

LEMMA ChainShrinks ==
    ASSUME NEW list, NEW start, Chained(list, start), list # <<>>,
           NEW d, d = Head(list), NEW rest, rest = Tail(list)
    PROVE  /\ Parcel(d) /\ d.run.input = start
           /\ Chained(rest, d.run.entries)
           /\ LeadsTo(rest, d.run.entries) = LeadsTo(list, start)
<1>1. PICK S : list \in Seq(S)
  BY DEF Chained
<1>2. PICK n \in Nat : n + 1 = Len(list)
  BY <1>1
<1>3. /\ d = list[1] /\ rest \in Seq(S) /\ Len(rest) = n
      /\ \A i \in 1 .. n : rest[i] = list[i + 1]
  BY <1>1, <1>2
<1>4. Parcel(d) /\ d.run.input = start
  BY <1>2, <1>3 DEF Chained
<1>5. ASSUME NEW i \in 1 .. n
      PROVE  /\ Parcel(rest[i])
             /\ rest[i].run.input = IF i = 1 THEN d.run.entries ELSE rest[i - 1].run.entries
  <2>1. PICK j : j = i + 1
    OBVIOUS
  <2>2. j \in 1 .. n + 1 /\ j # 1 /\ j - 1 = i
    BY <2>1
  <2>3. Parcel(list[j]) /\ list[j].run.input = list[i].run.entries
    BY <1>2, <2>2 DEF Chained
  <2>4. rest[i] = list[j] /\ (i # 1 => rest[i - 1] = list[i])
    <3>1. i # 1 => i - 1 \in 1 .. n /\ (i - 1) + 1 = i
      OBVIOUS
    <3> QED
      BY <1>3, <2>1, <3>1
  <2> QED
    BY <1>3, <2>3, <2>4
<1>6. Chained(rest, d.run.entries)
  BY <1>3, <1>5 DEF Chained
<1>7. LeadsTo(rest, d.run.entries) = LeadsTo(list, start)
  <2>1. LeadsTo(list, start) = list[n + 1].run.entries
    BY <1>2 DEF LeadsTo
  <2>2. CASE n = 0
    <3>1. rest = <<>>
      BY <1>3, <2>2
    <3> QED
      BY <1>3, <2>1, <2>2, <3>1 DEF LeadsTo
  <2>3. CASE n # 0
    <3>1. rest # <<>> /\ n \in 1 .. n
      <4>1. rest = <<>> <=> Len(rest) = 0
        BY <1>3, NoneLong
      <4> QED
        BY <1>3, <2>3, <4>1
    <3>2. rest[n] = list[n + 1]
      BY <1>3, <3>1
    <3> QED
      BY <1>3, <2>1, <3>1, <3>2 DEF LeadsTo
  <2> QED
    BY <2>2, <2>3
<1> QED
  BY <1>4, <1>6, <1>7

LEMMA TreesAreFileTrees ==
    ASSUME NEW tree \in Trees
    PROVE  IsFileTree(tree)
  BY TreesAssumption

\* In the beginning the target is as the first listing.
LEMMA ListingFollowed ==
    ASSUME NEW entries, Listing(entries), NEW marks, marks.astray = {}
    PROVE  Follows(entries, entries, 0, marks)
<1>1. ASSUME NEW t \in entries, NEW s \in entries, t.path = s.path
      PROVE  Fits(t, s, 0, marks)
  <2>1. t = s /\ Proper(s)
    BY <1>1, ListingFinds
  <2> QED
    BY <2>1, FitsAlike
<1>2. \A t \in entries : IsEntry(t)
  BY ListingFinds
<1> QED
  BY <1>1, <1>2 DEF Follows

LEMMA SyncInitInv == SyncInit => SyncInv
<1> SUFFICES ASSUME SyncInit
             PROVE  SyncInv
  OBVIOUS
<1>1. /\ IsFileTree(disk) /\ reached = run /\ target = run.entries
      /\ snapshot_in = run.entries /\ carried = <<>> /\ applied = 0 /\ tried = FALSE
      /\ astray = {} /\ pc = "idle"
  BY TreesAreFileTrees DEF SyncInit
<1>2. PICK unreadable \in MaybeUnreadable : run = Walked({}, unreadable)
  BY DEF SyncInit
<1>3. Listing({})
  BY FS_EmptySet DEF Listing, PathsDistinct, IsTree
<1>4. Ran(run)
  <2>1. PICK r, none : r = run /\ none = {}
    OBVIOUS
  <2>2. Listing(none) /\ r = Walked(none, unreadable)
    BY <1>2, <1>3, <2>1
  <2>3. Ran(r)
    BY <1>1, <2>2, WalkRan
  <2> QED
    BY <2>1, <2>3
<1>5. Follows(target, reached.entries, 0, Marks)
  <2>1. Marks.astray = {}
    BY <1>1 DEF Marks
  <2>2. PICK entries, marks : entries = run.entries /\ marks = Marks
    OBVIOUS
  <2>3. Follows(entries, entries, 0, marks)
    BY <1>4, <2>1, <2>2, ListingFollowed DEF Ran
  <2> QED
    BY <1>1, <2>2, <2>3
<1>6. applied * MTIME_TOLERANCE = 0 /\ applied \in Nat
  BY <1>1, ToleranceAssumption
<1>7. Chained(carried, Start) /\ snapshot_in = LeadsTo(carried, Start)
  <2>1. carried \in Seq({}) /\ Len(carried) = 0
    BY <1>1
  <2>2. Chained(carried, Start)
    BY <2>1 DEF Chained
  <2> QED
    BY <1>1, <2>2 DEF LeadsTo, Start
<1> QED
  BY <1>1, <1>4, <1>5, <1>6, <1>7 DEF SyncInv

LEMMA EditKeeps ==
    ASSUME SyncInv, Edit
    PROVE  SyncInv'
<1>1. IsFileTree(disk')
  BY TreesAreFileTrees DEF Edit
<1>2. UNCHANGED <<pc, snapshot_in, run, carried, tried, target, reached, applied,
                  astray, unset, untimed>>
  BY DEF Edit, sink
<1> QED
  BY <1>1, <1>2 DEF SyncInv, Start, Marks

LEMMA StartDiffKeeps ==
    ASSUME SyncInv, StartDiff
    PROVE  SyncInv'
<1>1. PICK unreadable \in MaybeUnreadable : run' = Walked(snapshot_in, unreadable)
  BY DEF StartDiff
<1>2. UNCHANGED <<disk, snapshot_in, carried, tried, target, reached, applied,
                  astray, unset, untimed>>
  BY DEF StartDiff, sink
<1>3. Listing(snapshot_in)
  <2>1. Listing(Start)
    BY DEF SyncInv, Ran, Start
  <2>2. PICK list, start : list = carried /\ start = Start
    OBVIOUS
  <2>3. Listing(LeadsTo(list, start))
    BY <2>1, <2>2, ChainListing DEF SyncInv
  <2> QED
    BY <2>2, <2>3 DEF SyncInv
<1>4. PICK r : r = run'
  OBVIOUS
<1>5. Ran(r) /\ r.input = snapshot_in
  BY <1>1, <1>3, <1>4, WalkRan DEF SyncInv
<1>6. Ran(run') /\ run'.input = snapshot_in'
  BY <1>2, <1>4, <1>5
<1> QED
  BY <1>2, <1>6 DEF SyncInv, Start, Marks

LEMMA WriteDiffKeeps ==
    ASSUME SyncInv, WriteDiff
    PROVE  SyncInv'
<1>1. PICK read : carried' = Append(carried, [run |-> run, read |-> read])
  BY DEF WriteDiff
<1>2. PICK d : d = [run |-> run, read |-> read]
  OBVIOUS
<1>3. /\ snapshot_in' = run.entries /\ pc' = "idle"
      /\ UNCHANGED <<disk, run, tried, target, reached, applied, astray, unset, untimed>>
  BY DEF WriteDiff, sink
<1>4. PICK list, start, more : list = carried /\ start = Start /\ more = Append(list, d)
  OBVIOUS
<1>5. /\ Chained(list, start) /\ Parcel(d) /\ d.run = run
      /\ d.run.input = LeadsTo(list, start)
  BY <1>2, <1>4 DEF SyncInv, WriteDiff, Parcel
<1>6. Chained(more, start) /\ LeadsTo(more, start) = run.entries
  BY <1>4, <1>5, ChainGrows
<1>7. more # <<>> /\ (list # <<>> => Head(more) = Head(list))
  <2>1. PICK S : list \in Seq(S)
    BY <1>5 DEF Chained
  <2>2. PICK T : T = S \cup {d}
    OBVIOUS
  <2>3. list \in Seq(T) /\ d \in T
    BY <2>1, <2>2
  <2>4. more \in Seq(T) /\ Len(more) = Len(list) + 1
        /\ \A i \in 1 .. Len(list) : more[i] = list[i]
    BY <1>4, <2>3
  <2>5. list # <<>> => 1 \in 1 .. Len(list)
    BY <2>3
  <2> QED
    BY <2>3, <2>4, <2>5
<1>8. carried' = more /\ Start' = start
  BY <1>1, <1>2, <1>3, <1>4 DEF Start
<1>9. Chained(carried', Start') /\ snapshot_in' = LeadsTo(carried', Start')
  BY <1>3, <1>6, <1>8
<1>10. tried' => carried' # <<>> /\ Head(carried').run = reached'
  BY <1>3, <1>4, <1>7, <1>8 DEF SyncInv
<1> QED
  BY <1>3, <1>9, <1>10 DEF SyncInv, Marks

LEMMA RoundFailsKeeps ==
    ASSUME SyncInv, RoundFails
    PROVE  SyncInv'
<1>1. /\ pc' = "idle"
      /\ UNCHANGED <<disk, snapshot_in, run, carried, tried, target, reached, applied,
                     astray, unset, untimed>>
  BY DEF RoundFails, sink
<1> QED
  BY <1>1 DEF SyncInv, Start, Marks

\* A run of apply makes a target that follows what the diff is from, or what it
\* leads to, follow what it leads to.
LEMMA ApplyingFollows ==
    ASSUME NEW d, NEW b, NEW a, NEW changes, changes = ChangesOf(b, a),
           NEW start, NEW drift, NEW wide,
           Setting(b, a, start, target, drift, wide, Marks),
           NEW stored, NEW refused, NEW complete \in BOOLEAN,
           Applying(d, changes, stored, refused, complete)
    PROVE  Follows(target', a, wide, Marks')
<1>1. PICK done, made :
        /\ done = DoneOf(changes, Remaining(target, changes), stored)
        /\ made = OutcomesOf(d, changes, Remaining(target, changes), done)
  OBVIOUS
<1>2. PICK moved :
        moved = ParentsOf(changes) \cap IF complete
                                        THEN DirectoriesOf(target) \ DirectoriesOf(made)
                                        ELSE DirectoriesOf(made)
  OBVIOUS
<1>3. PICK after : after = Marks'
  OBVIOUS
<1>4. after.astray = astray' /\ after.unset = unset' /\ after.untimed = untimed'
  BY <1>3 DEF Marks
<1>5. PICK marks : marks = Marks
  OBVIOUS
<1>6. marks.astray = astray /\ marks.unset = unset /\ marks.untimed = untimed
  BY <1>5 DEF Marks
<1>7. astray' = AstrayAfter(d, changes, done, astray)
  BY <1>1 DEF Applying, AstrayAfter, DoneOf
<1>8. unset' = (unset \ StampedBy(done)) \cup (refused \cap StampedBy(done)) \cup BareOf(done)
  BY <1>1 DEF Applying, StampedBy, BareOf, DoneOf
<1>9. untimed' = (untimed \ StampedBy(done)) \cup refused \cup BareOf(done) \cup moved
  BY <1>1, <1>2 DEF Applying, StampedBy, BareOf, DoneOf, OutcomesOf
<1>10. PICK result : result = target'
  OBVIOUS
<1>11. result = {Dressed(e, after) : e \in made}
  <2>1. PICK u, v : u = unset' /\ v = untimed'
    OBVIOUS
  <2> DEFINE D(e) == [e EXCEPT
                         !.metadata.mode = IF e.path \in u THEN FreshMode ELSE @,
                         !.metadata.mtime = IF e.path \in v THEN Now ELSE @]
  <2>2. target' = {D(e) : e \in OutcomesOf(d, changes, Remaining(target, changes),
                                   DoneOf(changes, Remaining(target, changes), stored))}
    BY <2>1 DEF Applying, DoneOf, OutcomesOf
  <2>3. \A e : D(e) = Dressed(e, after)
    BY <1>4, <2>1 DEF Dressed
  <2> HIDE DEF D
  <2> QED
    BY <1>1, <1>10, <2>2, <2>3
<1>12. Runs(d, changes, target, stored, refused, moved, marks, done, made, after, result)
  BY <1>1, <1>4, <1>6, <1>7, <1>8, <1>9, <1>11 DEF Runs
<1>13. PICK state : state = target
  OBVIOUS
<1>14. Course(b, a, start, state, drift, wide, marks,
              d, stored, refused, moved, done, made, after, result)
  BY <1>5, <1>12, <1>13 DEF Course
<1>15. Follows(result, a, wide, after)
  BY <1>14, CourseFollows
<1> QED
  BY <1>3, <1>10, <1>15

\* A run, complete or not, of the first of the carried diffs.
LEMMA RunKeeps ==
    ASSUME SyncInv, carried # <<>>,
           NEW d, d = Head(carried),
           NEW stored, NEW refused, NEW complete \in BOOLEAN,
           Applying(d, ChangesOf(d.run.input, d.run.entries), stored, refused, complete),
           tried' \in BOOLEAN, carried' = IF tried' THEN carried ELSE Tail(carried)
    PROVE  SyncInv'
<1>1. /\ reached' = d.run
      /\ applied' = IF tried THEN applied ELSE applied + 1
      /\ UNCHANGED <<disk, pc, snapshot_in, run>>
  BY DEF Applying, source
<1>2. PICK list, start, rest : list = carried /\ start = Start /\ rest = Tail(list)
  OBVIOUS
<1>3. Chained(list, start) /\ list # <<>> /\ d = Head(list)
  BY <1>2 DEF SyncInv
<1>4. /\ Parcel(d) /\ d.run.input = start
      /\ Chained(rest, d.run.entries)
      /\ LeadsTo(rest, d.run.entries) = LeadsTo(list, start)
  BY <1>2, <1>3, ChainShrinks
<1>5. PICK b, a, changes : b = d.run.input /\ a = d.run.entries /\ changes = ChangesOf(b, a)
  OBVIOUS
<1>6. Listing(b) /\ Listing(a) /\ Ran(d.run)
  BY <1>4, <1>5 DEF Parcel, Ran
<1>7. PICK drift : drift = applied * MTIME_TOLERANCE
  OBVIOUS
<1>8. PICK wide : wide = applied' * MTIME_TOLERANCE
  OBVIOUS
<1>9. applied \in Nat /\ applied' \in Nat /\ tried \in BOOLEAN /\ drift \in Nat /\ wide \in Nat
  BY <1>1, <1>7, <1>8, ToleranceAssumption DEF SyncInv
<1>10. \/ reached.entries = b /\ wide = drift + MTIME_TOLERANCE
       \/ reached.entries = a /\ wide = drift
  <2>1. CASE tried
    <3>1. d.run = reached
      BY <2>1 DEF SyncInv
    <3>2. applied' = applied
      BY <1>1, <2>1
    <3> QED
      BY <1>5, <1>7, <1>8, <3>1, <3>2
  <2>2. CASE ~ tried
    <3>1. b = reached.entries
      BY <1>2, <1>4, <1>5, <2>2 DEF Start
    <3>2. applied' = applied + 1
      BY <1>1, <2>2
    <3>3. wide = drift + MTIME_TOLERANCE
      BY <1>7, <1>8, <1>9, <3>2, ToleranceAssumption
    <3> QED
      BY <3>1, <3>3
  <2> QED
    BY <2>1, <2>2
<1>11. Follows(target, reached.entries, drift, Marks)
  BY <1>7 DEF SyncInv
<1>12. PICK from : from = reached.entries
  OBVIOUS
<1>13. Setting(b, a, from, target, drift, wide, Marks)
  BY <1>6, <1>9, <1>10, <1>11, <1>12 DEF Setting
<1>14. Applying(d, changes, stored, refused, complete)
  BY <1>5
<1>15. Follows(target', a, wide, Marks')
  BY <1>5, <1>13, <1>14, ApplyingFollows
<1>16. Follows(target', reached'.entries, applied' * MTIME_TOLERANCE, Marks')
  BY <1>1, <1>5, <1>8, <1>15
<1>17. /\ Chained(carried', Start') /\ snapshot_in' = LeadsTo(carried', Start')
       /\ tried' => carried' # <<>> /\ Head(carried').run = reached'
  <2>1. snapshot_in' = LeadsTo(list, start)
    BY <1>1, <1>2 DEF SyncInv
  <2>2. CASE tried'
    <3>1. Start' = start
      BY <1>1, <1>4, <2>2 DEF Start
    <3>2. carried' = list
      BY <1>2, <2>2
    <3> QED
      BY <1>1, <1>3, <2>1, <3>1, <3>2
  <2>3. CASE ~ tried'
    <3>1. Start' = d.run.entries
      BY <1>1, <2>3 DEF Start
    <3>2. carried' = rest
      BY <1>2, <2>3
    <3> QED
      BY <1>4, <2>1, <2>3, <3>1, <3>2
  <2> QED
    BY <2>2, <2>3
<1>18. Ran(reached') /\ Ran(run') /\ IsFileTree(disk') /\ applied' \in Nat
       /\ (pc' = "diff" => run'.input = snapshot_in')
  BY <1>1, <1>6, <1>9 DEF SyncInv
<1> QED
  BY <1>16, <1>17, <1>18 DEF SyncInv

LEMMA ApplyDiffKeeps ==
    ASSUME SyncInv, ApplyDiff
    PROVE  SyncInv'
<1>1. PICK d : d = Head(carried)
  OBVIOUS
<1>2. PICK stored, refused :
        Applying(d, ChangesOf(d.run.input, d.run.entries), stored, refused, TRUE)
  BY <1>1 DEF ApplyDiff
<1>3. carried # <<>> /\ tried' = FALSE /\ carried' = Tail(carried)
  BY DEF ApplyDiff
<1>4. PICK complete \in BOOLEAN : complete = TRUE
  OBVIOUS
<1> QED
  BY <1>1, <1>2, <1>3, <1>4, RunKeeps

LEMMA ApplyAbortsKeeps ==
    ASSUME SyncInv, ApplyAborts
    PROVE  SyncInv'
<1>1. PICK d : d = Head(carried)
  OBVIOUS
<1>2. PICK stored, refused :
        Applying(d, ChangesOf(d.run.input, d.run.entries), stored, refused, FALSE)
  BY <1>1 DEF ApplyAborts
<1>3. carried # <<>> /\ tried' \in BOOLEAN
      /\ carried' = IF tried' THEN carried ELSE Tail(carried)
  BY DEF ApplyAborts
<1>4. PICK complete \in BOOLEAN : complete = FALSE
  OBVIOUS
<1> QED
  BY <1>1, <1>2, <1>3, <1>4, RunKeeps

LEMMA SyncStep ==
    ASSUME SyncInv, [SyncNext]_syncVars
    PROVE  SyncInv'
<1>1. CASE Edit
  BY <1>1, EditKeeps
<1>2. CASE StartDiff
  BY <1>2, StartDiffKeeps
<1>3. CASE WriteDiff
  BY <1>3, WriteDiffKeeps
<1>4. CASE RoundFails
  BY <1>4, RoundFailsKeeps
<1>5. CASE ApplyDiff
  BY <1>5, ApplyDiffKeeps
<1>6. CASE ApplyAborts
  BY <1>6, ApplyAbortsKeeps
<1>7. CASE UNCHANGED syncVars
  BY <1>7 DEF SyncInv, Start, Marks, syncVars, source, sink
<1> QED
  BY <1>1, <1>2, <1>3, <1>4, <1>5, <1>6, <1>7 DEF SyncNext

LEMMA SpecSyncInv == SyncSpec => []SyncInv
  BY SyncInitInv, SyncStep, PTL DEF SyncSpec

----------------------------------------------------------------------------
(* The theorems.                                                           *)

LEMMA InvIs ==
    ASSUME SyncInv
    PROVE  /\ Ran(reached)
           /\ Follows(target, reached.entries, applied * MTIME_TOLERANCE, Marks)
           /\ Marks.astray = astray /\ Marks.unset = unset /\ Marks.untimed = untimed
  BY DEF SyncInv, Marks

LEMMA InvFollows ==
    ASSUME SyncInv
    PROVE  TargetFollows
<1>1. /\ Listing(reached.entries)
      /\ Follows(target, reached.entries, applied * MTIME_TOLERANCE, Marks)
      /\ Marks.astray = astray /\ Marks.unset = unset
  BY InvIs DEF Ran
<1>2. PICK marks, drift : marks = Marks /\ drift = applied * MTIME_TOLERANCE
  OBVIOUS
<1>3. ASSUME NEW s \in reached.entries, At(target, s.path) = {}
      PROVE  s.path \in astray /\ s.kind = "File"
  <2>1. ~ \E t \in target : t.path = s.path
    BY <1>3 DEF At
  <2>2. s.path \in astray
    BY <1>1, <2>1 DEF Follows
  <2>3. PICK z \in reached.entries : z.path = s.path /\ z.kind = "File"
    BY <1>1, <2>2 DEF Follows
  <2>4. z = s
    BY <1>1, <2>3, ListingFinds
  <2> QED
    BY <2>2, <2>3, <2>4
<1>4. ASSUME NEW t \in target
      PROVE  \E s \in At(reached.entries, t.path) :
               /\ t.kind = s.kind /\ t.symlink_target = s.symlink_target
               /\ t.hash = s.hash \/ t.path \in astray
               /\ t.metadata.mode = s.metadata.mode \/ t.path \in astray \cup unset
  <2>1. PICK s \in reached.entries : s.path = t.path
    BY <1>1 DEF Follows
  <2>2. Fits(t, s, drift, marks)
    BY <1>1, <1>2, <2>1 DEF Follows
  <2>3. s \in At(reached.entries, t.path)
    BY <2>1 DEF At
  <2>4. /\ t.kind = s.kind /\ t.symlink_target = s.symlink_target
        /\ t.hash = s.hash \/ t.path \in astray
        /\ t.metadata.mode = s.metadata.mode \/ t.path \in astray \cup unset
    BY <1>1, <1>2, <2>2 DEF Fits
  <2> QED
    BY <2>3, <2>4
<1> QED
  BY <1>3, <1>4 DEF TargetFollows

\* However many rounds overlap, fail, or leave out what they cannot read, and
\* whatever the runs of apply do not get to, or are refused: the target has the
\* entries of the snapshot of the diff applied last, with the same kinds and
\* link targets, contents and modes, but for what is astray or unset.
THEOREM TargetFollowsSource == SyncSpec => []TargetFollows
<1>1. SyncInv => TargetFollows
  BY InvFollows
<1> QED
  BY <1>1, SpecSyncInv, PTL

LEMMA InvBounds ==
    ASSUME SyncInv
    PROVE  DriftBounded
<1>1. /\ Follows(target, reached.entries, applied * MTIME_TOLERANCE, Marks)
      /\ Marks.astray = astray /\ Marks.untimed = untimed
  BY InvIs
<1> QED
  BY <1>1 DEF DriftBounded, Follows, Fits

\* The mtime of an entry at the target is from that in the snapshot by no more
\* than the tolerance for each diff that was applied, but for what is astray or
\* untimed.
THEOREM DriftIsBounded == SyncSpec => []DriftBounded
<1>1. SyncInv => DriftBounded
  BY InvBounds
<1> QED
  BY <1>1, SpecSyncInv, PTL

\* What a walk that read everything makes of an entry it saw.
LEMMA WalkShows ==
    ASSUME NEW tree, IsFileTree(tree), NEW previous, NEW e \in tree,
           NEW f, f = WalkedAs(e, previous)
    PROVE  /\ f.path = e.path /\ f.kind = e.kind /\ f.symlink_target = e.symlink_target
           /\ \/ f.hash = e.hash
              \/ \E c \in At(previous, e.path) :
                   /\ c.kind = "File"
                   /\ c.metadata.size = e.metadata.size
                   /\ c.metadata.mtime \div MTIME_TOLERANCE
                        = e.metadata.mtime \div MTIME_TOLERANCE
<1>1. IsEntry(e) /\ (e.hash = None <=> e.kind # "File")
  BY DEF IsFileTree
<1>2. /\ f.path = e.path /\ f.kind = e.kind
      /\ f.symlink_target = e.symlink_target
      /\ f.hash = IF e.kind = "File" THEN resolve_file_hash(e, previous) ELSE None
  BY <1>1, WalkedEntry
<1>3. CASE e.kind # "File"
  BY <1>1, <1>2, <1>3
<1>4. CASE e.kind = "File"
  <2>1. PICK h : h = resolve_file_hash(e, previous)
    OBVIOUS
  <2>2. h = e.hash \/ \E c \in Cached(e, previous) : h = c.hash
    BY <2>1, CachedHash
  <2>3. ASSUME NEW c \in Cached(e, previous)
        PROVE  /\ c \in At(previous, e.path) /\ c.kind = "File"
               /\ c.metadata.size = e.metadata.size
               /\ c.metadata.mtime \div MTIME_TOLERANCE
                    = e.metadata.mtime \div MTIME_TOLERANCE
    BY DEF Cached, At, size_and_mtime_match, mtime_sec
  <2> QED
    BY <1>2, <1>4, <2>1, <2>2, <2>3
<1> QED
  BY <1>3, <1>4

LEMMA InvHeals ==
    ASSUME SyncInv
    PROVE  CleanRoundHeals
<1> SUFFICES ASSUME reached.clean, NEW e \in target \cup reached.seen
             PROVE  \E s \in At(reached.seen, e.path) :
                      /\ At(target, e.path) = {} => e.path \in astray
                      /\ \A t \in At(target, e.path) :
                           /\ t.kind = s.kind /\ t.symlink_target = s.symlink_target
                           /\ \/ t.hash = s.hash
                              \/ e.path \in astray
                              \/ \E c \in At(reached.input, e.path) :
                                   /\ c.kind = "File"
                                   /\ c.metadata.size = s.metadata.size
                                   /\ c.metadata.mtime \div MTIME_TOLERANCE
                                        = s.metadata.mtime \div MTIME_TOLERANCE
  BY DEF CleanRoundHeals
<1>1. /\ Follows(target, reached.entries, applied * MTIME_TOLERANCE, Marks)
      /\ IsFileTree(reached.seen) /\ Marks.astray = astray
      /\ reached.entries = {WalkedAs(s, reached.input) : s \in reached.seen}
  BY InvIs DEF Ran, Walk, WalkedAs
<1>2. PICK s \in reached.seen : s.path = e.path
  <2>1. CASE e \in reached.seen
    BY <2>1
  <2>2. CASE e \in target
    <3>1. PICK f \in reached.entries : f.path = e.path
      BY <1>1, <2>2 DEF Follows
    <3>2. PICK s \in reached.seen : f = WalkedAs(s, reached.input)
      BY <1>1
    <3> QED
      BY <1>1, <3>1, <3>2, WalkShows
  <2> QED
    BY <2>1, <2>2
<1>3. PICK f : f = WalkedAs(s, reached.input)
  OBVIOUS
<1>4. /\ f.path = s.path /\ f.kind = s.kind /\ f.symlink_target = s.symlink_target
      /\ \/ f.hash = s.hash
         \/ \E c \in At(reached.input, s.path) :
              /\ c.kind = "File"
              /\ c.metadata.size = s.metadata.size
              /\ c.metadata.mtime \div MTIME_TOLERANCE
                   = s.metadata.mtime \div MTIME_TOLERANCE
  BY <1>1, <1>3, WalkShows
<1>5. f \in reached.entries
  BY <1>1, <1>3
<1>6. At(target, e.path) = {} => e.path \in astray
  BY <1>1, <1>2, <1>4, <1>5 DEF Follows, At
<1>7. ASSUME NEW t \in At(target, e.path)
      PROVE  /\ t.kind = f.kind /\ t.symlink_target = f.symlink_target
             /\ t.hash = f.hash \/ e.path \in astray
  <2>1. t \in target /\ t.path = e.path /\ f.path = t.path
    BY <1>2, <1>4 DEF At
  <2>2. PICK marks, drift : marks = Marks /\ drift = applied * MTIME_TOLERANCE
    OBVIOUS
  <2>3. Fits(t, f, drift, marks)
    BY <1>1, <1>5, <2>1, <2>2 DEF Follows
  <2> QED
    BY <1>1, <2>1, <2>2, <2>3 DEF Fits
<1>8. s \in At(reached.seen, e.path)
  BY <1>2 DEF At
<1> QED
  BY <1>2, <1>4, <1>6, <1>7, <1>8

\* Once the diff of a walk that read everything is applied, the target has
\* every entry the walk saw and no other, whatever earlier rounds left out or
\* failed to deliver; a content is missing only if the hash cache hid it, or
\* the diffs lost it.
THEOREM CleanRoundsHeal == SyncSpec => []CleanRoundHeals
<1>1. SyncInv => CleanRoundHeals
  BY InvHeals
<1> QED
  BY <1>1, SpecSyncInv, PTL

=============================================================================
