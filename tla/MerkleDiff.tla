----------------------------- MODULE MerkleDiff ----------------------------
(***************************************************************************)
(* compute_diff_merkle (commands/diff.rs): two snapshots, sorted by path,  *)
(* are merged into the list of changes that leads from one to the other.   *)
(* Where a directory has the same hash on both sides, its own entry is     *)
(* compared and everything underneath is skipped.                          *)
(*                                                                         *)
(* The new side is a walk that takes the old snapshot for a cache of       *)
(* hashes, so it may miss an edit before the merge begins.                 *)
(*                                                                         *)
(* The merge is right only if three parts of the program agree: the order  *)
(* of paths (a subtree must be contiguous, or skip_subtree stops early),   *)
(* what goes into a directory hash (anything the comparison would report), *)
(* and the comparison itself, which tolerates a drift of mtimes that the   *)
(* hash does not.                                                          *)
(***************************************************************************)
EXTENDS Changes

VARIABLES
    disk,         \* the tree on disk when the diff is made
    old_entries,  \* the snapshot loaded from --snapshot-in
    new_entries,  \* the walk of the file system, hashed
    old_iter,     \* index of the entry old_iter.peek() returns
    new_iter,     \* index of the entry new_iter.peek() returns
    changes,      \* the changes found so far
    pc            \* "merge" while the loop runs, then "done"

vars == <<disk, old_entries, new_entries, old_iter, new_iter, changes, pc>>

Snapshots == {Snapshot(tree) : tree \in Trees}

\* Where an iterator stands after skip_subtree: past the directory at i and
\* the entries underneath, up to the first that is not underneath.
skip_subtree(i, entries) ==
    CHOOSE j \in i + 1 .. Len(entries) + 1 :
        /\ \A k \in i + 1 .. j - 1 : contains(entries[i].path, entries[k].path)
        /\ j <= Len(entries) => ~ contains(entries[i].path, entries[j].path)

----------------------------------------------------------------------------
Init ==
    /\ old_entries \in Snapshots
    /\ disk \in Trees
    /\ new_entries = Snapshot(Walk(disk, ToSet(old_entries)))
    /\ old_iter = 1
    /\ new_iter = 1
    /\ changes = <<>>
    /\ pc = "merge"

MoreOld == old_iter <= Len(old_entries)
MoreNew == new_iter <= Len(new_entries)
old == old_entries[old_iter]
new == new_entries[new_iter]

\* Moves the iterators and appends changes.
Advance(oldTo, newTo, found) ==
    /\ pc = "merge"
    /\ old_iter' = oldTo
    /\ new_iter' = newTo
    /\ changes' = changes \o found
    /\ UNCHANGED <<disk, old_entries, new_entries, pc>>

\* Ordering::Less, or nothing left on the new side.
OnlyOld ==
    /\ MoreOld
    /\ MoreNew => Less(old.path, new.path)
    /\ Advance(old_iter + 1, new_iter, <<build_removed_change(old)>>)

\* Ordering::Greater, or nothing left on the old side.
OnlyNew ==
    /\ MoreNew
    /\ MoreOld => Less(new.path, old.path)
    /\ Advance(old_iter, new_iter + 1, <<build_added_change(new)>>)

OnBoth == MoreOld /\ MoreNew /\ old.path = new.path

\* The guard of the short circuit.
SameHash ==
    /\ old.kind = "Directory"
    /\ new.kind = "Directory"
    /\ old.dir_hash # None
    /\ old.dir_hash = new.dir_hash

SkipSubtree ==
    /\ OnBoth
    /\ SameHash
    /\ Advance(skip_subtree(old_iter, old_entries),
               skip_subtree(new_iter, new_entries),
               compute_entry_diff(old, new))

KindChangedAddFirst ==
    /\ OnBoth
    /\ old.kind # new.kind
    /\ Advance(old_iter + 1, new_iter + 1,
               <<build_added_change(new), build_removed_change(old)>>)

KindChanged ==
    /\ OnBoth
    /\ old.kind # new.kind
    /\ Advance(old_iter + 1, new_iter + 1,
               <<build_removed_change(old), build_added_change(new)>>)

SameKind ==
    /\ OnBoth
    /\ ~ SameHash
    /\ old.kind = new.kind
    /\ Advance(old_iter + 1, new_iter + 1, compute_entry_diff(old, new))

BothExhausted ==
    /\ pc = "merge"
    /\ ~ MoreOld
    /\ ~ MoreNew
    /\ pc' = "done"
    /\ UNCHANGED <<disk, old_entries, new_entries, old_iter, new_iter, changes>>

Next ==
    OnlyOld \/ OnlyNew \/ SkipSubtree \/ KindChanged \/ SameKind \/ BothExhausted

Spec == Init /\ [][Next]_vars /\ WF_vars(Next)

----------------------------------------------------------------------------
(* Properties.                                                             *)

Before == ToSet(old_entries)
After == ToSet(new_entries)

\* What must be said of a path, without hashes of directories or a merge: it
\* is a statement about the two sets of entries only.
Differs(p) == Mismatch(p, Before, After, {})

\* The paths both iterators have left behind.
Behind == {e.path : e \in ToSet(SubSeq(old_entries, 1, old_iter - 1))
                          \cup ToSet(SubSeq(new_entries, 1, new_iter - 1))}

\* At every step, a path left behind has changes exactly if it differs: the
\* short circuit hides no difference, whichever way hashes and the tolerance
\* of mtimes fall.  And in the end the changes are those, each once and in order,
\* that are defined path by path, without hashes and without a merge.
NothingHidden ==
    /\ {changes[i].path : i \in DOMAIN changes} = {p \in Behind : Differs(p)}
    /\ pc = "done" =>
         /\ ToSet(changes) = ChangesOf(Before, After)
         /\ \A i, j \in DOMAIN changes : i < j => Precedes(changes[i], changes[j])

\* A file whose content changed escapes the diff only if it has kept its size
\* and the second of its mtime: the tolerance of the comparison, wider than
\* that, does not add to what the cache misses.
EditsFound ==
    pc = "done" =>
        \A b \in Before, n \in disk :
            /\ b.path = n.path
            /\ b.kind = "File" /\ n.kind = "File"
            /\ b.hash # n.hash
            /\ \A i \in DOMAIN changes : changes[i].path # b.path
            => /\ b.metadata.size = n.metadata.size
               /\ mtime_sec(b.metadata) = mtime_sec(n.metadata)

\* The diff, applied to the old entries (simulate_apply), yields the new
\* ones: same paths, kinds, contents and link targets, and metadata within
\* the tolerance.
RoundTrip ==
    pc = "done" =>
        LET result == simulate_apply(Before, changes)
        IN  /\ {e.path : e \in result} = {e.path : e \in After}
            /\ \A e \in result : \E n \in After :
                 /\ n.path = e.path
                 /\ n.kind = e.kind
                 /\ n.hash = e.hash
                 /\ n.symlink_target = e.symlink_target
                 /\ matches(n.metadata, e.metadata)

\* The invariant of ModifiedEntry (model/diff.rs:41): a change with content
\* carries the size of that content, for apply pairs the bytes of FileContent
\* records with changes by these sizes alone.
ContentHasSize ==
    \A i \in DOMAIN changes :
        changes[i].op # "Removed" /\ changes[i].has_content =>
            \E n \in At(After, changes[i].path) :
                /\ n.kind = "File"
                /\ IF changes[i].op = "Added"
                   THEN changes[i].entry.metadata.size = n.metadata.size
                   ELSE \E m \in changes[i].new_metadata :
                            m.size = n.metadata.size

=============================================================================
