------------------------------ MODULE Changes ------------------------------
(***************************************************************************)
(* The changes of a diff (model/diff.rs and the functions of               *)
(* commands/diff.rs that build them), and what a diff of two trees is,     *)
(* without a merge and without hashes of directories.                      *)
(***************************************************************************)
EXTENDS Simulate

CONSTANT Trees  \* the file trees: sets of entries without dir_hash

\* What is found on a disk: files have a hash, links a target, and only files
\* have a size.
IsFileTree(tree) ==
    /\ IsFiniteSet(tree)
    /\ \A e \in tree :
         /\ IsEntry(e)
         /\ e.hash = None <=> e.kind # "File"
         /\ e.symlink_target = None <=> e.kind # "Symlink"
         /\ e.metadata.mtime \in Int
         /\ e.kind # "File" => e.metadata.size = 0
    /\ IsTree(tree)
    /\ \E e \in tree : e.path = root /\ e.kind = "Directory"

ASSUME TreesAssumption == \A tree \in Trees : IsFileTree(tree)

build_removed_change(entry) ==
    [path |-> entry.path, op |-> "Removed", kind |-> entry.kind]

build_added_change(entry) ==
    [path |-> entry.path, op |-> "Added", entry |-> entry,
     has_content |-> entry.kind = "File"]

\* Mutant of compute_entry_diff: metadata only if it changed.
compute_entry_diff_bare(old, new) ==
    LET metadata_changed == ~ matches(old.metadata, new.metadata)
        hash_changed == old.hash # new.hash
        symlink_target_changed == old.symlink_target # new.symlink_target
    IN  IF ~ (metadata_changed \/ hash_changed \/ symlink_target_changed)
        THEN <<>>
        ELSE << [path |-> new.path, op |-> "Modified",
                 new_metadata |-> IF metadata_changed
                                  THEN Some(new.metadata) ELSE None,
                 new_hash |-> IF hash_changed THEN new.hash ELSE None,
                 has_content |-> hash_changed /\ new.kind = "File",
                 new_symlink_target |-> IF symlink_target_changed
                                        THEN new.symlink_target ELSE None] >>

\* Mutant of compute_entry_diff: the hash counts only if the metadata differ.
compute_entry_diff_by_metadata(old, new) ==
    IF matches(old.metadata, new.metadata) /\ old.kind = "File"
    THEN <<>> ELSE compute_entry_diff_bare(old, new)

\* The changes, none or one, between two entries of one path and one kind.
compute_entry_diff(old, new) ==
    LET metadata_changed == ~ matches(old.metadata, new.metadata)
        hash_changed == old.hash # new.hash
        symlink_target_changed == old.symlink_target # new.symlink_target
        has_content == hash_changed /\ new.kind = "File"
    IN  IF ~ (metadata_changed \/ hash_changed \/ symlink_target_changed)
        THEN <<>>
        ELSE << [path |-> new.path, op |-> "Modified",
                 new_metadata |-> IF metadata_changed \/ has_content
                                  THEN Some(new.metadata) ELSE None,
                 new_hash |-> IF hash_changed THEN new.hash ELSE None,
                 has_content |-> has_content,
                 new_symlink_target |-> IF symlink_target_changed
                                        THEN new.symlink_target ELSE None] >>

\* The difference of two sets of entries, path by path and kind by kind.
ChangesOf(before, after) ==
    LET same(x, y) == x.path = y.path /\ x.kind = y.kind
    IN  {build_removed_change(x) :
           x \in {x \in before : ~ \E y \in after : same(x, y)}}
        \cup {build_added_change(y) :
               y \in {y \in after : ~ \E x \in before : same(x, y)}}
        \cup UNION {ToSet(compute_entry_diff(xy[1], xy[2])) :
                      xy \in {xy \in before \X after : same(xy[1], xy[2])}}

\* The order of a diff: that of paths; what replaces an entry comes after it.
Precedes(c, d) ==
    \/ Less(c.path, d.path)
    \/ c.path = d.path /\ c.op = "Removed" /\ d.op = "Added"

\* The difference as a list, each change after as many as precede it.
DiffOf(before, after) ==
    LET changes == ChangesOf(before, after)
    IN  [n \in 1 .. Cardinality(changes) |->
           CHOOSE c \in changes :
               Cardinality({d \in changes : Precedes(d, c)}) = n - 1]
=============================================================================
