------------------------------ MODULE Entries ------------------------------
(***************************************************************************)
(* The data of snapshots and diffs: relative paths, metadata, entries and  *)
(* directory hashes (model/path.rs, model/entry.rs, fs/hash.rs).           *)
(*                                                                         *)
(* A path is a sequence of names, a name a number, in the order of names.  *)
(* In metadata `mode' stands for permissions, uid and gid, which are only  *)
(* ever compared together.  An optional value is a set of at most one      *)
(* element.  Hashes have no collisions: that of a file is its content,     *)
(* that of a directory the set of what goes into it.                       *)
(***************************************************************************)
EXTENDS Integers, SequencesExt

CONSTANT MTIME_TOLERANCE  \* in the unit of mtimes; it is one second

ASSUME ToleranceAssumption == MTIME_TOLERANCE \in Nat \ {0}

None == {}
Some(x) == {x}

root == <<>>

EntryKind == {"File", "Directory", "Symlink"}

IsEntry(e) ==
    /\ e.path \in Seq(Nat)
    /\ e.kind \in EntryKind
    /\ e = [path |-> e.path, kind |-> e.kind, hash |-> e.hash,
            symlink_target |-> e.symlink_target,
            metadata |-> [size |-> e.metadata.size, mode |-> e.metadata.mode,
                          mtime |-> e.metadata.mtime]]

\* The order of std::path::Path is by component, not by character: a
\* directory comes right before everything underneath it.
Less(p, q) ==
    \/ IsStrictPrefix(p, q)
    \/ \E i \in 1 .. Len(p) :
         /\ i <= Len(q)
         /\ SubSeq(p, 1, i - 1) = SubSeq(q, 1, i - 1)
         /\ p[i] < q[i]

\* RelativePath::contains: strictly underneath.
contains(dir, p) == IsStrictPrefix(dir, p)

\* RelativePath::parent, of a path other than the root.
parent(p) == Front(p)

\* Mutant of mtime_matches: a window on each side of each.
mtime_matches_wide(a, b) ==
    a.mtime - b.mtime \in -(2 * MTIME_TOLERANCE) .. 2 * MTIME_TOLERANCE

mtime_matches(a, b) ==
    a.mtime - b.mtime \in -MTIME_TOLERANCE .. MTIME_TOLERANCE

mtime_sec(a) == a.mtime \div MTIME_TOLERANCE

\* Mutant of size_and_mtime_match: mtimes are compared with the tolerance.
size_and_mtime_match_loose(a, b) == a.size = b.size /\ mtime_matches(a, b)

size_and_mtime_match(a, b) == a.size = b.size /\ mtime_sec(a) = mtime_sec(b)

\* Metadata::matches.
matches(a, b) == a.size = b.size /\ a.mode = b.mode /\ mtime_matches(a, b)

----------------------------------------------------------------------------
(* compute_dir_hashes: deepest directories first, so that a directory      *)
(* finds the hashes of those below it.                                     *)

Children(entries, dir) == {e \in entries : e.path # root /\ parent(e.path) = dir}

\* What stands for the content of an entry, given hashes of directories.
ContentOf(e, hashes) ==
    CASE e.kind = "File" -> e.hash
      [] e.kind = "Symlink" -> e.symlink_target
      [] e.kind = "Directory" -> Some(hashes[e.path])

\* Mutant of HashOf: it does not cover metadata.
HashWithoutMetadata(entries, dir, hashes) ==
    {[name |-> Last(c.path), kind |-> c.kind, content |-> ContentOf(c, hashes)] :
      c \in Children(entries, dir)}

\* What goes into the hash of directory `dir', given those of deeper ones:
\* name, kind, content and exact metadata of its children, not its own.
HashOf(entries, dir, hashes) ==
    {[name |-> Last(c.path), kind |-> c.kind, metadata |-> c.metadata,
      content |-> ContentOf(c, hashes)] : c \in Children(entries, dir)}

\* The hash of every directory in a set of entries, by path.
DirHashes(entries) ==
    LET hashes[d \in {e.path : e \in {e \in entries : e.kind = "Directory"}}] ==
            HashOf(entries, d, hashes)
    IN  hashes

\* resolve_file_hash: with entries of an earlier walk at hand, a file of the
\* same size and second of mtime is not read again.
Cached(e, previous) ==
    {c \in previous : /\ c.path = e.path
                      /\ c.kind = "File"
                      /\ size_and_mtime_match(c.metadata, e.metadata)}

resolve_file_hash(e, previous) ==
    IF Cached(e, previous) = {} THEN e.hash
    ELSE (CHOOSE c \in Cached(e, previous) : TRUE).hash

\* walk_filesystem: what is found on disk, with the hashes as resolved.
Walk(disk, previous) ==
    {[e EXCEPT !.hash = IF e.kind = "File" THEN resolve_file_hash(e, previous)
                                           ELSE None] : e \in disk}

\* Entries in the order of their paths, each after as many as are less.
Ascending(entries) ==
    [n \in 1 .. Cardinality(entries) |->
       CHOOSE e \in entries :
           Cardinality({x \in entries : Less(x.path, e.path)}) = n - 1]

with_dir_hash(e, hashes) ==
    [path |-> e.path, kind |-> e.kind, hash |-> e.hash, metadata |-> e.metadata,
     symlink_target |-> e.symlink_target,
     dir_hash |-> IF e.kind = "Directory" THEN Some(hashes[e.path]) ELSE None]

\* A list of entries in the order of paths, with the hashes of directories.
Snapshot(entries) ==
    LET hashes == DirHashes(entries)
    IN  Ascending({with_dir_hash(e, hashes) : e \in entries})
=============================================================================
