------------------------------ MODULE MCTrees ------------------------------
(***************************************************************************)
(* What the trees of the instances are made of.                            *)
(***************************************************************************)
EXTENDS Changes

CONSTANTS c1, c2, c3, t1, t2  \* contents of files, targets of links

Meta(size, mode, mtime) == [size |-> size, mode |-> mode, mtime |-> mtime]

\* Contents c1 and c2 have one size, c3 another.
File(p, content, mode, mtime) ==
    [path |-> p, kind |-> "File", hash |-> Some(content), symlink_target |-> None,
     metadata |-> Meta(IF content = c3 THEN 2 ELSE 1, mode, mtime)]
Link(p, target, mtime) ==
    [path |-> p, kind |-> "Symlink", hash |-> None,
     symlink_target |-> Some(target), metadata |-> Meta(0, 7, mtime)]
Dir(p, mode, mtime) ==
    [path |-> p, kind |-> "Directory", hash |-> None, symlink_target |-> None,
     metadata |-> Meta(0, mode, mtime)]
=============================================================================
