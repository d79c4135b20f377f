---------------------------- MODULE MCChunkFiles ----------------------------
(***************************************************************************)
(* Instances of ChunkFiles.                                                *)
(***************************************************************************)
EXTENDS ChunkFiles

Change(i) == [type |-> "DiffChange", change |-> i, has_content |-> TRUE]
Removal(i) == [type |-> "DiffChange", change |-> i, has_content |-> FALSE]
Content(i) == [type |-> "FileContent", change |-> i, has_content |-> FALSE]

\* No change at all, and one to three chunks, with content in the chunk of
\* its metadata or in a later one.
SomeDiffs ==
    {<<>>,
     <<<<Removal(1)>>>>,
     <<<<Change(1), Content(1)>>>>,
     <<<<Change(1)>>, <<Content(1)>>>>,
     <<<<Change(1), Change(2), Content(1)>>, <<Content(2)>>>>,
     <<<<Change(1), Removal(2)>>, <<Change(3), Content(1)>>, <<Content(3)>>>>}
=============================================================================
