---------------------------- MODULE MCSplitDiff ----------------------------
(***************************************************************************)
(* Small instances of SplitDiff for the limits of --split-size: one below  *)
(* what a record takes, and one with room.                                 *)
(***************************************************************************)
EXTENDS SplitDiff

Removal(len) == [has_content |-> FALSE, dc_len |-> len, size |-> 0]
File(len, size) == [has_content |-> TRUE, dc_len |-> len, size |-> size]

MCHeaderSizes == {2}
MCRecordHeader == 2
Stable == {0}

\* A file whose DiffChange still goes into the first chunk, and a limit equal
\* to header and record header: no chunk has room for its content.
MCOneFile == {<<File(1, 4)>>}
MCTiny == {4}

\* Two short records without content that fill a chunk beyond its limit.
MCTwoRemovals == {<<Removal(1), Removal(1)>>}
MCRoomy == {7}
=============================================================================
