--------------------------- MODULE MCPrefetchPool ---------------------------
(***************************************************************************)
(* Two workers; more files than the pool may hold at once, so that every   *)
(* bound on them can be exceeded; files that are empty, that fill their    *)
(* channel, and of more blocks than channel, worker and reader can hold.   *)
(***************************************************************************)
EXTENDS PrefetchPool

MCFileBlocks ==
    { <<>>, <<3>>, <<0, 0, 0>>, <<3, 4>>, <<0, 3, 1>>, <<2, 0, 3>>,
      <<1, 1, 1, 1>>, <<4, 1, 0, 1>>, <<1, 0, 2, 1, 1>>, <<0, 1, 1, 1, 2>> }

\* A file of more blocks than the comment at parallel.rs:44 allows in memory.
MCOneFile == { <<3>> }
=============================================================================
