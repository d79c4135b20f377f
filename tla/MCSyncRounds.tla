---------------------------- MODULE MCSyncRounds ----------------------------
(***************************************************************************)
(* Instances of SyncRounds: a directory with two files, one of which is    *)
(* edited within the second, within the tolerance, beyond and to another   *)
(* size, a link that is retargeted, and both gone for other kinds.         *)
(***************************************************************************)
EXTENDS SyncRounds, MCTrees

SyncTrees ==
    {{Dir(root, 7, 0), Dir(<<1>>, 7, 0), File(<<1, 1>>, c1, 6, 0), Link(<<2>>, t1, 1)},
     {Dir(root, 7, 0), Dir(<<1>>, 7, 3), File(<<1, 1>>, c2, 6, 1), Link(<<2>>, t2, 3)},
     {Dir(root, 7, 0), Dir(<<1>>, 7, 3), File(<<1, 1>>, c1, 6, 2), File(<<1, 2>>, c2, 6, 2)},
     {Dir(root, 7, 0), Dir(<<1>>, 5, 3), File(<<1, 1>>, c3, 6, 4), File(<<1, 2>>, c1, 6, 4)},
     {Dir(root, 7, 3), File(<<1>>, c3, 6, 2), Link(<<2>>, t1, 1)}}
=============================================================================
