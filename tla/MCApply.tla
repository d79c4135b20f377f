------------------------------- MODULE MCApply ------------------------------
(***************************************************************************)
(* Instances of Apply: every pair of trees makes a diff, applied to every  *)
(* tree.                                                                   *)
(***************************************************************************)
EXTENDS Apply, MCTrees

\* Directories with two levels below them, one of them read-only, files, links.
ApplyTrees ==
    {{Dir(root, 7, 0), Dir(<<1>>, 7, 0), File(<<1, 1>>, c1, 6, 0)},
     {Dir(root, 7, 0), Dir(<<1>>, 7, 3), Dir(<<1, 1>>, 7, 0), File(<<1, 1, 1>>, c1, 6, 0)},
     {Dir(root, 7, 3), Dir(<<1>>, 5, 0), File(<<1, 1>>, c2, 4, 3)},
     {Dir(root, 7, 3), Dir(<<1>>, 7, 0), Link(<<1, 1>>, t1, 0)},
     {Dir(root, 7, 0), File(<<1>>, c1, 6, 0)},
     {Dir(root, 7, 2), File(<<1>>, c3, 6, 3), Link(<<2>>, t1, 3)},
     {Dir(root, 7, 0), Link(<<1>>, t1, 0), Link(<<2>>, t1, 0)},
     {Dir(root, 7, 2), Link(<<1>>, t2, 0), Link(<<2>>, t2, 3)}}
=============================================================================
