------------------------------ MODULE MCVerify -----------------------------
(***************************************************************************)
(* Instances of MerkleDiff and Verify: every combination of an old tree, a *)
(* new tree and a tree at the target, from a set in which the first of two *)
(* names is a file, a link or a directory of up to two levels, directories *)
(* come and go with and without content, and files and mtimes differ.      *)
(***************************************************************************)
EXTENDS Verify, MCTrees

\* What a directory at <<1>> holds: nothing, a directory, with a file or
\* without, or a file of various contents and mtimes.  Mtimes 0 and 1 are of
\* one second, 2 is of another within the tolerance, 3 lies beyond.
Inner ==
    {{}, {Dir(<<1, 1>>, 7, 0)},
     {Dir(<<1, 1>>, 7, 0), File(<<1, 1, 1>>, c1, 6, 0)},
     {Dir(<<1, 1>>, 7, 0), File(<<1, 1, 1>>, c1, 6, 1)}}
    \cup {{File(<<1, 1>>, f[1], 6, f[2])} :
            f \in {<<c1, 0>>, <<c1, 2>>, <<c2, 0>>, <<c2, 3>>}}

VerifyTrees ==
    {{Dir(root, 7, 0), Dir(<<1>>, 7, t)} \cup inner : t \in {0, 3}, inner \in Inner}
    \cup {{Dir(root, 7, 3)},
          {Dir(root, 7, 0), File(<<1>>, c1, 6, 0), Dir(<<2>>, 7, 0), File(<<2, 1>>, c1, 6, 0)},
          {Dir(root, 7, 3), Dir(<<1>>, 7, 0), File(<<1, 1>>, c1, 6, 0), File(<<2>>, c1, 6, 0)},
          {Dir(root, 7, 0), File(<<1>>, c1, 4, 0)},
          {Dir(root, 7, 0), File(<<1>>, c1, 6, 3), File(<<2>>, c1, 6, 0)},
          {Dir(root, 7, 0), File(<<1>>, c2, 6, 1)},
          {Dir(root, 7, 0), File(<<1>>, c2, 6, 2), Dir(<<2>>, 7, 0)},
          {Dir(root, 7, 3), File(<<1>>, c3, 4, 0)},
          {Dir(root, 7, 0), Link(<<1>>, t1, 0)},
          {Dir(root, 7, 3), Link(<<1>>, t2, 0), File(<<2>>, c1, 6, 0)}}
=============================================================================
