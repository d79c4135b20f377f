----------------------------- MODULE MCTransfer -----------------------------
(***************************************************************************)
(* Small instances of Transfer: change lists that fill one to six chunks,  *)
(* with metadata spread over several chunks, content that straddles them,  *)
(* empty files, and lists without any content.                             *)
(***************************************************************************)
EXTENDS Transfer

Removal(len) == [has_content |-> FALSE, dc_len |-> len, size |-> 0]
File(len, size) == [has_content |-> TRUE, dc_len |-> len, size |-> size]

MCInputs ==
    { <<>>,
      <<Removal(4), Removal(4), Removal(4)>>,
      <<File(1, 3)>>,
      <<File(1, 3), File(1, 0)>>,
      <<File(1, 0), File(2, 2)>>,
      <<Removal(4), File(1, 2), Removal(4)>>,
      <<File(4, 1), Removal(1), File(1, 2)>>,
      <<Removal(4), File(4, 2)>> }

\* Two files whose content shares a chunk.
MCDriftInputs == {<<File(1, 2), File(1, 1)>>}

MCHeaderSizes == {2, 3}
MCRecordHeader == 2
MCLimits == {6, 7, 9}
MCDriftLimits == {20}

Stable == {0}
Drifting == {-1, 0, 1}
=============================================================================
