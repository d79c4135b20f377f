----------------------------- MODULE OrderedRead -----------------------------
(***************************************************************************)
(* What the writer of a diff asks of the prefetch pool: the blocks of the  *)
(* queued files, file after file and block after block, as if one thread   *)
(* had read them; an end only after the last; or a failure at any time.    *)
(***************************************************************************)
EXTENDS Naturals, Sequences

VARIABLES
    blocks,  \* blocks[f]: how many blocks file f has
    got,     \* the blocks handed to the writer
    outcome  \* "open", "done" or "failed"

\* The first block of a file behind file f; <<>> when there is none.
FirstBehind(f) ==
    LET rest == {g \in f + 1 .. Len(blocks) : blocks[g] > 0}
    IN  IF rest = {} THEN <<>>
        ELSE <<CHOOSE g \in rest : \A h \in rest : g <= h, 1>>

NextBlock ==
    IF got = <<>> THEN FirstBehind(0)
    ELSE LET last == got[Len(got)]
         IN  IF last[2] < blocks[last[1]]
               THEN <<last[1], last[2] + 1>>
               ELSE FirstBehind(last[1])

Init == got = <<>> /\ outcome = "open"

Read ==
    /\ outcome = "open"
    /\ NextBlock # <<>>
    /\ got' = Append(got, NextBlock)
    /\ UNCHANGED <<blocks, outcome>>

End ==
    /\ outcome = "open"
    /\ NextBlock = <<>>
    /\ outcome' = "done"
    /\ UNCHANGED <<blocks, got>>

Fail ==
    /\ outcome = "open"
    /\ outcome' = "failed"
    /\ UNCHANGED <<blocks, got>>

Next == Read \/ End \/ Fail

Spec == Init /\ [][Next]_<<blocks, got, outcome>>
=============================================================================
