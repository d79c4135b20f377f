--------------------------- MODULE ContentDelivery ---------------------------
(***************************************************************************)
(* What shipping file content from source to target promises, whatever the *)
(* packing and whatever the medium does to it: apply commits to a prefix   *)
(* of the change list, then stores the content changes of that prefix one  *)
(* after the other in order, each of them whole, and reports success only  *)
(* when it has been through them all.  It may give up at any time.         *)
(***************************************************************************)
EXTENDS Naturals, Sequences

VARIABLES
    changes,   \* the change list
    scope,     \* how many of them apply has read the metadata of
    delivered, \* content changes dealt with: [change, stored]
    verdict    \* "idle", "running", "ok" or "error"

vars == <<changes, scope, delivered, verdict>>

\* The next change after `last' within the scope that has content; 0 if none.
NextContent(last) ==
    LET rest == {i \in last + 1 .. scope : changes[i].has_content}
    IN  IF rest = {} THEN 0 ELSE CHOOSE i \in rest : \A j \in rest : i <= j

LastDelivered ==
    IF delivered = <<>> THEN 0 ELSE delivered[Len(delivered)].change

Init ==
    /\ scope = 0
    /\ delivered = <<>>
    /\ verdict = "idle"

Commit ==
    /\ verdict = "idle"
    /\ scope' \in 0 .. Len(changes)
    /\ verdict' = "running"
    /\ UNCHANGED <<changes, delivered>>

Deliver ==
    /\ verdict = "running"
    /\ NextContent(LastDelivered) # 0
    /\ \E stored \in BOOLEAN :
         delivered' = Append(delivered,
                        [change |-> NextContent(LastDelivered), stored |-> stored])
    /\ UNCHANGED <<changes, scope, verdict>>

Succeed ==
    /\ verdict = "running"
    /\ NextContent(LastDelivered) = 0
    /\ verdict' = "ok"
    /\ UNCHANGED <<changes, scope, delivered>>

Fail ==
    /\ verdict \in {"idle", "running"}
    /\ verdict' = "error"
    /\ UNCHANGED <<changes, scope, delivered>>

Next == Commit \/ Deliver \/ Succeed \/ Fail

Spec == Init /\ [][Next]_vars
=============================================================================
