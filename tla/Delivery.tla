------------------------------ MODULE Delivery ------------------------------
(***************************************************************************)
(* What queue::once promises of each call, whatever queue it names: the     *)
(* call is refused with an exception or accepted; an accepted function is   *)
(* called once, or dropped (its event could not be registered on the other  *)
(* queue, or was freed with its base), and never both.                      *)
(***************************************************************************)
CONSTANT Post

VARIABLE fate

Init == fate = [p \in Post |-> "new"]

Accept(p) == fate[p] = "new" /\ fate' = [fate EXCEPT ![p] = "accepted"]
Refuse(p) == fate[p] = "new" /\ fate' = [fate EXCEPT ![p] = "refused"]
Deliver(p) == fate[p] = "accepted" /\ fate' = [fate EXCEPT ![p] = "called"]

\* A base that is freed drops everything it held.
Drop(S) ==
    /\ \A p \in S : fate[p] = "accepted"
    /\ fate' = [p \in Post |-> IF p \in S THEN "dropped" ELSE fate[p]]

Next ==
    \/ \E p \in Post : Accept(p) \/ Refuse(p) \/ Deliver(p)
    \/ \E S \in SUBSET Post : Drop(S)

Spec == Init /\ [][Next]_fate
=============================================================================
