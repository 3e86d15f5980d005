---------------------------- MODULE QueueRefines ----------------------------
(* Queue implements Delivery. *)
EXTENDS Queue

\* The fate of a post, read off the state of Queue.
Fate(p) ==
    CASE call[p] = None                          -> "new"
      [] call[p] # None /\ ~call[p].ok           -> "refused"
      [] call[p] # None /\ call[p].ok /\ ran[p] = 0 ->
            IF \E k \in {"post", "hop"} : <<p, k>> \in lost
            THEN "dropped" ELSE "accepted"
      [] OTHER -> IF ran[p] = 1 THEN "called" ELSE "repeated"

D == INSTANCE Delivery WITH fate <- [p \in Post |-> Fate(p)]

\* Every behaviour of the code is one Delivery allows: a post is accepted or
\* refused once, and an accepted one is called once or dropped, never both.
DeliverySpec == D!Spec
=============================================================================
