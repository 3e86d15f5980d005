------------------------------ MODULE MCQueue ------------------------------
(* Small instances of Queue for TLC. *)
EXTENDS QueueRefines, TLC

\* A queue is interchangeable with a queue, a base with a base, a post with a
\* post; no property names one.
Symmetry == Permutations(Queue) \cup Permutations(Base) \cup Permutations(Post)

\* Bounds on the steps of a run, one per group of operations it leaves out.
NoLoopControl == UNCHANGED exits /\ \A b \in Base : "break" \notin stop'[b]
DispatchOnly == \A b \in Base : loop'[b] # "flags"
=============================================================================
