------------------------------ MODULE MCBuffer ------------------------------
(***************************************************************************)
(* Buffer for TLC, in two parts between which a behaviour chooses at the      *)
(* start: several objects, and no reads of several calls; such reads on two   *)
(* threads, of fewer objects.                                               *)
(***************************************************************************)
EXTENDS Buffer, FiniteSets, TLC

VARIABLE part

\* Bounds on the steps of each part.
NoReads == UNCHANGED <<job, locks>>
TwoObjects == Cardinality({o \in Obj : handle'[o] # "raw"}) <= 2

PartsInit ==
    /\ part \in {"objects", "reads"}
    /\ Init

PartsNext ==
    /\ UNCHANGED part
    /\ \/ part = "objects" /\ Next /\ NoReads
       \/ part = "reads" /\ Next /\ TwoObjects

PartsSpec == PartsInit /\ [][PartsNext]_<<part, vars>>

Symmetry ==
    Permutations(Own) \cup Permutations(Ref) \cup Permutations(Evb)
        \cup Permutations(Byte) \cup Permutations(Thread)
=============================================================================
