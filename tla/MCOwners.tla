------------------------------ MODULE MCOwners ------------------------------
(***************************************************************************)
(* One run for the two components whose objects own something of libevent:    *)
(* Ev, and BufferEvent, which is there twice: with several objects and a      *)
(* bevfn, and no writes; with writes of one object.  Which part a behaviour   *)
(* is of is chosen at the start and the others stay as they are.            *)
(***************************************************************************)
EXTENDS BufferEvent, TLC

CONSTANTS EvObj, Heap, HeapEvent, Fn          \* of Ev

VARIABLES
    part,                                   \* the component
    life, hand, evHandle, made, arg, want, persist, pend, act, evRun, pc,
    loose, wrong, evCrash

evVars ==
    <<life, hand, evHandle, made, arg, want, persist, pend, act, evRun, pc,
      loose, wrong, evCrash>>

Evs ==
    INSTANCE Ev WITH Obj <- EvObj, handle <- evHandle, run <- evRun,
                     crash <- evCrash

ASSUME EvsAssumption == Evs!EvAssumption

\* Bounds on the steps of BufferEvent.
NoWrites == UNCHANGED kind
OneWriter ==
    /\ UNCHANGED fns
    /\ \A o, p \in Obj : handle'[o] # "raw" /\ handle'[p] # "raw" => o = p

PartsInit ==
    /\ part \in {"events", "owners", "writes"}
    /\ Init
    /\ Evs!Init

PartsNext ==
    /\ UNCHANGED part
    /\ \/ part = "events" /\ Evs!Next /\ UNCHANGED vars
       \/ part = "owners" /\ Next /\ NoWrites /\ UNCHANGED evVars
       \/ part = "writes" /\ Next /\ OneWriter /\ UNCHANGED evVars

PartsSpec == PartsInit /\ [][PartsNext]_<<part, vars, evVars>>

\* The components have values of their own in common, so that these
\* permutations are all there are.
Symmetry == Permutations(Obj) \cup Permutations(Bev) \cup Permutations(Write)

-----------------------------------------------------------------------------
(* The properties of Ev, which say what they are about.                      *)

\* The type invariant of Ev.
EvTypeOK == Evs!TypeOK

\* An event has one owner while libevent may know it, and none after
\* (evtype.hpp:16-152, evcore.hpp:124-162).
EventsOwned == Evs!EventsOwned

\* No handler is entered dead and no event calls another's function, but in an
\* object that was moved with an event or whose handler destroyed it
\* (ev.hpp:57-103).
OnlyLooseGoWrong == Evs!OnlyLooseGoWrong
=============================================================================
