------------------------------ MODULE MCClient ------------------------------
(***************************************************************************)
(* One run for the two components that are fair: Client, and a buffer event   *)
(* of BufferEvent.  Which one a behaviour is of is chosen at the start and    *)
(* the other stays as it is.                                                *)
(***************************************************************************)
EXTENDS Client, TLC

CONSTANTS Obj, Bev, Handler, Write              \* of BufferEvent

VARIABLES
    part,                                       \* the component
    handle, state, ssl, closes, failed, orphan, conn, cb, fns, out, kind, heap,
    mem, lost, cleaned, run, bevCrash

bevVars ==
    <<handle, state, ssl, closes, failed, orphan, conn, cb, fns, out, kind,
      heap, mem, lost, cleaned, run, bevCrash>>

Events == INSTANCE BufferEvent WITH crash <- bevCrash

ASSUME EventsAssumption == Events!BufferEventNames

PartsInit ==
    /\ part \in {"client", "events"}
    /\ Init
    /\ Events!Init

PartsNext ==
    /\ UNCHANGED part
    /\ \/ part = "client" /\ Next /\ UNCHANGED bevVars
       \/ part = "events" /\ Events!Next /\ UNCHANGED vars

\* The fairness of the two components.
PartsSpec ==
    /\ PartsInit /\ [][PartsNext]_<<part, vars, bevVars>>
    /\ part = "client" => Fairness
    /\ part = "events" => Events!Fairness

-----------------------------------------------------------------------------
(* The properties of BufferEvent, which say what they are about.             *)

\* The type invariants of the two components.
TypesOK == TypeOK /\ Events!TypeOK

\* A connect() without TLS that was accepted is answered, unless the callbacks
\* are changed or the bufferevent is freed (bevfn.hpp:47-56).
ConnectAnswered == Events!ConnectAnswered

\* The function of a write is called once its bufferevent is freed
\* (bev.hpp:294-326).
CleanupComes == Events!CleanupComes
=============================================================================
