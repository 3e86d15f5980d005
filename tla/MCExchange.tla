----------------------------- MODULE MCExchange -----------------------------
(***************************************************************************)
(* One run for three components of a transfer that do not share their state: *)
(* Framing, OutHeaders and Response.  Which one a behaviour is of is chosen  *)
(* at the start and the others stay as they are, so that their states add up *)
(* and do not multiply.  Framing and Response are there twice: with several  *)
(* contexts that have no messages, and with one event context that has; with *)
(* several names of headers, and with bodies and several responses.          *)
(***************************************************************************)
EXTENDS Framing, TLC

CONSTANTS Op, Own, List,                        \* of OutHeaders
          Name, Edge, Value, Empty, Lines, Transfers,   \* of Response
          Chunks, Resps                         \* of the second Response

VARIABLES
    part,                                       \* the component
    live, slist, list, opt, busy, lost, listCopied, given, late, outCrash,
    resp, kind, sink, store, body, phase, transfer, seen, bodyLeft, respCrash

outVars ==
    <<live, slist, list, opt, busy, lost, listCopied, given, late, outCrash>>
respVars ==
    <<resp, kind, sink, store, body, phase, transfer, seen, bodyLeft,
      respCrash>>

Out == INSTANCE OutHeaders WITH copied <- listCopied, crash <- outCrash
Headers ==
    INSTANCE Response WITH left <- bodyLeft, crash <- respCrash,
                           Chunks <- 0, Resps <- 1
Bodies ==
    INSTANCE Response WITH left <- bodyLeft, crash <- respCrash,
                           Name <- Name \ Edge, Edge <- {}, Lines <- Lines - 1

ASSUME ExchangeAssumption ==
    /\ Out!OutHeadersAssumption
    /\ Headers!ResponseAssumption
    /\ Bodies!ResponseAssumption

\* Bounds on the steps of Framing.
NoMessages == UNCHANGED <<fns, accepted, closing, deaf>>
OneContext == \A n, m \in Ctx : ctx'[n] # "new" /\ ctx'[m] # "new" => n = m

ResponseInit ==
    \/ part = "headers" /\ Headers!Init
    \/ part = "bodies" /\ Bodies!Init
    \/ part \notin {"headers", "bodies"} /\ Bodies!Init /\ kind = "get"

PartsInit ==
    /\ part \in {"contexts", "messages", "lists", "headers", "bodies"}
    /\ Init /\ (part = "contexts" => \A h \in Hnd : fns[h] = Fn)
    /\ Out!Init
    /\ ResponseInit

PartsNext ==
    /\ UNCHANGED part
    /\ \/ /\ part = "contexts" /\ Next /\ NoMessages
          /\ UNCHANGED <<outVars, respVars>>
       \/ /\ part = "messages" /\ Next /\ OneContext
          /\ UNCHANGED <<outVars, respVars>>
       \/ /\ part = "lists" /\ Out!Next
          /\ UNCHANGED <<vars, respVars>>
       \/ /\ part = "headers" /\ Headers!Next
          /\ UNCHANGED <<vars, outVars>>
       \/ /\ part = "bodies" /\ Bodies!Next
          /\ UNCHANGED <<vars, outVars>>

PartsSpec == PartsInit /\ [][PartsNext]_<<part, vars, outVars, respVars>>

\* The components have values of their own in common, so that these
\* permutations are all there are.
Symmetry == Permutations(Obj) \cup Permutations(Ctx)

-----------------------------------------------------------------------------
(* The properties of OutHeaders and Response, which say what they are about.  *)

\* The type invariants of the three components.
TypesOK ==
    /\ TypeOK
    /\ Out!TypeOK
    /\ IF part = "headers" THEN Headers!TypeOK ELSE Bodies!TypeOK

\* A transfer has the headers that were pushed, and libcurl reads no list that
\* was freed (curl/slist.hpp:40-67, curl/request.hpp:34-39, 99-105,
\* curl/client.hpp:109-121).
HeadersKept == Out!HeadersKept

\* Every line that was sent is found as it was spelled, and what is stored was
\* sent (curl/header/store.hpp:101-152).
StoreKeepsSent == part = "headers" => Headers!StoreKeepsSent

\* The body is that of its own transfer, or was left, and libcurl calls no
\* response that was replaced, but by a websocket (curl/resp.hpp:159-182,
\* 215-218, curl/client.hpp:123-128).
TransfersApart == Bodies!TransfersApart
=============================================================================
