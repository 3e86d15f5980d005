----------------------------- MODULE OutHeaders -----------------------------
(***************************************************************************)
(* The header lines that go out with a request: basic_slist (curl/slist.hpp) *)
(* and what operation and client_operation (curl/request.hpp,                *)
(* curl/client.hpp) do with the one they have.  libcurl is given the address *)
(* of the list and reads it while the transfer runs.                         *)
(***************************************************************************)
EXTENDS Naturals

CONSTANTS
    Op,         \* operations: each has an outhdr_ and an easy handle
    Own,        \* the caller's own basic_slist objects
    List,       \* what curl_slist_append ever makes (bounds it)
    None        \* null

OutHeadersAssumption ==
    /\ Op \cap Own = {}
    /\ None \notin Op \cup Own \cup List
    /\ None \notin {"freedInUse", "freedTwice", "freedWhileSent"}

VARIABLES
    live,       \* operations and lists of the caller that live
    slist,      \* slist_ of each
    list,       \* of a curl_slist: "new", "live", "freed"
    opt,        \* the list an easy handle has
    busy,       \* operations whose transfer runs
    lost,       \* lists that a failed append or a copy took the place of
    copied,     \* objects that were copied, or made as a copy
    given,      \* operations that were given a list of the caller
    late,       \* operations whose first header came when they had begun
    crash       \* what ended the program

history == <<lost, copied, given, late>>
vars == <<live, slist, list, opt, busy, history, crash>>

Holder == Op \cup Own

-----------------------------------------------------------------------------
(* Mistakes: variants of the definitions below that the code could have had. *)
(* Nothing uses them; the properties tell each of them from the code.       *)

\* The operation resets its list when libcurl has been given it.
PerformResets(op, ok) ==
    /\ op \in live \ busy
    /\ opt' = IF slist[op] = None THEN opt ELSE [opt EXCEPT ![op] = slist[op]]
    /\ busy' = IF ok THEN busy \cup {op} ELSE busy
    /\ slist' = [slist EXCEPT ![op] = None]
    /\ list' = [l \in List |-> IF l = slist[op] THEN "freed" ELSE list[l]]
    /\ UNCHANGED <<live, history, crash>>

-----------------------------------------------------------------------------
Init ==
    /\ live = {}
    /\ slist = [o \in Holder |-> None]
    /\ list = [l \in List |-> "new"]
    /\ opt = [op \in Op |-> None]
    /\ busy = {}
    /\ lost = {} /\ copied = {} /\ given = {} /\ late = {}
    /\ crash = None

\* basic_slist(), and operation(resp), which has a new easy handle.
Construct(o) ==
    /\ o \notin live
    /\ live' = live \cup {o}
    /\ opt' = IF o \in Op THEN [opt EXCEPT ![o] = None] ELSE opt
    /\ UNCHANGED <<slist, list, busy, history, crash>>

\* push, push_header, and the constructor with a header: a list is made, or
\* has the line appended in place.
Push(o, l) ==
    /\ o \in live
    /\ slist[o] = None => list[l] = "new"
    /\ slist[o] # None => slist[o] = l
    /\ crash' = IF list[l] = "freed" THEN "freedInUse" ELSE None
    /\ slist' = [slist EXCEPT ![o] = l]
    /\ list' = [list EXCEPT ![l] = IF @ = "new" THEN "live" ELSE @]
    /\ late' = IF o \in busy /\ slist[o] = None THEN late \cup {o} ELSE late
    /\ UNCHANGED <<live, opt, busy, lost, copied, given>>

\* curl_slist_append has no memory: it returns a null pointer, which takes the
\* place of the whole list, and nothing is thrown.
PushFails(o) ==
    /\ o \in live
    /\ slist' = [slist EXCEPT ![o] = None]
    /\ lost' = lost \cup ({slist[o]} \ {None})
    /\ UNCHANGED <<live, list, opt, busy, copied, given, late, crash>>

\* The implicit copies, which are also what a move calls; an operation has none.
CopyConstruct(o, that) ==
    /\ {o, that} \subseteq Own /\ o \notin live /\ that \in live
    /\ live' = live \cup {o}
    /\ slist' = [slist EXCEPT ![o] = slist[that]]
    /\ copied' = copied \cup {o, that}
    /\ UNCHANGED <<list, opt, busy, lost, given, late, crash>>

CopyAssign(o, that) ==
    /\ {o, that} \subseteq Own \cap live /\ o # that
    /\ slist' = [slist EXCEPT ![o] = slist[that]]
    /\ copied' = copied \cup {o, that}
    /\ lost' = lost \cup ({slist[o]} \ {None})
    /\ UNCHANGED <<live, list, opt, busy, given, late, crash>>

\* reset().
Free(o) ==
    /\ slist' = [slist EXCEPT ![o] = None]
    /\ list' = [l \in List |-> IF l = slist[o] THEN "freed" ELSE list[l]]
    /\ crash' = IF slist[o] # None /\ list[slist[o]] = "freed"
                THEN "freedTwice" ELSE None

Reset(o) ==
    /\ o \in Own \cap live
    /\ Free(o)
    /\ UNCHANGED <<live, opt, busy, history>>

\* ~basic_slist, and ~operation: outhdr_ goes before the easy handle, which
\* the client has removed by then.
Destruct(o) ==
    /\ o \in live \ busy
    /\ live' = live \ {o}
    /\ Free(o)
    /\ given' = given \ {o} /\ late' = late \ {o}
    /\ UNCHANGED <<opt, busy, lost, copied>>

\* operator()(handle) of a list of the caller.
Apply(o, op) ==
    /\ o \in Own \cap live /\ op \in live
    /\ opt' = [opt EXCEPT ![op] = slist[o]]
    /\ given' = given \cup {op}
    /\ UNCHANGED <<live, slist, list, busy, lost, copied, late, crash>>

\* perform: the handle keeps what it had when outhdr_ is empty.  Adding it to
\* the multi handle may fail, which throws.
Perform(op, ok) ==
    /\ op \in live \ busy
    /\ opt' = IF slist[op] = None THEN opt ELSE [opt EXCEPT ![op] = slist[op]]
    /\ busy' = IF ok THEN busy \cup {op} ELSE busy
    /\ UNCHANGED <<live, slist, list, history, crash>>

\* libcurl reads the list it has.
Send(op) ==
    /\ op \in busy /\ opt[op] # None
    /\ list[opt[op]] = "freed"
    /\ crash' = "freedWhileSent"
    /\ UNCHANGED <<live, slist, list, opt, busy, history>>

\* The transfer ends: curl_easy_perform returns, or the handle is removed.
End(op) ==
    /\ op \in busy
    /\ busy' = busy \ {op}
    /\ late' = late \ {op}
    /\ UNCHANGED <<live, slist, list, opt, lost, copied, given, crash>>

Next ==
    /\ crash = None
    /\ \/ \E o \in Holder :
            \/ Construct(o)
            \/ Destruct(o)
            \/ Reset(o)
            \/ PushFails(o)
            \/ \E l \in List : Push(o, l)
            \/ \E that \in Holder : CopyConstruct(o, that) \/ CopyAssign(o, that)
       \/ \E op \in Op :
            \/ \E ok \in BOOLEAN : Perform(op, ok)
            \/ \E o \in Own : Apply(o, op)
            \/ Send(op)
            \/ End(op)

Spec == Init /\ [][Next]_vars

-----------------------------------------------------------------------------
(* Properties.                                                              *)

TypeOK ==
    /\ live \subseteq Holder
    /\ slist \in [Holder -> List \cup {None}]
    /\ list \in [List -> {"new", "live", "freed"}]
    /\ opt \in [Op -> List \cup {None}]
    /\ busy \subseteq Op
    /\ lost \subseteq List /\ copied \subseteq Own
    /\ given \subseteq Op /\ late \subseteq Op
    /\ crash \in {None, "freedInUse", "freedTwice", "freedWhileSent"}

\* A list is freed with its object, unless an append failed or a copy took its
\* place; only objects that were copied share one, and free it twice
\* (slist.hpp:40-53, 60-67).
ListsFreed ==
    /\ \A l \in List : list[l] = "live" /\ l \notin lost =>
        \E o \in live : slist[o] = l
    /\ \A o \in live \ copied : slist[o] # None =>
        /\ list[slist[o]] = "live"
        /\ \A p \in live : slist[p] = slist[o] => p = o
    /\ crash \in {"freedInUse", "freedTwice"} => copied # {}

\* libcurl never reads a list that is gone for an operation that was given
\* its own headers only (request.hpp:34-39, 99-105, client.hpp:109-121).
SentAlive == crash = "freedWhileSent" => given # {}

\* A running transfer has the headers that were pushed, unless an append
\* failed, the caller gave it others, or the first of them came too late
\* (request.hpp:101-102, client.hpp:113-114).
SentIsPushed ==
    \A op \in busy \ (given \cup late) :
        slist[op] = opt[op] \/ (slist[op] = None /\ opt[op] \in lost)

\* The headers of a transfer are those that were pushed, and are freed once,
\* after it.
HeadersKept == ListsFreed /\ SentAlive /\ SentIsPushed
=============================================================================
