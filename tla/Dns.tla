-------------------------------- MODULE Dns ---------------------------------
(***************************************************************************)
(* dns (dns.hpp), objects that own an evdns_base, and queue (queue.hpp),     *)
(* objects that own the event_base that an evdns_base has its events in.     *)
(*                                                                          *)
(* Both are the variables of nested scopes, which end in the reverse order   *)
(* of their beginning.                                                      *)
(***************************************************************************)
EXTENDS Naturals, Sequences, SequencesExt

CONSTANTS
    Que,        \* queues
    EvBase,     \* what event_base_new ever returns (bounds it)
    Obj,        \* dns objects
    Dns,        \* what evdns_base_new ever returns (bounds it)
    None        \* null

Owner == Que \cup Obj
Base == EvBase \cup Dns

DnsAssumption ==
    /\ Que \cap Obj = {} /\ EvBase \cap Dns = {}
    /\ None \notin Owner \cup Base \cup {"freedTwice", "queueGone"}

VARIABLES
    scope,      \* the live queues and dns objects, the youngest last
    held,       \* hqueue_ or hdns_ of an object
    base,       \* of an event_base or an evdns_base: "new", "live", "freed"
    on,         \* the event_base that an evdns_base was made on
    lost,       \* bases that a throwing constructor or an assign() forgot
    uprooted,   \* history: an evdns_base that an assignment gave to an object,
                \* or whose event_base left its queue while it lived
    crash       \* what ended the program

vars == <<scope, held, base, on, lost, uprooted, crash>>

Live(o) == Contains(scope, o)

-----------------------------------------------------------------------------
(* Mistakes: variants of the definitions below that the code could have had. *)
(* Nothing uses them; the properties tell each of them from the code.       *)

\* The moves copy the pointer.
SwapCopies(o, that) == [held EXCEPT ![o] = held[that]]

-----------------------------------------------------------------------------
Init ==
    /\ scope = <<>>
    /\ held = [o \in Owner |-> None]
    /\ base = [b \in Base |-> "new"]
    /\ on = [n \in Dns |-> None]
    /\ lost = {} /\ uprooted = {}
    /\ crash = None

\* What std::swap of the two members leaves.
Swap(o, that) == [held EXCEPT ![o] = held[that], ![that] = held[o]]

\* The evdns_bases that have their events in one of L.
On(L) == {n \in Dns : base[n] = "live" /\ on[n] \in L}

\* What ~queue, destroy() and ~dns do: evdns_base_free removes the events from
\* the event_base.
Free(o) ==
    /\ held' = [held EXCEPT ![o] = None]
    /\ IF held[o] = None THEN UNCHANGED <<base, crash>>
       ELSE /\ base' = [base EXCEPT ![held[o]] = "freed"]
            /\ crash' = IF base[held[o]] = "freed" THEN "freedTwice"
                        ELSE IF o \in Obj /\ base[on[held[o]]] = "freed"
                        THEN "queueGone" ELSE None

-----------------------------------------------------------------------------
(* Queues.                                                                  *)

\* queue(), queue(config) and queue(handle): all have an event_base.
MakeQueue(q, e) ==
    /\ ~Live(q) /\ base[e] = "new"
    /\ scope' = Append(scope, q)
    /\ held' = [held EXCEPT ![q] = e]
    /\ base' = [base EXCEPT ![e] = "live"]
    /\ UNCHANGED <<on, lost, uprooted, crash>>

\* queue(queue&&): the initialiser of hqueue_ makes an event_base, which the
\* swap leaves to the other.
MoveQueue(q, that, e) ==
    /\ ~Live(q) /\ Live(that) /\ base[e] = "new"
    /\ scope' = Append(scope, q)
    /\ held' = [held EXCEPT ![q] = held[that], ![that] = e]
    /\ base' = [base EXCEPT ![e] = "live"]
    /\ uprooted' = uprooted \cup On({held[that]})
    /\ UNCHANGED <<on, lost, crash>>

\* operator=(queue&&), which asserts that they are two.
MoveAssignQueue(q, that) ==
    /\ Live(q) /\ Live(that) /\ q # that
    /\ held' = Swap(q, that)
    /\ uprooted' = uprooted \cup On({held[q], held[that]})
    /\ UNCHANGED <<scope, base, on, lost, crash>>

\* queue::assign(hqueue), given an event_base that the caller made: nothing
\* frees the one there was.
AssignQueue(q, e) ==
    /\ Live(q) /\ base[e] = "new"
    /\ held' = [held EXCEPT ![q] = e]
    /\ base' = [base EXCEPT ![e] = "live"]
    /\ lost' = lost \cup ({held[q]} \ {None})
    /\ UNCHANGED <<scope, on, uprooted, crash>>

Destroy(q) ==
    /\ Live(q)
    /\ Free(q)
    /\ uprooted' = uprooted \cup On({held[q]})
    /\ UNCHANGED <<scope, on, lost>>

-----------------------------------------------------------------------------
(* dns objects.  The queue they are made on has not been destroyed.          *)

\* evdns_base_new on a queue.
NewDns(q, n) ==
    /\ Live(q) /\ held[q] # None /\ base[n] = "new"
    /\ base' = [base EXCEPT ![n] = "live"]
    /\ on' = [on EXCEPT ![n] = held[q]]

\* dns(queue, opt), which is dns(hdns) with a new evdns_base: it sets the
\* option "randomize-case".
Construct(o, q, n) ==
    /\ ~Live(o)
    /\ NewDns(q, n)
    /\ scope' = Append(scope, o)
    /\ held' = [held EXCEPT ![o] = n]
    /\ UNCHANGED <<lost, uprooted, crash>>

\* The option is refused: the exception leaves the body of the constructor,
\* and no destructor frees the evdns_base.
ConstructThrows(o, q, n) ==
    /\ ~Live(o)
    /\ NewDns(q, n)
    /\ lost' = lost \cup {n}
    /\ UNCHANGED <<scope, held, uprooted, crash>>

\* dns::assign(hdns), given an evdns_base that the caller made.
Assign(o, q, n) ==
    /\ Live(o)
    /\ NewDns(q, n)
    /\ held' = [held EXCEPT ![o] = n]
    /\ lost' = lost \cup ({held[o]} \ {None})
    /\ uprooted' = uprooted \cup {n}
    /\ UNCHANGED <<scope, crash>>

\* dns(dns&&): what it is constructed with is null.
MoveConstruct(o, that) ==
    /\ ~Live(o) /\ Live(that)
    /\ scope' = Append(scope, o)
    /\ held' = Swap(o, that)
    /\ UNCHANGED <<base, on, lost, uprooted, crash>>

\* operator=(dns&&).
MoveAssign(o, that) ==
    /\ Live(o) /\ Live(that)
    /\ held' = Swap(o, that)
    /\ uprooted' = uprooted \cup ({held[o], held[that]} \ {None})
    /\ UNCHANGED <<scope, base, on, lost, crash>>

-----------------------------------------------------------------------------
\* The youngest variable goes, and frees what it has.
Leave ==
    /\ scope # <<>>
    /\ scope' = Front(scope)
    /\ Free(Last(scope))
    /\ UNCHANGED <<on, lost, uprooted>>

Next ==
    /\ crash = None
    /\ \/ \E q \in Que :
            \/ \E e \in EvBase : MakeQueue(q, e) \/ AssignQueue(q, e)
            \/ \E that \in Que :
                \/ MoveAssignQueue(q, that)
                \/ \E e \in EvBase : MoveQueue(q, that, e)
            \/ Destroy(q)
       \/ \E o \in Obj, q \in Que, n \in Dns :
            Construct(o, q, n) \/ ConstructThrows(o, q, n) \/ Assign(o, q, n)
       \/ \E o, that \in Obj : MoveConstruct(o, that) \/ MoveAssign(o, that)
       \/ Leave

Spec == Init /\ [][Next]_vars

-----------------------------------------------------------------------------
(* Properties.                                                              *)

TypeOK ==
    /\ scope \in Seq(Owner) /\ IsInjective(scope)
    /\ held \in [Owner -> Base \cup {None}]
    /\ \A q \in Que : held[q] \notin Dns
    /\ \A o \in Obj : held[o] \notin EvBase
    /\ base \in [Base -> {"new", "live", "freed"}]
    /\ on \in [Dns -> EvBase \cup {None}]
    /\ lost \subseteq Base /\ uprooted \subseteq Dns
    /\ crash \in {None, "freedTwice", "queueGone"}

\* A base belongs to one live object until it is freed, unless the
\* constructor threw after it was made, or assign() took its place
\* (dns.hpp:40-67, 72-76, queue.hpp:38-71, 88-92).
OneOwner ==
    /\ crash # "freedTwice"
    /\ \A b \in Base : base[b] = "live" /\ b \notin lost =>
        \E o \in Owner : Live(o) /\ held[o] = b
    /\ \A o \in Owner : held[o] # None =>
        /\ Live(o) /\ base[held[o]] = "live" /\ held[o] \notin lost
        /\ \A p \in Owner : held[p] = held[o] => p = o

\* Scopes and the moves that construct a dns object free an evdns_base before
\* the event_base it is on.  One that outlives it was given to an object by an
\* assignment, which may be older, or the event_base left the queue after it
\* was made, with a move or by destroy() (dns.hpp:52-67, 72-76,
\* queue.hpp:38-49, 62-65, 88-92).  No assign() of a queue is a reason: it
\* frees nothing.
QueueOutlives ==
    /\ \A n \in Dns :
        base[n] = "live" /\ n \notin lost /\ base[on[n]] = "freed"
            => n \in uprooted
    /\ crash = "queueGone" =>
        \E n \in uprooted : base[n] = "freed" /\ base[on[n]] = "freed"

\* A base is freed once, by its object, and an evdns_base before its event_base.
FreedInTime == OneOwner /\ QueueOutlives
=============================================================================
