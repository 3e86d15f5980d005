---------------------------- MODULE SocketsProofs ---------------------------
(* Proofs about the four components of MCSockets, for any number of objects,  *)
(* listeners, connections, descriptors, addresses and queues.  Acceptor: who   *)
(* owns a listener, whom it calls and until when an object listens.  Socket:  *)
(* which object has which file.  Dns: when a base is freed.  Address: what an  *)
(* address shows.                                                           *)
EXTENDS MCSockets, Integers, Sequences, FiniteSetTheorems, TLAPS

-----------------------------------------------------------------------------
(* Acceptor.                                                                *)

\* A dead object has no listener.
DeadHasNone == \A o \in Obj : life[o] = "raw" => handle[o] = None

\* A listener that was made has the address of some object.
ArgIsObject == \A l \in Lev : lev[l] # "new" => arg[l] \in Obj

\* An acceptorfn has its function, and an acceptor unless its listener was moved.
LiveHasFn ==
    \A o \in Obj :
        /\ life[o] = "live"
        /\ o \in Fn \/ (handle[o] # None /\ handle[o] \notin carried)
        => hasFn[o]

\* What went wrong so far went wrong through a listener that was moved.
History ==
    /\ CalledAlive /\ HandledUnlessMoved
    /\ \A c \in silent : conn[c] # "none"

\* What the objects and the listeners know of each other.
Owners ==
    /\ DeadHasNone
    /\ ArgIsObject
    /\ ListenerOwned
    /\ AddressOfOwner
    /\ ListensUntilClosed

\* The inductive invariant.
IInv ==
    /\ TypeOK
    /\ Owners
    /\ LiveHasFn
    /\ History

\* None is none of the values.
LEMMA NoneApart ==
    /\ None \notin Obj /\ None \notin Lev /\ None \notin Addr
    /\ None \notin Conn /\ Fn \subseteq Obj
BY AcceptorAssumption

-----------------------------------------------------------------------------
\* The invariant holds in the initial states.
LEMMA AcceptorInitially == Init => IInv
<1> SUFFICES ASSUME Init
             PROVE  IInv
    OBVIOUS
<1>1. run \in [obj : Obj \cup {None}, conn : Conn \cup {None}]
    BY DEF Init, Idle
<1>2. TypeOK
    BY <1>1 DEF Init, TypeOK
<1>3. Owners
    BY NoneApart
    DEF Init, Owners, DeadHasNone, ArgIsObject, ListenerOwned, AddressOfOwner,
        ListensUntilClosed
<1>4. LiveHasFn /\ History
    BY DEF Init, LiveHasFn, History, CalledAlive, HandledUnlessMoved
<1> QED
    BY <1>2, <1>3, <1>4 DEF IInv

-----------------------------------------------------------------------------
\* The type of connections after those of a listener were dropped.
LEMMA DroppedType ==
    ASSUME TypeOK, NEW l
    PROVE  Dropped(l) \in [Conn -> {"none", "queued", "handed", "owned",
                                    "closed", "leaked"}]
BY DEF TypeOK, Dropped

\* Connections that were dropped unseen stay what they are.
LEMMA SilentStay ==
    ASSUME TypeOK, HandledUnlessMoved, \A c \in silent : conn[c] # "none",
           NEW l, conn' \in {conn, Dropped(l)}, carried \subseteq carried',
           UNCHANGED <<by, silent>>
    PROVE  HandledUnlessMoved' /\ \A c \in silent' : conn'[c] # "none"
BY DEF TypeOK, HandledUnlessMoved, Dropped

\* An object listens anew, and the listener it had is freed.
LEMMA RelistenOwns ==
    ASSUME TypeOK, Owners, NEW o \in Obj, NEW l \in Lev, NEW a \in Addr,
           Relisten(o, l, a),
           life' = [life EXCEPT ![o] = "live"], carried' = carried
    PROVE  /\ Owners'
           /\ handle' \in [Obj -> Lev \cup {None}]
           /\ lev' \in [Lev -> {"new", "live", "freed"}]
           /\ arg' \in [Lev -> Obj \cup {None}]
           /\ at' \in [Lev -> Addr \cup {None}]
           /\ on' \subseteq Lev /\ wanted' \subseteq Obj
<1>1. /\ lev[l] = "new" /\ \A p \in Obj : handle[p] # l
      /\ handle' = [handle EXCEPT ![o] = l]
      /\ arg' = [arg EXCEPT ![l] = o]
      /\ at' = [at EXCEPT ![l] = a]
      /\ on' = on \cup {l}
      /\ wanted' = wanted \cup {o}
      /\ lev' = [m \in Lev |-> IF m = l THEN "live"
                               ELSE IF m = handle[o] THEN "freed" ELSE lev[m]]
    BY NoneApart DEF Relisten, Owners, ListenerOwned
<1>2. /\ handle' \in [Obj -> Lev \cup {None}]
      /\ lev' \in [Lev -> {"new", "live", "freed"}]
      /\ arg' \in [Lev -> Obj \cup {None}]
      /\ at' \in [Lev -> Addr \cup {None}]
      /\ on' \subseteq Lev /\ wanted' \subseteq Obj
    BY <1>1 DEF TypeOK
<1>3. DeadHasNone'
    BY <1>1 DEF TypeOK, Owners, DeadHasNone
<1>4. ListenerOwned'
    BY <1>1, NoneApart DEF TypeOK, Owners, ListenerOwned
<1>5. ASSUME NEW m \in Lev, lev'[m] # "new"
      PROVE  arg'[m] \in Obj
    <2>1. CASE m = l
        BY <1>1, <2>1 DEF TypeOK
    <2>2. CASE m # l
        <3>1. lev[m] # "new"
            BY <1>1, <1>5, <2>2, NoneApart DEF Owners, ListenerOwned
        <3> QED
            BY <1>1, <2>2, <3>1 DEF TypeOK, Owners, ArgIsObject
    <2> QED
        BY <2>1, <2>2
<1>6. AddressOfOwner' /\ ListensUntilClosed'
    BY <1>1, NoneApart DEF TypeOK, Owners, AddressOfOwner, ListensUntilClosed
<1> QED
    BY <1>2, <1>3, <1>4, <1>6, <1>5 DEF Owners, ArgIsObject

\* acceptor(...) and listen().
LEMMA Listens ==
    ASSUME IInv, crash = "no", NEW o \in Obj, NEW l \in Lev, NEW a \in Addr,
           Make(o, l, a) \/ Listen(o, l, a)
    PROVE  IInv'
<1>1. /\ Relisten(o, l, a) /\ life' = [life EXCEPT ![o] = "live"]
      /\ UNCHANGED <<by, run, carried, silent, crash>>
    BY DEF Make, Listen, conns, IInv, TypeOK
<1>2. \/ hasFn' = [hasFn EXCEPT ![o] = TRUE] /\ conn' = conn
      \/ UNCHANGED <<life, hasFn>> /\ conn' = Dropped(handle[o])
    BY DEF Make, Listen, conns
<1>3. /\ hasFn' \in [Obj -> BOOLEAN]
      /\ conn' \in [Conn -> {"none", "queued", "handed", "owned", "closed",
                             "leaked"}]
    <2>1. Dropped(handle[o]) \in [Conn -> {"none", "queued", "handed", "owned",
                                          "closed", "leaked"}]
        BY DroppedType DEF IInv
    <2>2. [hasFn EXCEPT ![o] = TRUE] \in [Obj -> BOOLEAN]
        BY DEF IInv, TypeOK
    <2> QED
        BY <1>2, <2>1, <2>2 DEF IInv, TypeOK
<1>4. /\ Owners'
      /\ handle' \in [Obj -> Lev \cup {None}]
      /\ lev' \in [Lev -> {"new", "live", "freed"}]
      /\ arg' \in [Lev -> Obj \cup {None}]
      /\ at' \in [Lev -> Addr \cup {None}]
      /\ on' \subseteq Lev /\ wanted' \subseteq Obj
    BY <1>1, RelistenOwns DEF IInv
<1>5. life' \in [Obj -> {"raw", "live"}]
    BY <1>1 DEF IInv, TypeOK
<1>6. TypeOK'
    BY <1>1, <1>4, <1>5, <1>3 DEF IInv, TypeOK
<1>7. LiveHasFn'
    <2>1. /\ handle' = [handle EXCEPT ![o] = l]
          /\ \/ o \in Fn /\ UNCHANGED <<life, hasFn>>
             \/ hasFn' = [hasFn EXCEPT ![o] = TRUE]
        BY <1>1, <1>2 DEF Relisten, Make, Listen
    <2> QED
        BY <1>1, <2>1 DEF IInv, TypeOK, LiveHasFn
<1>8. History'
    BY <1>1, <1>2, SilentStay DEF IInv, History, CalledAlive
<1> QED
    BY <1>4, <1>6, <1>7, <1>8 DEF IInv

\* close() and the destructor.
LEMMA Frees ==
    ASSUME IInv, crash = "no", NEW o \in Obj, Close(o) \/ Destruct(o)
    PROVE  IInv'
<1>1. /\ FreeListener(o)
      /\ handle' = [handle EXCEPT ![o] = None]
      /\ UNCHANGED <<arg, at, on, by, run, carried, silent>>
    BY DEF Close, Destruct
<1>2. /\ \/ UNCHANGED <<life, hasFn, crash>>
         \/ /\ life' = [life EXCEPT ![o] = "raw"]
            /\ hasFn' = [hasFn EXCEPT ![o] = FALSE]
            /\ crash' \in {"no", "functionDestroyed"}
    BY DEF Close, Destruct
<1>3. /\ lev' = [m \in Lev |-> IF m = handle[o] THEN "freed" ELSE lev[m]]
      /\ wanted' = wanted \ {o}
      /\ conn' \in [Conn -> {"none", "queued", "handed", "owned", "closed",
                             "leaked"}]
    BY <1>1, DroppedType DEF FreeListener, IInv
<1>4. TypeOK'
    BY <1>1, <1>2, <1>3 DEF IInv, TypeOK
<1>5. DeadHasNone' /\ ArgIsObject' /\ AddressOfOwner' /\ ListensUntilClosed'
    BY <1>1, <1>2, <1>3, NoneApart
    DEF IInv, TypeOK, Owners, DeadHasNone, ArgIsObject, ListenerOwned,
        AddressOfOwner, ListensUntilClosed
<1>6. ListenerOwned'
    BY <1>1, <1>2, <1>3, NoneApart
    DEF IInv, TypeOK, Owners, DeadHasNone, ListenerOwned
<1>7. LiveHasFn'
    BY <1>1, <1>2 DEF IInv, TypeOK, LiveHasFn
<1>8. History'
    BY <1>1, <1>2, SilentStay DEF IInv, History, CalledAlive, FreeListener
<1> QED
    BY <1>4, <1>5, <1>6, <1>7, <1>8 DEF IInv, Owners

-----------------------------------------------------------------------------
\* The moves of acceptor.
LEMMA Moves ==
    ASSUME IInv, crash = "no", NEW o \in Obj, NEW that \in Obj,
           MoveConstruct(o, that) \/ MoveAssign(o, that)
    PROVE  IInv'
<1>1. /\ o \notin Fn /\ that \notin Fn /\ life[that] = "live" /\ o # that
      /\ life' = [life EXCEPT ![o] = "live"]
      /\ handle' = [handle EXCEPT ![o] = handle[that], ![that] = handle[o]]
      /\ hasFn' = [hasFn EXCEPT ![o] = hasFn[that], ![that] = FALSE]
      /\ carried' = carried \cup ({handle[o], handle[that]} \ {None})
      /\ UNCHANGED <<levs, conns, run, silent>>
      /\ crash' \in {"no", "functionDestroyed"}
    <2>1. CASE MoveConstruct(o, that)
        <3>1. life[o] = "raw" /\ handle[o] = None
            BY <2>1 DEF MoveConstruct, IInv, Owners, DeadHasNone
        <3> QED
            BY <2>1, <3>1 DEF MoveConstruct
    <2>2. CASE MoveAssign(o, that)
        BY <2>2 DEF MoveAssign, IInv, TypeOK
    <2> QED
        BY <2>1, <2>2
<1>2. /\ wanted' \subseteq Obj
      /\ \A p \in wanted' : \/ p = o /\ that \in wanted
                            \/ p = that /\ o \in wanted
                            \/ p \notin {o, that} /\ p \in wanted
    <2>1. CASE MoveConstruct(o, that)
        <3>1. o \notin wanted
            BY <2>1
            DEF MoveConstruct, IInv, Owners, DeadHasNone, ListensUntilClosed
        <3> QED
            BY <2>1, <3>1 DEF MoveConstruct, IInv, TypeOK
    <2>2. CASE MoveAssign(o, that)
        BY <2>2 DEF MoveAssign, IInv, TypeOK
    <2> QED
        BY <2>1, <2>2
<1>3. TypeOK'
    BY <1>1, <1>2 DEF IInv, TypeOK, levs, conns
<1>4. DeadHasNone' /\ ArgIsObject' /\ AddressOfOwner' /\ ListensUntilClosed'
    BY <1>1, <1>2, NoneApart
    DEF IInv, TypeOK, Owners, DeadHasNone, ArgIsObject, AddressOfOwner,
        ListensUntilClosed, levs
<1>5. ListenerOwned'
    <2>1. ASSUME NEW l \in Lev, lev[l] = "live"
          PROVE  \E p \in Obj : handle'[p] = l /\ life'[p] = "live"
        <3>1. PICK p \in Obj : handle[p] = l /\ life[p] = "live"
            BY <2>1 DEF IInv, Owners, ListenerOwned
        <3>2. CASE p = o
            BY <1>1, <3>1, <3>2 DEF IInv, TypeOK
        <3>3. CASE p = that
            BY <1>1, <3>1, <3>3 DEF IInv, TypeOK
        <3>4. CASE p \notin {o, that}
            BY <1>1, <3>1, <3>4 DEF IInv, TypeOK
        <3> QED
            BY <3>2, <3>3, <3>4
    <2>2. ASSUME NEW p \in Obj, handle'[p] # None
          PROVE  /\ lev[handle'[p]] = "live" /\ life'[p] = "live"
                 /\ \A q \in Obj : handle'[q] = handle'[p] => q = p
        BY <1>1, <2>2 DEF IInv, TypeOK, Owners, ListenerOwned
    <2> QED
        BY <1>1, <2>1, <2>2 DEF ListenerOwned, levs
<1>6. LiveHasFn'
    BY <1>1 DEF IInv, TypeOK, LiveHasFn
<1>7. History'
    BY <1>1, SilentStay DEF IInv, History, CalledAlive, conns
<1> QED
    BY <1>3, <1>4, <1>5, <1>6, <1>7 DEF IInv, Owners

-----------------------------------------------------------------------------
\* A function is set, an acceptorfn begins, a listener is enabled.
LEMMA Sets ==
    ASSUME IInv, crash = "no", NEW o \in Obj,
           MakeFn(o) \/ SetHandler(o) \/ \E e \in BOOLEAN : Enable(o, e)
    PROVE  IInv'
<1>1. /\ UNCHANGED <<handle, lev, arg, at, conns, run, history>>
      /\ crash' \in {"no", "functionDestroyed"}
      /\ on' \subseteq Lev
    BY DEF MakeFn, SetHandler, Enable, objects, levs, IInv, TypeOK
<1>2. \/ UNCHANGED <<life, hasFn>>
      \/ /\ hasFn' = [hasFn EXCEPT ![o] = TRUE]
         /\ life' = [life EXCEPT ![o] = "live"]
    BY DEF MakeFn, SetHandler, Enable, objects, IInv, TypeOK
<1>3. TypeOK'
    BY <1>1, <1>2 DEF IInv, TypeOK, conns, history
<1>4. Owners'
    BY <1>1, <1>2
    DEF IInv, TypeOK, Owners, DeadHasNone, ArgIsObject, ListenerOwned,
        AddressOfOwner, ListensUntilClosed, history
<1>5. LiveHasFn'
    BY <1>1, <1>2 DEF IInv, TypeOK, LiveHasFn, MakeFn, history, Owners, DeadHasNone
<1>6. History'
    BY <1>1, SilentStay DEF IInv, History, CalledAlive, conns, history
<1> QED
    BY <1>3, <1>4, <1>5, <1>6 DEF IInv

\* The loop accepts a connection.
LEMMA Accepts ==
    ASSUME IInv, crash = "no", NEW c \in Conn, NEW l \in Lev, Accept(l, c)
    PROVE  IInv'
<1>1. /\ UNCHANGED <<objects, levs, by, carried, wanted>> /\ lev[l] = "live"
      /\ arg[l] \in Obj
    BY DEF Accept, IInv, Owners, ArgIsObject
<1>2. PICK o \in Obj : handle[o] = l /\ life[o] = "live"
    BY <1>1 DEF IInv, Owners, ListenerOwned
<1>3. arg[l] = o \/ l \in carried
    BY <1>2, NoneApart DEF IInv, Owners, AddressOfOwner
<1>4. CASE life[arg[l]] = "live" /\ hasFn[arg[l]]
    BY <1>1, <1>4
    DEF Accept, Dispatch, IInv, TypeOK, Owners, DeadHasNone, ArgIsObject,
        ListenerOwned, AddressOfOwner, ListensUntilClosed, LiveHasFn,
        History, CalledAlive, HandledUnlessMoved, objects, levs
<1>5. CASE life[arg[l]] = "live" /\ ~hasFn[arg[l]]
    <2>1. l \in carried /\ conn[c] = "queued" /\ by[c] = l
        BY <1>1, <1>2, <1>3, <1>5, NoneApart DEF IInv, LiveHasFn, Accept, TypeOK
    <2> QED
        BY <1>1, <1>5, <2>1
        DEF Accept, Dispatch, IInv, TypeOK, Owners, DeadHasNone, ArgIsObject,
            ListenerOwned, AddressOfOwner, ListensUntilClosed, LiveHasFn,
            History, CalledAlive, HandledUnlessMoved, objects, levs
<1>6. CASE life[arg[l]] # "live"
    <2>1. l \in carried
        BY <1>2, <1>3, <1>6
    <2> QED
        BY <1>1, <1>6, <2>1
        DEF Accept, IInv, TypeOK, Owners, DeadHasNone, ArgIsObject,
            ListenerOwned, AddressOfOwner, ListensUntilClosed, LiveHasFn,
            History, CalledAlive, HandledUnlessMoved, objects, levs
<1> QED
    BY <1>4, <1>5, <1>6

\* A connection comes, and its handler keeps it, returns or throws.
LEMMA Connections ==
    ASSUME IInv, crash = "no",
           \/ \E c \in Conn, l \in Lev : Arrive(c, l)
           \/ \E keep \in BOOLEAN : Take(keep)
           \/ Return
           \/ Throw
    PROVE  IInv'
<1>1. UNCHANGED <<objects, levs, history>>
    BY DEF Arrive, Take, Return, Throw
<1>2. /\ conn' \in [Conn -> {"none", "queued", "handed", "owned", "closed",
                             "leaked"}]
      /\ by' \in [Conn -> Lev \cup {None}]
    BY DEF Arrive, Take, Return, Throw, IInv, TypeOK
<1>3. run' \in [obj : Obj \cup {None}, conn : Conn \cup {None}]
    BY DEF Arrive, Take, Return, Throw, Idle, IInv, TypeOK
<1>4. crash' \in {"no", "deadInCatch"}
    BY DEF Arrive, Take, Return, Throw
<1>5. TypeOK'
    BY <1>1, <1>2, <1>3, <1>4 DEF IInv, TypeOK, objects, levs, history
<1>6. ASSUME NEW c \in silent
      PROVE  by'[c] = by[c] /\ conn'[c] # "none"
    BY <1>6 DEF Arrive, Take, Return, Throw, IInv, TypeOK, History
<1>7. History'
    BY <1>1, <1>4, <1>6 DEF IInv, History, CalledAlive, HandledUnlessMoved, history
<1>8. LiveHasFn' /\ Owners'
    BY <1>1
    DEF IInv, Owners, DeadHasNone, ArgIsObject, ListenerOwned, AddressOfOwner,
        ListensUntilClosed, LiveHasFn, objects, levs, history
<1> QED
    BY <1>5, <1>7, <1>8 DEF IInv

-----------------------------------------------------------------------------
\* Every step preserves the invariant.
LEMMA AcceptorInductive == IInv /\ [Next]_vars => IInv'
<1>1. ASSUME IInv, Next
      PROVE  IInv'
    <2>1. ASSUME crash = "no", NEW o \in Obj,
                 \/ Close(o) \/ Destruct(o) \/ SetHandler(o) \/ MakeFn(o)
                 \/ \E e \in BOOLEAN : Enable(o, e)
          PROVE  IInv'
        BY <1>1, <2>1, Frees, Sets
    <2>2. ASSUME crash = "no", NEW o \in Obj, NEW that \in Obj,
                 MoveConstruct(o, that) \/ MoveAssign(o, that)
          PROVE  IInv'
        BY <1>1, <2>2, Moves
    <2>3. ASSUME crash = "no", NEW o \in Obj, NEW l \in Lev, NEW a \in Addr,
                 Make(o, l, a) \/ Listen(o, l, a)
          PROVE  IInv'
        BY <1>1, <2>3, Listens
    <2>4. ASSUME crash = "no", NEW c \in Conn, NEW l \in Lev, Accept(l, c)
          PROVE  IInv'
        BY <1>1, <2>4, Accepts
    <2> QED
        BY <1>1, <2>1, <2>2, <2>3, <2>4, Connections DEF Next
<1>2. ASSUME IInv, UNCHANGED vars
      PROVE  IInv'
    BY <1>2
    DEF IInv, TypeOK, Owners, DeadHasNone, ArgIsObject, ListenerOwned,
        AddressOfOwner, ListensUntilClosed, LiveHasFn, History,
        CalledAlive, HandledUnlessMoved, vars, objects, levs, conns, history
<1> QED
    BY <1>1, <1>2

\* The invariant of an acceptor holds in every state it reaches.
THEOREM AcceptorInvariance == Spec => []IInv
BY AcceptorInductive, AcceptorInitially, PTL DEF Spec

\* Every variable keeps its type.
THEOREM AcceptorTypeCorrect == Spec => []TypeOK
<1>1. IInv => TypeOK
    BY DEF IInv
<1> QED
    BY <1>1, AcceptorInvariance, PTL

\* A listener belongs to one live object, which it calls unless the listener was
\* moved, and an object listens until it is closed, destroyed or moved.
THEOREM ListenerOwnership == Spec => []ListenersKept
<1>1. IInv => ListenersKept
    BY DEF IInv, Owners, ListenersKept
<1> QED
    BY <1>1, AcceptorInvariance, PTL

\* The loop calls a dead object, one that does not own the listener or one without
\* a handler only through a listener that a move took from its object
\* (acceptor.hpp:31-42, 55-63).
THEOREM MovesOnly == Spec => []OnlyMovedGoWrong
<1>1. IInv => CallsItsOwner
    <2> SUFFICES ASSUME IInv, NEW l \in Lev, lev[l] = "live", l \notin carried
                 PROVE  handle[arg[l]] = l /\ life[arg[l]] = "live" /\ hasFn[arg[l]]
        BY DEF CallsItsOwner
    <2>1. PICK o \in Obj : handle[o] = l /\ life[o] = "live"
        BY DEF IInv, Owners, ListenerOwned
    <2>2. handle[o] # None
        BY <2>1, NoneApart
    <2>3. arg[l] = o /\ hasFn[o]
        BY <2>1, <2>2 DEF IInv, Owners, AddressOfOwner, LiveHasFn
    <2> QED
        BY <2>1, <2>3
<1>2. IInv => OnlyMovedGoWrong
    BY <1>1 DEF IInv, History, OnlyMovedGoWrong
<1> QED
    BY <1>2, AcceptorInvariance, PTL

-----------------------------------------------------------------------------
(* Socket.                                                                  *)

Below(S, x) == {y \in S : y < x}

LEMMA MinOf ==
    ASSUME NEW S \in SUBSET Nat, S # {}
    PROVE  Sockets!Min(S) \in S /\ \A m \in S : Sockets!Min(S) <= m
<1> DEFINE T == {Below(S, x) : x \in S}
<1>1. T \subseteq FiniteSubsetsOf(Nat)
    <2> SUFFICES ASSUME NEW x \in S
                 PROVE  Below(S, x) \in SUBSET Nat /\ IsFiniteSet(Below(S, x))
        BY DEF FiniteSubsetsOf
    <2>1. \A y \in Below(S, x) : y <= x
        BY DEF Below
    <2> QED
        BY <2>1, FS_BoundedSetOfNaturals DEF Below
<1>2. T # {}
    OBVIOUS
<1>3. PICK D \in T : \A E \in T : ~(<<E, D>> \in StrictSubsetOrdering(Nat))
    <2> HIDE DEF T
    <2> QED
        BY <1>1, <1>2, FS_StrictSubsetOrderingWellFounded, WFMin
<1>4. PICK x \in S : D = Below(S, x)
    OBVIOUS
<1>5. ASSUME NEW y \in S, y < x PROVE FALSE
    <2>1. /\ Below(S, y) \in T
          /\ Below(S, y) \subseteq D /\ y \in D /\ y \notin Below(S, y)
        <3>1. Below(S, y) \in T
            OBVIOUS
        <3> HIDE DEF T
        <3>2. y \in Nat /\ x \in Nat
            OBVIOUS
        <3>3. \A z \in Nat : z < y => z < x
            BY <1>5, <3>2
        <3>4. Below(S, y) \subseteq D
            BY <1>4, <3>3 DEF Below
        <3>5. y \in D /\ y \notin Below(S, y)
            BY <1>4, <1>5, <3>2 DEF Below
        <3> QED
            BY <3>1, <3>4, <3>5
    <2>2. Below(S, y) \in SUBSET Nat /\ D \in SUBSET Nat
        BY <1>1, <2>1 DEF FiniteSubsetsOf
    <2> DEFINE E == Below(S, y)
    <2> HIDE DEF E, T
    <2>3. <<E, D>> \in StrictSubsetOrdering(Nat)
        BY <2>1, <2>2 DEF StrictSubsetOrdering, E
    <2> QED
        BY <1>3, <2>1, <2>3 DEF E
<1>6. x \in S /\ \A y \in S : x <= y
    BY <1>5
<1> QED
    BY <1>6 DEF Sockets!Min

\* A file has one descriptor, and an object that has the file has that one.
HeldFiles ==
    /\ \A f \in Fd : file[f] <= opened
    /\ \A f, g \in Fd : file[f] = file[g] /\ file[f] # 0 => f = g
    /\ \A o \in Sock :
        /\ means[o] <= opened
        /\ Sockets!Good(o) <=> means[o] # 0
        /\ \A f \in Fd : Sockets!Good(o) /\ file[f] = means[o] => fd[o] = f

\* Until one is copied, no two objects have one descriptor.
OneEach ==
    shared \/ \A o, p \in Sock : Sockets!Good(o) /\ fd[o] = fd[p] => o = p

SockInv ==
    /\ Sockets!TypeOK
    /\ HeldFiles
    /\ OneEach
    /\ Sockets!DescriptorsKept

LEMMA SockInitially == Sockets!Init => SockInv
<1> SUFFICES ASSUME Sockets!Init PROVE SockInv
    OBVIOUS
<1> USE SocketsAssumption DEF Sockets!SocketAssumption
<1>1. Sockets!TypeOK
    <2>1. /\ fd \in [Sock -> Fd \cup {None}] /\ file \in [Fd -> 0 .. Files]
          /\ means \in [Sock -> 0 .. Files]
        BY DEF Sockets!Init
    <2>2. /\ guards \subseteq Sock /\ opened \in 0 .. Files
          /\ dropped \subseteq 1 .. Files
        BY DEF Sockets!Init
    <2>3. shared \in BOOLEAN /\ stray \in BOOLEAN /\ sockCrash \in {None, "assert"}
        BY DEF Sockets!Init
    <2> QED
        BY <2>1, <2>2, <2>3 DEF Sockets!TypeOK
<1>2. HeldFiles
    BY DEF Sockets!Init, HeldFiles, Sockets!Good
<1>3. OneEach
    BY DEF Sockets!Init, OneEach, Sockets!Good
<1>4. Sockets!DescriptorsKept
    BY DEF Sockets!Init, Sockets!DescriptorsKept, Sockets!OpenIsHeld, Sockets!Open,
           Sockets!StrayOnlyIfShared, Sockets!GoodIsOpen, Sockets!Good
<1> QED
    BY <1>1, <1>2, <1>3, <1>4 DEF SockInv

\* The lowest free descriptor is free.
LEMMA LowestFree ==
    ASSUME SockInv, NEW o \in Sock, Sockets!OpenFor(o)
    PROVE  \E f \in Fd :
             /\ file[f] = 0 /\ opened < Files
             /\ opened' = opened + 1
             /\ file' = [file EXCEPT ![f] = opened + 1]
             /\ fd' = [fd EXCEPT ![o] = f]
             /\ means' = [means EXCEPT ![o] = opened + 1]
<1> DEFINE free == {f \in Fd : file[f] = 0}
<1>1. free \in SUBSET Nat /\ free # {}
    BY SocketsAssumption DEF Sockets!SocketAssumption, Sockets!OpenFor
<1> DEFINE f == Sockets!Min(free)
<1>2. f \in free
    BY <1>1, MinOf
<1>3. /\ opened < Files
      /\ opened' = opened + 1
      /\ file' = [file EXCEPT ![f] = opened + 1]
      /\ fd' = [fd EXCEPT ![o] = f]
      /\ means' = [means EXCEPT ![o] = opened + 1]
    BY DEF Sockets!OpenFor
<1> HIDE DEF f
<1> QED
    BY <1>2, <1>3

\* What is said of the objects and the files, at hand.
LEMMA SockKnown ==
    ASSUME SockInv
    PROVE  /\ Files \in Nat /\ None \notin Fd /\ None \notin Sock /\ opened \in 0 .. Files
           /\ fd \in [Sock -> Fd \cup {None}]
           /\ file \in [Fd -> 0 .. Files] /\ means \in [Sock -> 0 .. Files]
           /\ \A n \in 0 .. Files : n \in Nat
BY SocketsAssumption DEF SockInv, Sockets!TypeOK, Sockets!SocketAssumption

\* socket() and accept() put a new file into an object that had none, or whose
\* file is one of the dropped ones.
LEMMA SockOpens ==
    ASSUME SockInv, NEW o \in Sock, Sockets!OpenFor(o),
           dropped \subseteq dropped', dropped' \subseteq 1 .. Files,
           Sockets!Good(o) => means[o] \in dropped',
           UNCHANGED <<guards, shared, stray, sockCrash>>
    PROVE  SockInv'
<1>1. PICK f \in Fd :
        /\ file[f] = 0 /\ opened < Files
        /\ opened' = opened + 1
        /\ file' = [file EXCEPT ![f] = opened + 1]
        /\ fd' = [fd EXCEPT ![o] = f]
        /\ means' = [means EXCEPT ![o] = opened + 1]
    BY LowestFree
<1> USE SockKnown
<1>2. /\ opened' \in 1 .. Files
      /\ \A g \in Fd : file'[g] = IF g = f THEN opened + 1 ELSE file[g]
      /\ \A p \in Sock : /\ fd'[p] = IF p = o THEN f ELSE fd[p]
                         /\ means'[p] = IF p = o THEN opened + 1 ELSE means[p]
                         /\ Sockets!Good(p)' <=> p = o \/ Sockets!Good(p)
    BY <1>1 DEF Sockets!Good
<1>3. Sockets!TypeOK'
    <2>1. /\ fd' \in [Sock -> Fd \cup {None}]
          /\ file' \in [Fd -> 0 .. Files] /\ means' \in [Sock -> 0 .. Files]
        BY <1>1, <1>2
    <2> QED
        BY <1>2, <2>1 DEF SockInv, Sockets!TypeOK
<1>4. /\ \A g \in Fd : file[g] <= opened /\ file[g] # opened + 1
      /\ \A p \in Sock : means[p] <= opened /\ means[p] # opened + 1
    <2>1. /\ \A g \in Fd : file[g] <= opened /\ file[g] \in Nat
          /\ \A p \in Sock : means[p] <= opened /\ means[p] \in Nat
        BY DEF SockInv, HeldFiles
    <2> QED
        BY <2>1
<1>5. HeldFiles'
    <2>1. \A g \in Fd : file'[g] <= opened'
        BY <1>1, <1>2, <1>4
    <2>2. \A g, h \in Fd : file'[g] = file'[h] /\ file'[g] # 0 => g = h
        BY <1>2, <1>4 DEF SockInv, HeldFiles
    <2>3. ASSUME NEW p \in Sock
          PROVE  /\ means'[p] <= opened'
                 /\ Sockets!Good(p)' <=> means'[p] # 0
                 /\ \A g \in Fd : Sockets!Good(p)' /\ file'[g] = means'[p] => fd'[p] = g
        <3>1. CASE p = o
            BY <1>1, <1>2, <1>4, <3>1
        <3>2. CASE p # o
            <4>1. means'[p] = means[p] /\ means[p] <= opened'
                BY <1>1, <1>2, <1>4, <3>2
            <4> QED
                BY <1>2, <1>4, <3>2, <4>1 DEF SockInv, HeldFiles
        <3> QED
            BY <3>1, <3>2
    <2> QED
        BY <2>1, <2>2, <2>3 DEF HeldFiles
<1>6. OneEach' /\ Sockets!GoodIsOpen'
    <2>1. CASE shared
        BY <2>1 DEF OneEach, Sockets!GoodIsOpen
    <2>2. CASE ~shared
        <3>1. \A p \in Sock : Sockets!Good(p) => file[fd[p]] = means[p] /\ fd[p] \in Fd
                                              /\ means[p] # 0
            BY <2>2
            DEF SockInv, HeldFiles, Sockets!DescriptorsKept, Sockets!GoodIsOpen,
                Sockets!Good
        <3>2. \A p \in Sock : Sockets!Good(p) => fd[p] # f
            BY <1>1, <3>1
        <3>3. OneEach'
            <4>1. \A p, q \in Sock : Sockets!Good(p) /\ fd[p] = fd[q] => p = q
                BY <2>2 DEF SockInv, OneEach
            <4>2. ASSUME NEW p \in Sock, NEW q \in Sock,
                         Sockets!Good(p)', fd'[p] = fd'[q]
                  PROVE  p = q
                <5>1. CASE p = o /\ q = o
                    BY <5>1
                <5>2. CASE p = o /\ q # o
                    <6>1. fd[q] = f /\ f # None
                        BY <1>2, <4>2, <5>2
                    <6> QED
                        BY <3>2, <6>1 DEF Sockets!Good
                <5>3. CASE p # o /\ q = o
                    <6>1. fd[p] = f /\ Sockets!Good(p)
                        BY <1>2, <4>2, <5>3
                    <6> QED
                        BY <3>2, <6>1
                <5>4. CASE p # o /\ q # o
                    BY <1>2, <4>1, <4>2, <5>4
                <5> QED
                    BY <5>1, <5>2, <5>3, <5>4
            <4> QED
                BY <4>2 DEF OneEach
        <3>4. \A p \in Sock : Sockets!Good(p)' => file'[fd'[p]] = means'[p]
            <4> TAKE p \in Sock
            <4>1. CASE p = o
                BY <1>2, <4>1
            <4>2. CASE p # o
                BY <1>2, <3>1, <3>2, <4>2
            <4> QED
                BY <4>1, <4>2
        <3>5. Sockets!GoodIsOpen'
            BY <3>4 DEF Sockets!GoodIsOpen
        <3> QED
            BY <3>3, <3>5
    <2> QED
        BY <2>1, <2>2 DEF SockInv, Sockets!TypeOK
<1>7. Sockets!OpenIsHeld'
    <2> SUFFICES ASSUME NEW g \in Fd, file'[g] # 0, file'[g] \notin dropped'
                 PROVE  \E p \in Sock : Sockets!Good(p)' /\ means'[p] = file'[g]
        BY DEF Sockets!OpenIsHeld, Sockets!Open
    <2>1. CASE g = f
        BY <1>2, <2>1
    <2>2. CASE g # f
        <3>1. PICK p \in Sock : Sockets!Good(p) /\ means[p] = file[g]
            BY <1>2, <2>2
            DEF SockInv, Sockets!DescriptorsKept, Sockets!OpenIsHeld, Sockets!Open
        <3>2. p # o
            BY <1>2, <2>2, <3>1
        <3> QED
            BY <1>2, <2>2, <3>1, <3>2
    <2> QED
        BY <2>1, <2>2
<1> QED
    BY <1>3, <1>5, <1>6, <1>7
    DEF SockInv, Sockets!DescriptorsKept, Sockets!StrayOnlyIfShared

\* close() by the object that has the file, or any object that thinks it has.
LEMMA SockCloses ==
    ASSUME SockInv, NEW o \in Sock, Sockets!Good(o), Sockets!DoClose(o),
           guards' \subseteq Sock, UNCHANGED <<opened, shared, dropped, sockCrash>>
    PROVE  SockInv'
<1> USE SockKnown
<1>1. /\ \A g \in Fd : file'[g] = IF g = fd[o] THEN 0 ELSE file[g]
      /\ \A p \in Sock : /\ fd'[p] = IF p = o THEN None ELSE fd[p]
                         /\ means'[p] = IF p = o THEN 0 ELSE means[p]
                         /\ Sockets!Good(p)' <=> p # o /\ Sockets!Good(p)
    BY DEF Sockets!DoClose, Sockets!Good
<1>2. fd[o] \in Fd
    BY DEF Sockets!Good
<1>3. Sockets!TypeOK'
    <2>0. 0 \in 0 .. Files
        OBVIOUS
    <2>1. /\ fd' \in [Sock -> Fd \cup {None}]
          /\ file' \in [Fd -> 0 .. Files] /\ means' \in [Sock -> 0 .. Files]
        BY <2>0 DEF Sockets!DoClose
    <2>2. stray' \in BOOLEAN
        BY DEF Sockets!DoClose, SockInv, Sockets!TypeOK
    <2> QED
        BY <2>1, <2>2 DEF SockInv, Sockets!TypeOK
<1>4. HeldFiles'
    <2>1. \A g \in Fd : file'[g] <= opened
        BY <1>1 DEF SockInv, HeldFiles
    <2>2. \A g, h \in Fd : file'[g] = file'[h] /\ file'[g] # 0 => g = h
        BY <1>1 DEF SockInv, HeldFiles
    <2>3. ASSUME NEW p \in Sock
          PROVE  /\ means'[p] <= opened
                 /\ Sockets!Good(p)' <=> means'[p] # 0
                 /\ \A g \in Fd : Sockets!Good(p)' /\ file'[g] = means'[p] => fd'[p] = g
        BY <1>1 DEF SockInv, HeldFiles
    <2> QED
        BY <2>1, <2>2, <2>3 DEF HeldFiles
<1>5. OneEach'
    <2>1. CASE shared
        BY <2>1 DEF OneEach
    <2>2. CASE ~shared
        <3>1. \A p, q \in Sock : Sockets!Good(p) /\ fd[p] = fd[q] => p = q
            BY <2>2 DEF SockInv, OneEach
        <3>2. \A p, q \in Sock : Sockets!Good(p)' /\ fd'[p] = fd'[q] => p = q
            BY <1>1, <3>1 DEF Sockets!Good
        <3> QED
            BY <3>2 DEF OneEach
    <2> QED
        BY <2>1, <2>2
<1>6. Sockets!GoodIsOpen'
    <2>1. CASE shared
        BY <2>1 DEF Sockets!GoodIsOpen
    <2>2. CASE ~shared
        <3>1. \A p \in Sock : Sockets!Good(p) => file[fd[p]] = means[p] /\ fd[p] \in Fd
            BY <2>2
            DEF SockInv, Sockets!DescriptorsKept, Sockets!GoodIsOpen, Sockets!Good
        <3>2. \A p \in Sock : p # o /\ Sockets!Good(p) => fd[p] # fd[o]
            BY <2>2 DEF SockInv, OneEach
        <3> QED
            BY <1>1, <3>1, <3>2 DEF Sockets!GoodIsOpen
    <2> QED
        BY <2>1, <2>2
<1>7. Sockets!StrayOnlyIfShared'
    <2>1. CASE shared
        BY <2>1 DEF Sockets!StrayOnlyIfShared
    <2>2. CASE ~shared
        BY <2>2
        DEF SockInv, Sockets!DescriptorsKept, Sockets!GoodIsOpen, Sockets!DoClose,
            Sockets!StrayOnlyIfShared
    <2> QED
        BY <2>1, <2>2
<1>8. Sockets!OpenIsHeld'
    <2> SUFFICES ASSUME NEW g \in Fd, file'[g] # 0, file'[g] \notin dropped
                 PROVE  \E p \in Sock : Sockets!Good(p)' /\ means'[p] = file'[g]
        BY DEF Sockets!OpenIsHeld, Sockets!Open
    <2>1. g # fd[o] /\ file'[g] = file[g]
        BY <1>1
    <2>2. PICK p \in Sock : Sockets!Good(p) /\ means[p] = file[g]
        BY <2>1
        DEF SockInv, Sockets!DescriptorsKept, Sockets!OpenIsHeld, Sockets!Open
    <2>3. p # o
        BY <2>1, <2>2 DEF SockInv, HeldFiles
    <2> QED
        BY <1>1, <2>1, <2>2, <2>3
<1> QED
    BY <1>3, <1>4, <1>5, <1>6, <1>7, <1>8 DEF SockInv, Sockets!DescriptorsKept

\* An object forgets its file, or takes over another's: its own is dropped.
LEMMA SockForgets ==
    ASSUME SockInv, NEW o \in Sock, NEW f \in Fd \cup {None}, NEW n \in 0 .. Files,
           \/ f = None /\ n = 0 /\ UNCHANGED shared
           \/ \E that \in Sock : /\ Sockets!Good(that) /\ shared'
                                 /\ f = fd[that] /\ n = means[that],
           fd' = [fd EXCEPT ![o] = f], means' = [means EXCEPT ![o] = n],
           Sockets!Forget(o), UNCHANGED <<guards, file, opened, stray, sockCrash>>
    PROVE  SockInv'
<1> USE SockKnown
<1>1. /\ \A p \in Sock : /\ fd'[p] = IF p = o THEN f ELSE fd[p]
                         /\ means'[p] = IF p = o THEN n ELSE means[p]
                         /\ p # o => (Sockets!Good(p)' <=> Sockets!Good(p))
      /\ Sockets!Good(o)' <=> f # None
    BY DEF Sockets!Good
<1>2. /\ dropped \subseteq dropped' /\ dropped' \subseteq 1 .. Files
      /\ Sockets!Good(o) => means[o] \in dropped'
    <2>1. Sockets!Good(o) => means[o] \in 1 .. Files
        BY DEF SockInv, HeldFiles
    <2> QED
        BY <2>1 DEF Sockets!Forget, SockInv, Sockets!TypeOK
<1>3. Sockets!TypeOK'
    <2>1. /\ fd' \in [Sock -> Fd \cup {None}] /\ means' \in [Sock -> 0 .. Files]
        OBVIOUS
    <2>2. shared' \in BOOLEAN
        BY DEF SockInv, Sockets!TypeOK
    <2> QED
        BY <1>2, <2>1 DEF SockInv, Sockets!TypeOK
<1>4. /\ n <= opened
      /\ f # None <=> n # 0
      /\ \A g \in Fd : f # None /\ file[g] = n => f = g
    BY DEF SockInv, HeldFiles, Sockets!Good
<1>5. HeldFiles'
    BY <1>1, <1>4 DEF SockInv, HeldFiles
<1>6. OneEach' /\ Sockets!GoodIsOpen'
    <2>1. CASE shared'
        BY <2>1 DEF OneEach, Sockets!GoodIsOpen
    <2>2. CASE ~shared'
        <3>1. f = None /\ ~shared
            BY <2>2
        <3>2. \A p \in Sock :
                /\ Sockets!Good(p)' <=> p # o /\ Sockets!Good(p)
                /\ p # o => fd'[p] = fd[p] /\ means'[p] = means[p]
            BY <1>1, <3>1
        <3>3. OneEach'
            <4>1. \A p, q \in Sock : Sockets!Good(p) /\ fd[p] = fd[q] => p = q
                BY <3>1 DEF SockInv, OneEach
            <4>2. \A p, q \in Sock : Sockets!Good(p)' /\ fd'[p] = fd'[q] => p = q
                BY <3>2, <4>1 DEF Sockets!Good
            <4> QED
                BY <4>2 DEF OneEach
        <3>4. Sockets!GoodIsOpen'
            <4>1. \A p \in Sock : Sockets!Good(p) => file[fd[p]] = means[p]
                BY <3>1 DEF SockInv, Sockets!DescriptorsKept, Sockets!GoodIsOpen
            <4>2. \A p \in Sock : Sockets!Good(p)' => file'[fd'[p]] = means'[p]
                BY <3>2, <4>1
            <4> QED
                BY <4>2 DEF Sockets!GoodIsOpen
        <3> QED
            BY <3>3, <3>4
    <2> QED
        BY <2>1, <2>2
<1>7. Sockets!OpenIsHeld'
    <2> SUFFICES ASSUME NEW g \in Fd, file[g] # 0, file[g] \notin dropped'
                 PROVE  \E p \in Sock : Sockets!Good(p)' /\ means'[p] = file[g]
        BY DEF Sockets!OpenIsHeld, Sockets!Open
    <2>1. PICK p \in Sock : Sockets!Good(p) /\ means[p] = file[g]
        BY <1>2
        DEF SockInv, Sockets!DescriptorsKept, Sockets!OpenIsHeld, Sockets!Open
    <2>2. p # o
        BY <1>2, <2>1
    <2> QED
        BY <1>1, <2>1, <2>2
<1>8. Sockets!StrayOnlyIfShared'
    BY DEF SockInv, Sockets!DescriptorsKept, Sockets!StrayOnlyIfShared
<1> QED
    BY <1>3, <1>5, <1>6, <1>7, <1>8 DEF SockInv, Sockets!DescriptorsKept

\* Nothing happens to descriptors and files.
LEMMA SockStays ==
    ASSUME SockInv, guards' \subseteq Sock, sockCrash' \in {None, "assert"},
           stray' \in BOOLEAN, stray' => shared,
           UNCHANGED <<fd, file, opened, means, shared, dropped>>
    PROVE  SockInv'
<1>1. Sockets!TypeOK' /\ HeldFiles' /\ OneEach'
    BY DEF SockInv, Sockets!TypeOK, HeldFiles, OneEach, Sockets!Good
<1>2. Sockets!DescriptorsKept'
    BY DEF SockInv, Sockets!DescriptorsKept, Sockets!OpenIsHeld, Sockets!Open,
           Sockets!StrayOnlyIfShared, Sockets!GoodIsOpen, Sockets!Good
<1> QED
    BY <1>1, <1>2 DEF SockInv

LEMMA SockInductive == SockInv /\ [Sockets!Next]_sockVars => SockInv'
<1> SUFFICES ASSUME SockInv, [Sockets!Next]_sockVars PROVE SockInv'
    OBVIOUS
<1>0. /\ guards \subseteq Sock /\ stray \in BOOLEAN /\ sockCrash \in {None, "assert"}
      /\ stray => shared
      /\ dropped \subseteq 1 .. Files
    BY DEF SockInv, Sockets!TypeOK, Sockets!DescriptorsKept, Sockets!StrayOnlyIfShared
<1>1. CASE UNCHANGED sockVars
    BY <1>0, <1>1, SockStays DEF sockVars
<1>2. ASSUME NEW o \in Sock, Sockets!Create(o) PROVE SockInv'
    <2>1. CASE Sockets!Good(o)
        BY <1>0, <1>2, <2>1, SockStays
        DEF Sockets!Create, Sockets!kernel, Sockets!history
    <2>2. CASE ~Sockets!Good(o)
        <3>1. /\ Sockets!OpenFor(o) /\ dropped' = dropped
              /\ UNCHANGED <<guards, shared, stray, sockCrash>>
            BY <1>2, <2>2 DEF Sockets!Create, Sockets!history
        <3>2. /\ dropped \subseteq dropped' /\ dropped' \subseteq 1 .. Files
              /\ Sockets!Good(o) => means[o] \in dropped'
            <4>1. dropped' = dropped /\ dropped \subseteq 1 .. Files
                BY <1>0, <3>1
            <4>2. dropped \subseteq dropped' /\ dropped' \subseteq 1 .. Files
                BY ONLY <4>1
            <4> QED
                BY <2>2, <4>2
        <3> QED
            BY ONLY SockInv, <3>1, <3>2, SockOpens
    <2> QED
        BY <2>1, <2>2
<1>3. ASSUME NEW o \in Sock, Sockets!Attach(o) PROVE SockInv'
    <2>1. Sockets!Good(o) => means[o] \in 1 .. Files
        BY SockKnown DEF SockInv, HeldFiles
    <2>2. dropped' = IF Sockets!Good(o) THEN dropped \cup {means[o]} ELSE dropped
        BY <1>3 DEF Sockets!Attach, Sockets!Forget
    <2>3. /\ dropped \subseteq dropped' /\ dropped' \subseteq 1 .. Files
          /\ Sockets!Good(o) => means[o] \in dropped'
        <3>1. dropped \subseteq 1 .. Files
            BY <1>0
        <3>2. CASE Sockets!Good(o)
            <4>1. dropped' = dropped \cup {means[o]} /\ means[o] \in 1 .. Files
                BY <2>1, <2>2, <3>2
            <4> QED
                BY ONLY <3>1, <4>1
        <3>3. CASE ~Sockets!Good(o)
            <4>1. dropped' = dropped
                BY <2>2, <3>3
            <4>2. dropped \subseteq dropped' /\ dropped' \subseteq 1 .. Files
                BY ONLY <3>1, <4>1
            <4> QED
                BY <3>3, <4>2
        <3> QED
            BY <3>2, <3>3
    <2>4. Sockets!OpenFor(o) /\ UNCHANGED <<guards, shared, stray, sockCrash>>
        BY <1>3 DEF Sockets!Attach
    <2> QED
        BY ONLY SockInv, <2>3, <2>4, SockOpens
<1>4. ASSUME NEW o \in Sock, NEW that \in Sock, Sockets!Copy(o, that) PROVE SockInv'
    <2>1. fd[that] \in Fd \cup {None} /\ means[that] \in 0 .. Files
        BY SockKnown
    <2> QED
        BY <1>4, <2>1, SockForgets DEF Sockets!Copy, Sockets!kernel
<1>5. ASSUME NEW o \in Sock, Sockets!Detach(o) PROVE SockInv'
    <2>1. 0 \in 0 .. Files
        BY SockKnown
    <2> QED
        BY <1>5, <2>1, SockForgets DEF Sockets!Detach, Sockets!kernel
<1>6. ASSUME NEW o \in Sock, Sockets!Close(o) PROVE SockInv'
    BY <1>0, <1>6, SockCloses DEF Sockets!Close, Sockets!history
<1>7. ASSUME NEW o \in Sock, Sockets!Use(o) PROVE SockInv'
    <2>1. ~shared => file[fd[o]] = means[o]
        BY <1>7 DEF Sockets!Use, SockInv, Sockets!DescriptorsKept, Sockets!GoodIsOpen
    <2>2. stray' \in BOOLEAN /\ (stray' => shared)
        BY <1>0, <1>7, <2>1 DEF Sockets!Use
    <2> QED
        BY <1>0, <1>7, <2>2, SockStays
        DEF Sockets!Use, Sockets!kernel, Sockets!history
<1>8. ASSUME NEW o \in Sock, Sockets!Guard(o) PROVE SockInv'
    BY <1>0, <1>8, SockStays DEF Sockets!Guard, Sockets!kernel, Sockets!history
<1>9. ASSUME NEW o \in Sock, Sockets!EndGuard(o) PROVE SockInv'
    <2>1. CASE Sockets!Good(o)
        BY <1>0, <1>9, <2>1, SockCloses DEF Sockets!EndGuard, Sockets!history
    <2>2. CASE ~Sockets!Good(o)
        BY <1>0, <1>9, <2>2, SockStays DEF Sockets!EndGuard, Sockets!history
    <2> QED
        BY <2>1, <2>2
<1> QED
    BY <1>1, <1>2, <1>3, <1>4, <1>5, <1>6, <1>7, <1>8, <1>9 DEF Sockets!Next

-----------------------------------------------------------------------------
(* Dns.                                                                     *)

LEMMA AppendNew ==
    ASSUME NEW S, NEW s \in Seq(S), NEW x \in S,
           DnsBases!IsInjective(s), ~DnsBases!Contains(s, x)
    PROVE  /\ Append(s, x) \in Seq(S) /\ DnsBases!IsInjective(Append(s, x))
           /\ Len(s) + 1 \in DOMAIN Append(s, x)
           /\ Append(s, x)[Len(s) + 1] = x
           /\ \A i \in DOMAIN s : /\ i \in DOMAIN Append(s, x) /\ i < Len(s) + 1
                                 /\ Append(s, x)[i] = s[i]
           /\ \A y : DnsBases!Contains(Append(s, x), y)
                        <=> y = x \/ DnsBases!Contains(s, y)
<1> DEFINE t == Append(s, x)
<1>1. /\ t \in Seq(S) /\ Len(t) = Len(s) + 1 /\ Len(s) \in Nat
      /\ DOMAIN s = 1 .. Len(s) /\ DOMAIN t = 1 .. Len(s) + 1
      /\ t[Len(s) + 1] = x /\ \A i \in 1 .. Len(s) : t[i] = s[i]
    OBVIOUS
<1> HIDE DEF t
<1>2. \A i \in DOMAIN t : i \in DOMAIN s \/ i = Len(s) + 1
    BY <1>1
<1>3. Len(s) + 1 \in DOMAIN t /\ \A i \in DOMAIN s : i \in DOMAIN t /\ i < Len(s) + 1
    BY <1>1
<1>4. \A i \in DOMAIN s : s[i] # x
    BY <1>1 DEF DnsBases!Contains
<1>5. DnsBases!IsInjective(t)
    BY <1>1, <1>2, <1>4 DEF DnsBases!IsInjective
<1>6. \A y : DnsBases!Contains(t, y) <=> y = x \/ DnsBases!Contains(s, y)
    BY <1>1, <1>2, <1>3 DEF DnsBases!Contains
<1> QED
    BY <1>1, <1>3, <1>5, <1>6 DEF t

LEMMA FrontLast ==
    ASSUME NEW S, NEW s \in Seq(S), s # <<>>, DnsBases!IsInjective(s)
    PROVE  /\ DnsBases!Front(s) \in Seq(S)
           /\ DnsBases!IsInjective(DnsBases!Front(s))
           /\ DnsBases!Last(s) \in S /\ DnsBases!Contains(s, DnsBases!Last(s))
           /\ \A i \in DOMAIN s :
                s[i] # DnsBases!Last(s) =>
                    /\ i \in DOMAIN DnsBases!Front(s)
                    /\ DnsBases!Front(s)[i] = s[i]
                    /\ \A j \in DOMAIN s :
                         j < i => j \in DOMAIN DnsBases!Front(s)
                                  /\ DnsBases!Front(s)[j] = s[j]
           /\ \A y : DnsBases!Contains(DnsBases!Front(s), y)
                        <=> y # DnsBases!Last(s) /\ DnsBases!Contains(s, y)
<1> DEFINE t == DnsBases!Front(s)
           n == Len(s)
<1>1. n \in Nat /\ n # 0 /\ DOMAIN s = 1 .. n
    OBVIOUS
<1>2. /\ t \in Seq(S) /\ DOMAIN t = 1 .. n - 1 /\ Len(t) = n - 1
      /\ \A i \in 1 .. n - 1 : t[i] = s[i]
    BY <1>1 DEF DnsBases!Front
<1>3. DnsBases!Last(s) = s[n] /\ n \in DOMAIN s /\ s[n] \in S
    BY <1>1 DEF DnsBases!Last
<1> HIDE DEF t, n
<1>4. \A i \in DOMAIN s : s[i] # s[n] => i \in DOMAIN t
    BY <1>1, <1>2
<1>5. \A i \in DOMAIN t : i \in DOMAIN s /\ i # n
    BY <1>1, <1>2
<1>6. \A i \in DOMAIN t, j \in DOMAIN s : j < i => j \in DOMAIN t
    BY <1>1, <1>2
<1>7. DnsBases!IsInjective(t)
    BY <1>2, <1>5 DEF DnsBases!IsInjective
<1>8. DOMAIN s = 1 .. Len(s) /\ DOMAIN t = 1 .. Len(t)
    BY <1>1, <1>2 DEF n
<1>9. \A y : DnsBases!Contains(t, y) <=> y # s[n] /\ DnsBases!Contains(s, y)
    BY <1>2, <1>3, <1>4, <1>5, <1>8 DEF DnsBases!Contains, DnsBases!IsInjective
<1>10. DnsBases!Contains(s, s[n])
    BY <1>3, <1>8 DEF DnsBases!Contains
<1> QED
    BY <1>2, <1>3, <1>4, <1>6, <1>7, <1>9, <1>10 DEF t

\* Of two live variables the first is the older.
Under(q, o) == \E i, j \in DOMAIN scope : i < j /\ scope[i] = q /\ scope[j] = o

\* The event_base that an evdns_base is on has been made.
MadeOn ==
    \A n \in Dns : base[n] # "new" => loopOf[n] \in EvBase /\ base[loopOf[n]] # "new"

\* Nothing frees what was forgotten.
LostLive == \A b \in lost : base[b] = "live"

\* Unless it is uprooted or forgotten, the event_base that an evdns_base is on
\* has a queue that is older than the object that has the evdns_base.
BelowQueue ==
    \A o \in DnsObj :
        held[o] # None /\ held[o] \notin uprooted /\ loopOf[held[o]] \notin lost
            => \E q \in Que : held[q] = loopOf[held[o]] /\ Under(q, o)

\* The second half of QueueOutlives; the first follows from the others.
GoneUprooted ==
    dnsCrash = "queueGone" =>
        \E n \in uprooted : base[n] = "freed" /\ base[loopOf[n]] = "freed"

DnsInv ==
    /\ DnsBases!TypeOK /\ DnsBases!OneOwner
    /\ MadeOn /\ LostLive /\ BelowQueue /\ GoneUprooted

LEMMA DnsInitially == DnsBases!Init => DnsInv
<1> SUFFICES ASSUME DnsBases!Init PROVE DnsInv
    OBVIOUS
<1> USE SocketsAssumption
    DEF DnsBases!Init, DnsBases!DnsAssumption, DnsBases!Owner, DnsBases!Base
<1>1. scope \in Seq(DnsBases!Owner) /\ DnsBases!IsInjective(scope)
    BY DEF DnsBases!IsInjective
<1>2. DnsBases!TypeOK
    BY <1>1 DEF DnsBases!TypeOK
<1>3. DnsBases!OneOwner /\ MadeOn /\ LostLive /\ GoneUprooted
    BY DEF DnsBases!OneOwner, MadeOn, LostLive, GoneUprooted
<1>4. BelowQueue
    BY DEF BelowQueue
<1> QED
    BY <1>2, <1>3, <1>4 DEF DnsInv

\* The invariant, at hand.
LEMMA DnsKnown ==
    ASSUME DnsInv
    PROVE  /\ \A q \in Que : q \in DnsBases!Owner /\ q \notin DnsObj
           /\ \A o \in DnsObj : o \in DnsBases!Owner
           /\ \A o \in DnsBases!Owner : o \in Que \/ o \in DnsObj
           /\ \A e \in EvBase : e \in DnsBases!Base /\ e \notin Dns /\ e # None
           /\ \A n \in Dns : n \in DnsBases!Base /\ n # None
           /\ \A b \in DnsBases!Base : b # None
           /\ None # "freedTwice" /\ None # "queueGone"
           /\ scope \in Seq(DnsBases!Owner) /\ DnsBases!IsInjective(scope)
           /\ held \in [DnsBases!Owner -> DnsBases!Base \cup {None}]
           /\ \A q \in Que : held[q] # None => held[q] \in EvBase
           /\ \A o \in DnsObj : held[o] # None => held[o] \in Dns
           /\ base \in [DnsBases!Base -> {"new", "live", "freed"}]
           /\ loopOf \in [Dns -> EvBase \cup {None}]
           /\ lost \subseteq DnsBases!Base /\ uprooted \subseteq Dns
           /\ \A b \in DnsBases!Base : base[b] = "live" /\ b \notin lost =>
                \E o \in DnsBases!Owner : DnsBases!Live(o) /\ held[o] = b
           /\ \A o \in DnsBases!Owner : held[o] # None =>
                /\ DnsBases!Live(o) /\ base[held[o]] = "live" /\ held[o] \notin lost
                /\ \A p \in DnsBases!Owner : held[p] = held[o] => p = o
           /\ \A n \in Dns : base[n] # "new" =>
                loopOf[n] \in EvBase /\ base[loopOf[n]] # "new"
           /\ \A b \in lost : base[b] = "live"
           /\ \A o \in DnsObj :
                held[o] # None /\ held[o] \notin uprooted /\ loopOf[held[o]] \notin lost
                    => \E q \in Que : held[q] = loopOf[held[o]] /\ Under(q, o)
BY SocketsAssumption
DEF DnsInv, DnsBases!TypeOK, DnsBases!OneOwner, BelowQueue, MadeOn, LostLive,
    DnsBases!DnsAssumption, DnsBases!Owner, DnsBases!Base

\* What is neither uprooted nor lost has a queue that has its event_base.
LEMMA DnsOutlives ==
    ASSUME DnsInv, NEW n \in Dns, base[n] = "live", n \notin lost,
           base[loopOf[n]] = "freed"
    PROVE  n \in uprooted
<1> SUFFICES ASSUME n \notin uprooted PROVE FALSE
    OBVIOUS
<1> USE DnsKnown
<1>1. PICK o \in DnsBases!Owner : held[o] = n
    BY DnsKnown
<1>2. o \in DnsObj /\ held[o] # None
    BY <1>1
<1>3. loopOf[n] \notin lost
    BY DnsKnown
<1>4. PICK q \in Que : held[q] = loopOf[n]
    BY <1>1, <1>2, <1>3
<1>5. loopOf[n] # None
    BY DnsKnown
<1> QED
    BY <1>4, <1>5

LEMMA DnsInTime == DnsInv => DnsBases!FreedInTime
BY DnsOutlives
DEF DnsInv, GoneUprooted, DnsBases!FreedInTime, DnsBases!QueueOutlives

\* A variable begins: it is younger than every other.
LEMMA ScopeGrows ==
    ASSUME DnsInv, NEW o \in DnsBases!Owner, ~DnsBases!Live(o),
           scope' = Append(scope, o)
    PROVE  /\ scope' \in Seq(DnsBases!Owner) /\ DnsBases!IsInjective(scope')
           /\ \A p : DnsBases!Live(p)' <=> p = o \/ DnsBases!Live(p)
           /\ \A q, p : Under(q, p) => Under(q, p)' /\ Under(q, o)'
           /\ \A q : DnsBases!Live(q) => Under(q, o)'
<1> DEFINE last == Len(scope) + 1
<1>1. /\ scope' \in Seq(DnsBases!Owner) /\ DnsBases!IsInjective(scope')
      /\ last \in DOMAIN scope' /\ scope'[last] = o
      /\ \A i \in DOMAIN scope :
            i \in DOMAIN scope' /\ i < last /\ scope'[i] = scope[i]
      /\ \A y : DnsBases!Contains(scope', y) <=> y = o \/ DnsBases!Contains(scope, y)
    BY DnsKnown, AppendNew DEF DnsBases!Live
<1> HIDE DEF last
<1>2. \A p : DnsBases!Live(p)' <=> p = o \/ DnsBases!Live(p)
    BY <1>1 DEF DnsBases!Live
<1>3. \A q, p : Under(q, p) => Under(q, p)' /\ Under(q, o)'
    BY <1>1 DEF Under
<1>4. \A q : DnsBases!Live(q) => Under(q, o)'
    <2>1. \A q : DnsBases!Live(q) => \E i \in DOMAIN scope : scope[i] = q
        BY DnsKnown DEF DnsBases!Live, DnsBases!Contains
    <2> QED
        BY <1>1, <2>1 DEF Under
<1> QED
    BY <1>1, <1>2, <1>3, <1>4

\* The youngest ends.
LEMMA ScopeShrinks ==
    ASSUME DnsInv, scope # <<>>, scope' = DnsBases!Front(scope)
    PROVE  \E o \in DnsBases!Owner :
             /\ o = DnsBases!Last(scope)
             /\ scope' \in Seq(DnsBases!Owner) /\ DnsBases!IsInjective(scope')
             /\ \A p : DnsBases!Live(p)' <=> p # o /\ DnsBases!Live(p)
             /\ \A q, p : Under(q, p) /\ p # o => Under(q, p)' /\ q # o
<1> DEFINE o == DnsBases!Last(scope)
<1>1. /\ scope' \in Seq(DnsBases!Owner) /\ DnsBases!IsInjective(scope')
      /\ o \in DnsBases!Owner
      /\ \A i \in DOMAIN scope :
            scope[i] # o =>
              /\ i \in DOMAIN scope' /\ scope'[i] = scope[i]
              /\ \A j \in DOMAIN scope :
                    j < i => j \in DOMAIN scope' /\ scope'[j] = scope[j]
      /\ \A y : DnsBases!Contains(scope', y) <=> y # o /\ DnsBases!Contains(scope, y)
    BY DnsKnown, FrontLast
<1> HIDE DEF o
<1>2. \A p : DnsBases!Live(p)' <=> p # o /\ DnsBases!Live(p)
    BY <1>1 DEF DnsBases!Live
<1>3. \A q, p : Under(q, p) /\ p # o => Under(q, p)'
    BY <1>1 DEF Under
<1>4. \A q, p : Under(q, p)' => DnsBases!Live(q)'
    BY <1>1 DEF Under, DnsBases!Live, DnsBases!Contains
<1>5. \A q, p : Under(q, p) /\ p # o => q # o
    BY <1>2, <1>3, <1>4
<1> QED
    BY <1>1, <1>2, <1>3, <1>5 DEF o

\* A live object gets a new base, and forgets what it had.
LEMMA Gets ==
    ASSUME DnsInv, NEW o \in DnsBases!Owner, NEW b \in DnsBases!Base,
           base[b] = "new", DnsBases!Live(o)',
           \A p : DnsBases!Live(p) => DnsBases!Live(p)',
           held' = [held EXCEPT ![o] = b], base' = [base EXCEPT ![b] = "live"],
           lost' = lost \cup ({held[o]} \ {None}),
           dnsCrash = None, UNCHANGED dnsCrash
    PROVE  /\ held' \in [DnsBases!Owner -> DnsBases!Base \cup {None}]
           /\ base' \in [DnsBases!Base -> {"new", "live", "freed"}]
           /\ lost' \subseteq DnsBases!Base
           /\ \A p \in DnsBases!Owner : /\ held'[p] = IF p = o THEN b ELSE held[p]
                                        /\ held[p] # b
           /\ \A c \in DnsBases!Base : base'[c] = IF c = b THEN "live" ELSE base[c]
           /\ DnsBases!OneOwner' /\ LostLive'
<1> USE DnsKnown
<1>1. /\ \A p \in DnsBases!Owner : held'[p] = IF p = o THEN b ELSE held[p]
      /\ \A c \in DnsBases!Base : base'[c] = IF c = b THEN "live" ELSE base[c]
      /\ \A p \in DnsBases!Owner : held[p] # b
    OBVIOUS
<1>2. b \notin lost
    BY DnsKnown
<1>3. ASSUME NEW c \in DnsBases!Base, base'[c] = "live", c \notin lost'
      PROVE  \E p \in DnsBases!Owner : DnsBases!Live(p)' /\ held'[p] = c
    <2>1. CASE c = b
        BY <1>1, <2>1
    <2>2. CASE c # b
        <3>1. PICK p \in DnsBases!Owner : DnsBases!Live(p) /\ held[p] = c
            BY <1>1, <1>3, <2>2
        <3>2. p # o
            BY <1>3, <3>1
        <3> QED
            BY <1>1, <3>1, <3>2
    <2> QED
        BY <2>1, <2>2
<1>4. ASSUME NEW p \in DnsBases!Owner, held'[p] # None
      PROVE  /\ DnsBases!Live(p)' /\ base'[held'[p]] = "live" /\ held'[p] \notin lost'
             /\ \A r \in DnsBases!Owner : held'[r] = held'[p] => r = p
    <2>1. CASE p = o
        BY <1>1, <1>2, <2>1
    <2>2. CASE p # o
        BY <1>1, <1>4, <2>2
    <2> QED
        BY <2>1, <2>2
<1>5. DnsBases!OneOwner'
    BY <1>3, <1>4 DEF DnsBases!OneOwner
<1>6. LostLive'
    BY <1>1, <1>2 DEF LostLive
<1> QED
    BY <1>1, <1>5, <1>6

\* Two live objects swap what they have.
LEMMA Swaps ==
    ASSUME DnsInv, NEW o \in DnsBases!Owner, NEW that \in DnsBases!Owner,
           held' = DnsBases!Swap(o, that), UNCHANGED <<base, lost, dnsCrash>>,
           dnsCrash = None, DnsBases!Live(o)', DnsBases!Live(that)',
           \A p : DnsBases!Live(p) => DnsBases!Live(p)'
    PROVE  /\ held' \in [DnsBases!Owner -> DnsBases!Base \cup {None}]
           /\ \A p \in DnsBases!Owner :
                held'[p] = IF p = that THEN held[o]
                           ELSE IF p = o THEN held[that] ELSE held[p]
           /\ DnsBases!OneOwner' /\ LostLive'
<1> USE DnsKnown
<1>1. /\ held' \in [DnsBases!Owner -> DnsBases!Base \cup {None}]
      /\ \A p \in DnsBases!Owner :
            held'[p] = IF p = that THEN held[o]
                       ELSE IF p = o THEN held[that] ELSE held[p]
    BY DEF DnsBases!Swap
<1>2. ASSUME NEW c \in DnsBases!Base, base'[c] = "live", c \notin lost'
      PROVE  \E p \in DnsBases!Owner : DnsBases!Live(p)' /\ held'[p] = c
    <2>1. PICK p \in DnsBases!Owner : DnsBases!Live(p) /\ held[p] = c
        BY <1>2
    <2>2. CASE p = o
        BY <1>1, <2>1, <2>2
    <2>3. CASE p = that
        BY <1>1, <2>1, <2>3
    <2>4. CASE p \notin {o, that}
        BY <1>1, <2>1, <2>4
    <2> QED
        BY <2>2, <2>3, <2>4
<1>3. ASSUME NEW p \in DnsBases!Owner, held'[p] # None
      PROVE  /\ DnsBases!Live(p)' /\ base'[held'[p]] = "live" /\ held'[p] \notin lost'
             /\ \A r \in DnsBases!Owner : held'[r] = held'[p] => r = p
    <2>1. CASE p = that
        BY <1>1, <1>3, <2>1
    <2>2. CASE p = o /\ p # that
        BY <1>1, <1>3, <2>2
    <2>3. CASE p \notin {o, that}
        BY <1>1, <1>3, <2>3
    <2> QED
        BY <2>1, <2>2, <2>3
<1>4. DnsBases!OneOwner'
    BY <1>2, <1>3 DEF DnsBases!OneOwner
<1>5. LostLive'
    BY DEF LostLive
<1> QED
    BY <1>1, <1>4, <1>5

\* An object frees what it has, and may end.
LEMMA FreesHeld ==
    ASSUME DnsInv, NEW o \in DnsBases!Owner, DnsBases!Free(o), dnsCrash = None,
           UNCHANGED <<loopOf, lost>>, uprooted \subseteq uprooted',
           \A p : p # o => (DnsBases!Live(p)' <=> DnsBases!Live(p))
    PROVE  /\ held' \in [DnsBases!Owner -> DnsBases!Base \cup {None}]
           /\ base' \in [DnsBases!Base -> {"new", "live", "freed"}]
           /\ \A p \in DnsBases!Owner : held'[p] = IF p = o THEN None ELSE held[p]
           /\ \A c \in DnsBases!Base : base[c] # "new" => base'[c] # "new"
           /\ \A n \in Dns : base'[n] = "new" => base[n] = "new"
           /\ dnsCrash' \in {None, "queueGone"}
           /\ DnsBases!OneOwner' /\ LostLive' /\ GoneUprooted' /\ MadeOn'
<1> USE DnsKnown
<1>1. held' \in [DnsBases!Owner -> DnsBases!Base \cup {None}]
      /\ \A p \in DnsBases!Owner : held'[p] = IF p = o THEN None ELSE held[p]
    BY DEF DnsBases!Free
<1>2. /\ base' \in [DnsBases!Base -> {"new", "live", "freed"}]
      /\ \A c \in DnsBases!Base : base'[c] = IF c = held[o] THEN "freed" ELSE base[c]
    <2>1. CASE held[o] = None
        BY <2>1 DEF DnsBases!Free
    <2>2. CASE held[o] # None
        BY <2>2 DEF DnsBases!Free
    <2> QED
        BY <2>1, <2>2
<1>3. /\ \A c \in DnsBases!Base : base[c] # "new" => base'[c] # "new"
      /\ \A n \in Dns : base'[n] = "new" => base[n] = "new"
    BY <1>2
<1>4. dnsCrash' \in {None, "queueGone"}
    BY DEF DnsBases!Free
<1>5. ASSUME dnsCrash' = "queueGone"
      PROVE  \E n \in uprooted' : base'[n] = "freed" /\ base'[loopOf'[n]] = "freed"
    <2>1. o \in DnsObj /\ held[o] # None /\ base[loopOf[held[o]]] = "freed"
        BY <1>5 DEF DnsBases!Free
    <2>2. PICK n \in Dns : n = held[o]
        BY <2>1
    <2>3. base[n] = "live" /\ n \notin lost
        BY <2>1, <2>2
    <2>4. n \in uprooted
        BY <2>1, <2>2, <2>3, DnsOutlives
    <2>5. base'[n] = "freed" /\ loopOf[n] \in DnsBases!Base
        BY <1>2, <2>2, <2>3
    <2>6. base'[loopOf[n]] = "freed"
        BY <1>2, <2>1, <2>2, <2>5
    <2> QED
        BY <2>4, <2>5, <2>6
<1>6. ASSUME NEW c \in DnsBases!Base, base'[c] = "live", c \notin lost'
      PROVE  \E p \in DnsBases!Owner : DnsBases!Live(p)' /\ held'[p] = c
    <2>1. base[c] = "live" /\ c # held[o]
        BY <1>2, <1>6
    <2>2. PICK p \in DnsBases!Owner : DnsBases!Live(p) /\ held[p] = c
        BY <1>6, <2>1
    <2> QED
        BY <1>1, <2>1, <2>2
<1>7. ASSUME NEW p \in DnsBases!Owner, held'[p] # None
      PROVE  /\ DnsBases!Live(p)' /\ base'[held'[p]] = "live" /\ held'[p] \notin lost'
             /\ \A r \in DnsBases!Owner : held'[r] = held'[p] => r = p
    <2>1. p # o /\ held'[p] = held[p] /\ held[p] # None /\ held[p] # held[o]
        BY <1>1, <1>7
    <2>2. base'[held[p]] = "live"
        BY <1>2, <2>1
    <2> QED
        BY <1>1, <2>1, <2>2
<1>8. DnsBases!OneOwner'
    BY <1>4, <1>6, <1>7 DEF DnsBases!OneOwner
<1>9. LostLive'
    BY <1>2 DEF LostLive
<1>10. GoneUprooted'
    BY <1>5 DEF GoneUprooted
<1>11. MadeOn'
    <2> SUFFICES ASSUME NEW n \in Dns, base'[n] # "new"
                 PROVE  loopOf[n] \in EvBase /\ base'[loopOf[n]] # "new"
        BY DEF MadeOn
    <2>1. base[n] # "new"
        BY <1>2
    <2>2. loopOf[n] \in EvBase /\ base[loopOf[n]] # "new" /\ loopOf[n] \in DnsBases!Base
        BY <2>1
    <2> QED
        BY <1>3, <2>2
<1> QED
    BY <1>1, <1>2, <1>3, <1>4, <1>8, <1>9, <1>10, <1>11

\* The queues that have what evdns_bases are on keep it, but for those in S,
\* whose evdns_bases are uprooted or whose event_bases are forgotten.
LEMMA QueuesKeep ==
    ASSUME DnsInv, NEW S,
           \A r \in Que \ S : held'[r] = held[r],
           \A r \in S \cap Que : DnsBases!On({held[r]}) \subseteq uprooted'
                                 \/ held[r] \in lost' \cup {None},
           \A o \in DnsObj : held'[o] = held[o],
           UNCHANGED loopOf, uprooted \subseteq uprooted', lost \subseteq lost',
           \A o \in DnsObj, r \in Que : held'[o] # None /\ Under(r, o) => Under(r, o)'
    PROVE  BelowQueue'
<1> USE DnsKnown
<1> SUFFICES ASSUME NEW o \in DnsObj, held'[o] # None, held'[o] \notin uprooted',
                    loopOf'[held'[o]] \notin lost'
             PROVE  \E q \in Que : held'[q] = loopOf'[held'[o]] /\ Under(q, o)'
    BY DEF BelowQueue
<1>1. PICK n \in Dns : n = held[o] /\ n = held'[o]
    BY DnsKnown
<1>2. PICK r \in Que : held[r] = loopOf[n] /\ Under(r, o)
    BY <1>1
<1>3. base[n] = "live" /\ held[r] # None
    BY <1>1, <1>2
<1>4. n \in DnsBases!On({held[r]})
    BY <1>2, <1>3 DEF DnsBases!On
<1>5. r \notin S
    BY <1>1, <1>2, <1>3, <1>4
<1> QED
    BY <1>1, <1>2, <1>5

LEMMA MakesQueue ==
    ASSUME DnsInv, NEW q \in Que, NEW e \in EvBase, DnsBases!MakeQueue(q, e),
           dnsCrash = None
    PROVE  DnsInv'
<1> USE DnsKnown
<1>1. /\ ~DnsBases!Live(q) /\ base[e] = "new" /\ scope' = Append(scope, q)
      /\ held' = [held EXCEPT ![q] = e] /\ base' = [base EXCEPT ![e] = "live"]
      /\ UNCHANGED <<loopOf, lost, uprooted, dnsCrash>>
      /\ held[q] = None /\ q \in DnsBases!Owner /\ e \in DnsBases!Base
    BY DEF DnsBases!MakeQueue
<1>2. /\ scope' \in Seq(DnsBases!Owner) /\ DnsBases!IsInjective(scope')
      /\ \A p : DnsBases!Live(p)' <=> p = q \/ DnsBases!Live(p)
      /\ \A r, p : Under(r, p) => Under(r, p)'
    BY <1>1, ScopeGrows
<1>3. /\ lost' = lost \cup ({held[q]} \ {None})
      /\ DnsBases!Live(q)' /\ \A p : DnsBases!Live(p) => DnsBases!Live(p)'
      /\ UNCHANGED dnsCrash
    BY <1>1, <1>2
<1>4. /\ held' \in [DnsBases!Owner -> DnsBases!Base \cup {None}]
      /\ base' \in [DnsBases!Base -> {"new", "live", "freed"}]
      /\ \A p \in DnsBases!Owner : held'[p] = IF p = q THEN e ELSE held[p]
      /\ \A c \in DnsBases!Base : base'[c] = IF c = e THEN "live" ELSE base[c]
      /\ DnsBases!OneOwner' /\ LostLive'
    BY ONLY DnsInv, <1>1, <1>3, dnsCrash = None, Gets
<1>5. DnsBases!TypeOK'
    BY <1>1, <1>2, <1>4 DEF DnsInv, DnsBases!TypeOK
<1>6. MadeOn' /\ GoneUprooted'
    BY <1>1, <1>4 DEF MadeOn, GoneUprooted
<1>7. BelowQueue'
    <2>1. \A r \in Que \ {q} : held'[r] = held[r]
        BY <1>4
    <2>2. \A r \in {q} \cap Que : held[r] \in lost' \cup {None}
        BY <1>1
    <2>3. \A o \in DnsObj : held'[o] = held[o]
        BY <1>4
    <2>4. /\ UNCHANGED loopOf /\ uprooted \subseteq uprooted' /\ lost \subseteq lost'
          /\ \A o \in DnsObj, r \in Que : held'[o] # None /\ Under(r, o) => Under(r, o)'
        BY <1>1, <1>2
    <2> QED
        BY ONLY DnsInv, <2>1, <2>2, <2>3, <2>4, QueuesKeep
<1> QED
    BY <1>4, <1>5, <1>6, <1>7 DEF DnsInv

\* A queue is constructed from another, which gets a new event_base.
LEMMA MovesQueue ==
    ASSUME DnsInv, NEW q \in Que, NEW that \in Que, NEW e \in EvBase,
           DnsBases!MoveQueue(q, that, e), dnsCrash = None
    PROVE  DnsInv'
<1> USE DnsKnown
<1>1. /\ ~DnsBases!Live(q) /\ DnsBases!Live(that) /\ q # that
      /\ base[e] = "new" /\ scope' = Append(scope, q) /\ held[q] = None
      /\ held' \in [DnsBases!Owner -> DnsBases!Base \cup {None}]
      /\ base' \in [DnsBases!Base -> {"new", "live", "freed"}]
      /\ \A p \in DnsBases!Owner :
            held'[p] = IF p = that THEN e ELSE IF p = q THEN held[that] ELSE held[p]
      /\ \A c \in DnsBases!Base : base'[c] = IF c = e THEN "live" ELSE base[c]
      /\ uprooted' = uprooted \cup DnsBases!On({held[that]})
      /\ UNCHANGED <<loopOf, lost, dnsCrash>>
    BY DEF DnsBases!MoveQueue
<1>2. /\ scope' \in Seq(DnsBases!Owner) /\ DnsBases!IsInjective(scope')
      /\ \A p : DnsBases!Live(p)' <=> p = q \/ DnsBases!Live(p)
      /\ \A r, p : Under(r, p) => Under(r, p)'
    BY <1>1, ScopeGrows
<1>3. uprooted' \subseteq Dns
    BY <1>1 DEF DnsBases!On
<1>4. DnsBases!TypeOK'
    <2>1. /\ \A r \in Que : held'[r] \notin Dns
          /\ \A o \in DnsObj : held'[o] \notin EvBase
        BY <1>1
    <2> QED
        BY <1>1, <1>2, <1>3, <2>1 DEF DnsInv, DnsBases!TypeOK
<1>5. DnsBases!OneOwner'
    <2>1. e \notin lost /\ \A p \in DnsBases!Owner : held[p] # e
        BY <1>1
    <2>2. ASSUME NEW c \in DnsBases!Base, base'[c] = "live", c \notin lost'
          PROVE  \E p \in DnsBases!Owner : DnsBases!Live(p)' /\ held'[p] = c
        <3>1. CASE c = e
            BY <1>1, <1>2, <3>1
        <3>2. CASE c # e
            <4>1. PICK p \in DnsBases!Owner : DnsBases!Live(p) /\ held[p] = c
                BY <1>1, <2>2, <3>2
            <4>2. CASE p = that
                BY <1>1, <1>2, <4>1, <4>2
            <4>3. CASE p # that
                BY <1>1, <1>2, <4>1, <4>3
            <4> QED
                BY <4>2, <4>3
        <3> QED
            BY <3>1, <3>2
    <2>3. ASSUME NEW p \in DnsBases!Owner, held'[p] # None
          PROVE  /\ DnsBases!Live(p)' /\ base'[held'[p]] = "live"
                 /\ held'[p] \notin lost'
                 /\ \A r \in DnsBases!Owner : held'[r] = held'[p] => r = p
        <3>1. CASE p = that
            BY <1>1, <1>2, <2>1, <3>1
        <3>2. CASE p = q
            BY <1>1, <1>2, <2>1, <2>3, <3>2
        <3>3. CASE p \notin {q, that}
            BY <1>1, <1>2, <2>1, <2>3, <3>3
        <3> QED
            BY <3>1, <3>2, <3>3
    <2> QED
        BY <1>1, <2>2, <2>3 DEF DnsBases!OneOwner
<1>6. LostLive' /\ MadeOn' /\ GoneUprooted'
    BY <1>1 DEF LostLive, MadeOn, GoneUprooted
<1>7. BelowQueue'
    <2>1. \A r \in Que \ {q, that} : held'[r] = held[r]
        BY <1>1
    <2>2. \A r \in {q, that} \cap Que : \/ DnsBases!On({held[r]}) \subseteq uprooted'
                                        \/ held[r] \in lost' \cup {None}
        BY <1>1
    <2>3. \A o \in DnsObj : held'[o] = held[o]
        BY <1>1
    <2> QED
        BY <1>1, <1>2, <2>1, <2>2, <2>3, QueuesKeep
<1> QED
    BY <1>4, <1>5, <1>6, <1>7 DEF DnsInv

LEMMA MoveAssignsQueue ==
    ASSUME DnsInv, NEW q \in Que, NEW that \in Que,
           DnsBases!MoveAssignQueue(q, that), dnsCrash = None
    PROVE  DnsInv'
<1> USE DnsKnown
<1>1. /\ DnsBases!Live(q) /\ DnsBases!Live(that) /\ held' = DnsBases!Swap(q, that)
      /\ uprooted' = uprooted \cup DnsBases!On({held[q], held[that]})
      /\ UNCHANGED <<scope, base, loopOf, lost, dnsCrash>>
    BY DEF DnsBases!MoveAssignQueue
<1>2. /\ \A p : DnsBases!Live(p)' <=> DnsBases!Live(p)
      /\ \A r, p : Under(r, p) => Under(r, p)'
    BY <1>1 DEF DnsBases!Live, Under
<1>3. /\ held' \in [DnsBases!Owner -> DnsBases!Base \cup {None}]
      /\ \A p \in DnsBases!Owner :
            held'[p] = IF p = that THEN held[q]
                       ELSE IF p = q THEN held[that] ELSE held[p]
      /\ DnsBases!OneOwner' /\ LostLive'
    BY <1>1, <1>2, Swaps
<1>4. uprooted' \subseteq Dns
    BY <1>1 DEF DnsBases!On
<1>5. DnsBases!TypeOK'
    <2>1. /\ \A r \in Que : held'[r] \notin Dns
          /\ \A o \in DnsObj : held'[o] \notin EvBase
        BY <1>3
    <2> QED
        BY <1>1, <1>3, <1>4, <2>1 DEF DnsInv, DnsBases!TypeOK
<1>6. MadeOn' /\ GoneUprooted'
    BY <1>1 DEF MadeOn, GoneUprooted
<1>7. BelowQueue'
    <2>1. \A r \in Que \ {q, that} : held'[r] = held[r]
        BY <1>3
    <2>2. \A r \in {q, that} \cap Que : DnsBases!On({held[r]}) \subseteq uprooted'
        BY <1>1 DEF DnsBases!On
    <2>3. \A o \in DnsObj : held'[o] = held[o]
        BY <1>3
    <2> QED
        BY <1>1, <1>2, <2>1, <2>2, <2>3, QueuesKeep
<1> QED
    BY <1>3, <1>5, <1>6, <1>7 DEF DnsInv

LEMMA AssignsQueue ==
    ASSUME DnsInv, NEW q \in Que, NEW e \in EvBase, DnsBases!AssignQueue(q, e),
           dnsCrash = None
    PROVE  DnsInv'
<1> USE DnsKnown
<1>1. /\ DnsBases!Live(q) /\ base[e] = "new" /\ q \in DnsBases!Owner
      /\ e \in DnsBases!Base
      /\ held' = [held EXCEPT ![q] = e] /\ base' = [base EXCEPT ![e] = "live"]
      /\ lost' = lost \cup ({held[q]} \ {None})
      /\ UNCHANGED <<scope, loopOf, uprooted, dnsCrash>>
    BY DEF DnsBases!AssignQueue
<1>2. /\ \A p : DnsBases!Live(p)' <=> DnsBases!Live(p)
      /\ \A r, p : Under(r, p) => Under(r, p)'
    BY <1>1 DEF DnsBases!Live, Under
<1>3. /\ held' \in [DnsBases!Owner -> DnsBases!Base \cup {None}]
      /\ base' \in [DnsBases!Base -> {"new", "live", "freed"}]
      /\ lost' \subseteq DnsBases!Base
      /\ \A p \in DnsBases!Owner : held'[p] = IF p = q THEN e ELSE held[p]
      /\ \A c \in DnsBases!Base : base'[c] = IF c = e THEN "live" ELSE base[c]
      /\ DnsBases!OneOwner' /\ LostLive'
    <2>1. /\ DnsBases!Live(q)' /\ \A p : DnsBases!Live(p) => DnsBases!Live(p)'
          /\ UNCHANGED dnsCrash
        BY <1>1, <1>2
    <2> QED
        BY ONLY DnsInv, <1>1, <2>1, dnsCrash = None, Gets
<1>4. DnsBases!TypeOK'
    BY <1>1, <1>3 DEF DnsInv, DnsBases!TypeOK
<1>5. MadeOn' /\ GoneUprooted'
    BY <1>1, <1>3 DEF MadeOn, GoneUprooted
<1>6. BelowQueue'
    <2>1. \A r \in Que \ {q} : held'[r] = held[r]
        BY <1>3
    <2>2. \A r \in {q} \cap Que : held[r] \in lost' \cup {None}
        BY <1>1
    <2>3. \A o \in DnsObj : held'[o] = held[o]
        BY <1>3
    <2> QED
        BY <1>1, <1>2, <2>1, <2>2, <2>3, QueuesKeep
<1> QED
    BY <1>3, <1>4, <1>5, <1>6 DEF DnsInv

LEMMA DestroysQueue ==
    ASSUME DnsInv, NEW q \in Que, DnsBases!Destroy(q), dnsCrash = None
    PROVE  DnsInv'
<1> USE DnsKnown
<1>1. /\ DnsBases!Free(q) /\ q \in DnsBases!Owner
      /\ uprooted' = uprooted \cup DnsBases!On({held[q]})
      /\ UNCHANGED <<scope, loopOf, lost>>
    BY DEF DnsBases!Destroy
<1>2. /\ \A p : DnsBases!Live(p)' <=> DnsBases!Live(p)
      /\ \A r, p : Under(r, p) => Under(r, p)'
    BY <1>1 DEF DnsBases!Live, Under
<1>3. /\ held' \in [DnsBases!Owner -> DnsBases!Base \cup {None}]
      /\ base' \in [DnsBases!Base -> {"new", "live", "freed"}]
      /\ \A p \in DnsBases!Owner : held'[p] = IF p = q THEN None ELSE held[p]
      /\ dnsCrash' \in {None, "queueGone"}
      /\ DnsBases!OneOwner' /\ LostLive' /\ GoneUprooted' /\ MadeOn'
    BY <1>1, <1>2, FreesHeld
<1>4. uprooted' \subseteq Dns
    BY <1>1 DEF DnsBases!On
<1>5. DnsBases!TypeOK'
    BY <1>1, <1>3, <1>4 DEF DnsInv, DnsBases!TypeOK
<1>6. BelowQueue'
    <2>1. \A r \in Que \ {q} : held'[r] = held[r]
        BY <1>3
    <2>2. \A r \in {q} \cap Que : DnsBases!On({held[r]}) \subseteq uprooted'
        BY <1>1
    <2>3. \A o \in DnsObj : held'[o] = held[o]
        BY <1>3
    <2> QED
        BY <1>1, <1>2, <2>1, <2>2, <2>3, QueuesKeep
<1> QED
    BY <1>3, <1>5, <1>6 DEF DnsInv

\* An object that is or becomes live gets an evdns_base that is made on a queue.
LEMMA GetsDns ==
    ASSUME DnsInv, NEW o \in DnsObj, NEW q \in Que, NEW n \in Dns,
           DnsBases!NewDns(q, n), dnsCrash = None,
           scope' \in Seq(DnsBases!Owner), DnsBases!IsInjective(scope'),
           DnsBases!Live(o)', \A p : DnsBases!Live(p) => DnsBases!Live(p)',
           \A r, p : Under(r, p) => Under(r, p)',
           held' = [held EXCEPT ![o] = n],
           lost' = lost \cup ({held[o]} \ {None}),
           uprooted \subseteq uprooted', uprooted' \subseteq Dns,
           Under(q, o)' \/ n \in uprooted', UNCHANGED dnsCrash
    PROVE  DnsInv'
<1> USE DnsKnown
<1>1. /\ base[n] = "new" /\ held[q] # None /\ base' = [base EXCEPT ![n] = "live"]
      /\ loopOf' \in [Dns -> EvBase \cup {None}]
      /\ \A m \in Dns : loopOf'[m] = IF m = n THEN held[q] ELSE loopOf[m]
      /\ o \in DnsBases!Owner /\ n \in DnsBases!Base /\ held[q] \in EvBase
    BY DEF DnsBases!NewDns
<1>2. /\ held' \in [DnsBases!Owner -> DnsBases!Base \cup {None}]
      /\ base' \in [DnsBases!Base -> {"new", "live", "freed"}]
      /\ lost' \subseteq DnsBases!Base
      /\ \A p \in DnsBases!Owner : /\ held'[p] = IF p = o THEN n ELSE held[p]
                                   /\ held[p] # n
      /\ \A c \in DnsBases!Base : base'[c] = IF c = n THEN "live" ELSE base[c]
      /\ DnsBases!OneOwner' /\ LostLive'
    BY <1>1, Gets
<1>3. DnsBases!TypeOK'
    BY <1>1, <1>2 DEF DnsInv, DnsBases!TypeOK
<1>4. MadeOn' /\ GoneUprooted'
    BY <1>1, <1>2 DEF MadeOn, GoneUprooted
<1>5. BelowQueue'
    <2> SUFFICES ASSUME NEW p \in DnsObj, held'[p] # None, held'[p] \notin uprooted',
                        loopOf'[held'[p]] \notin lost'
                 PROVE  \E r \in Que : held'[r] = loopOf'[held'[p]] /\ Under(r, p)'
        BY DEF BelowQueue
    <2>1. \A r \in Que : held'[r] = held[r]
        BY <1>2
    <2>2. CASE p = o
        BY <1>1, <1>2, <2>1, <2>2
    <2>3. CASE p # o
        <3>1. held'[p] = held[p] /\ held[p] # n /\ held[p] \in Dns
            BY <1>2, <2>3
        <3>2. loopOf'[held'[p]] = loopOf[held[p]]
            BY <1>1, <3>1
        <3> QED
            BY <2>1, <3>1, <3>2
    <2> QED
        BY <2>2, <2>3
<1> QED
    BY <1>2, <1>3, <1>4, <1>5 DEF DnsInv

LEMMA DnsConstructs ==
    ASSUME DnsInv, NEW o \in DnsObj, NEW q \in Que, NEW n \in Dns,
           DnsBases!Construct(o, q, n), dnsCrash = None
    PROVE  DnsInv'
<1>1. /\ ~DnsBases!Live(o) /\ DnsBases!NewDns(q, n) /\ DnsBases!Live(q)
      /\ scope' = Append(scope, o) /\ held' = [held EXCEPT ![o] = n]
      /\ UNCHANGED <<lost, uprooted, dnsCrash>>
      /\ o \in DnsBases!Owner /\ held[o] = None
    BY DnsKnown DEF DnsBases!Construct, DnsBases!NewDns
<1>2. /\ scope' \in Seq(DnsBases!Owner) /\ DnsBases!IsInjective(scope')
      /\ \A p : DnsBases!Live(p)' <=> p = o \/ DnsBases!Live(p)
      /\ \A r, p : Under(r, p) => Under(r, p)'
      /\ Under(q, o)'
    BY <1>1, ScopeGrows
<1>3. lost' = lost \cup ({held[o]} \ {None}) /\ uprooted' \subseteq Dns
    BY <1>1, DnsKnown
<1> QED
    BY <1>1, <1>2, <1>3, GetsDns

\* The constructor throws: the evdns_base is lost.
LEMMA DnsConstructThrows ==
    ASSUME DnsInv, NEW o \in DnsObj, NEW q \in Que, NEW n \in Dns,
           DnsBases!ConstructThrows(o, q, n), dnsCrash = None
    PROVE  DnsInv'
<1> USE DnsKnown
<1>1. /\ base[n] = "new" /\ held[q] \in EvBase /\ lost' = lost \cup {n}
      /\ base' \in [DnsBases!Base -> {"new", "live", "freed"}]
      /\ loopOf' \in [Dns -> EvBase \cup {None}]
      /\ \A m \in Dns : loopOf'[m] = IF m = n THEN held[q] ELSE loopOf[m]
      /\ \A c \in DnsBases!Base : base'[c] = IF c = n THEN "live" ELSE base[c]
      /\ UNCHANGED <<scope, held, uprooted, dnsCrash>>
    BY DEF DnsBases!ConstructThrows, DnsBases!NewDns
<1>2. \A p \in DnsBases!Owner : held[p] # n
    BY <1>1
<1>3. DnsBases!TypeOK'
    BY <1>1 DEF DnsInv, DnsBases!TypeOK
<1>4. DnsBases!OneOwner'
    <2>1. \A c \in DnsBases!Base : base'[c] = "live" /\ c \notin lost' =>
            \E p \in DnsBases!Owner : DnsBases!Live(p) /\ held[p] = c
        BY <1>1
    <2>2. \A p \in DnsBases!Owner :
            held[p] # None => base'[held[p]] = "live" /\ held[p] \notin lost'
        BY <1>1, <1>2
    <2> QED
        BY <1>1, <2>1, <2>2 DEF DnsBases!OneOwner, DnsBases!Live
<1>5. LostLive' /\ MadeOn' /\ GoneUprooted'
    BY <1>1 DEF LostLive, MadeOn, GoneUprooted
<1>6. BelowQueue'
    <2> SUFFICES ASSUME NEW p \in DnsObj, held[p] # None, held[p] \notin uprooted,
                        loopOf'[held[p]] \notin lost'
                 PROVE  \E r \in Que : held[r] = loopOf'[held[p]] /\ Under(r, p)'
        BY <1>1 DEF BelowQueue
    <2>1. loopOf'[held[p]] = loopOf[held[p]]
        BY <1>1, <1>2
    <2>2. \E r \in Que : held[r] = loopOf[held[p]] /\ Under(r, p)
        BY <1>1, <2>1
    <2> QED
        BY <1>1, <2>1, <2>2 DEF Under
<1> QED
    BY <1>3, <1>4, <1>5, <1>6 DEF DnsInv

\* An assignment forgets what the object had.
LEMMA DnsAssigns ==
    ASSUME DnsInv, NEW o \in DnsObj, NEW q \in Que, NEW n \in Dns,
           DnsBases!Assign(o, q, n), dnsCrash = None
    PROVE  DnsInv'
<1>1. /\ DnsBases!Live(o) /\ DnsBases!NewDns(q, n)
      /\ held' = [held EXCEPT ![o] = n]
      /\ lost' = lost \cup ({held[o]} \ {None}) /\ uprooted' = uprooted \cup {n}
      /\ UNCHANGED <<scope, dnsCrash>>
    BY DEF DnsBases!Assign
<1>2. /\ \A p : DnsBases!Live(p)' <=> DnsBases!Live(p)
      /\ \A r, p : Under(r, p) => Under(r, p)'
    BY <1>1 DEF DnsBases!Live, Under
<1>3. /\ scope' \in Seq(DnsBases!Owner) /\ DnsBases!IsInjective(scope')
      /\ uprooted' \subseteq Dns /\ n \in uprooted' /\ uprooted \subseteq uprooted'
    BY <1>1, DnsKnown
<1> QED
    BY <1>1, <1>2, <1>3, GetsDns

LEMMA DnsMoveConstructs ==
    ASSUME DnsInv, NEW o \in DnsObj, NEW that \in DnsObj,
           DnsBases!MoveConstruct(o, that), dnsCrash = None
    PROVE  DnsInv'
<1> USE DnsKnown
<1>1. /\ scope' = Append(scope, o) /\ ~DnsBases!Live(o) /\ DnsBases!Live(that)
      /\ held[o] = None /\ o # that /\ held' = DnsBases!Swap(o, that)
      /\ UNCHANGED <<base, loopOf, lost, uprooted, dnsCrash>>
    BY DEF DnsBases!MoveConstruct
<1>2. /\ scope' \in Seq(DnsBases!Owner) /\ DnsBases!IsInjective(scope')
      /\ \A p : DnsBases!Live(p)' <=> p = o \/ DnsBases!Live(p)
      /\ \A r, p : Under(r, p) => Under(r, p)' /\ Under(r, o)'
    BY <1>1, ScopeGrows
<1>3. /\ held' \in [DnsBases!Owner -> DnsBases!Base \cup {None}]
      /\ \A p \in DnsBases!Owner :
            held'[p] = IF p = that THEN held[o]
                       ELSE IF p = o THEN held[that] ELSE held[p]
      /\ DnsBases!OneOwner' /\ LostLive'
    BY <1>1, <1>2, Swaps
<1>4. DnsBases!TypeOK'
    BY <1>1, <1>2, <1>3 DEF DnsInv, DnsBases!TypeOK
<1>5. MadeOn' /\ GoneUprooted'
    BY <1>1 DEF MadeOn, GoneUprooted
<1>6. BelowQueue'
    <2> SUFFICES ASSUME NEW p \in DnsObj, held'[p] # None, held'[p] \notin uprooted,
                        loopOf[held'[p]] \notin lost
                 PROVE  \E r \in Que : held'[r] = loopOf[held'[p]] /\ Under(r, p)'
        BY <1>1 DEF BelowQueue
    <2>1. p # that
        BY <1>1, <1>3
    <2>2. PICK giver \in DnsObj : /\ held'[p] = held[giver] /\ held[giver] # None
                                  /\ giver = p \/ p = o
        BY <1>3, <2>1
    <2>3. PICK r \in Que : held[r] = loopOf[held[giver]] /\ Under(r, giver)
        BY <2>2
    <2>4. Under(r, p)'
        BY <1>2, <2>2, <2>3
    <2>5. held'[r] = held[r]
        BY <1>3
    <2> QED
        BY <2>2, <2>3, <2>4, <2>5
<1> QED
    BY <1>3, <1>4, <1>5, <1>6 DEF DnsInv

LEMMA DnsMoveAssigns ==
    ASSUME DnsInv, NEW o \in DnsObj, NEW that \in DnsObj,
           DnsBases!MoveAssign(o, that), dnsCrash = None
    PROVE  DnsInv'
<1> USE DnsKnown
<1>1. /\ DnsBases!Live(o) /\ DnsBases!Live(that) /\ held' = DnsBases!Swap(o, that)
      /\ uprooted' = uprooted \cup ({held[o], held[that]} \ {None})
      /\ UNCHANGED <<scope, base, loopOf, lost, dnsCrash>>
    BY DEF DnsBases!MoveAssign
<1>2. /\ \A p : DnsBases!Live(p)' <=> DnsBases!Live(p)
      /\ \A r, p : Under(r, p) => Under(r, p)'
    BY <1>1 DEF DnsBases!Live, Under
<1>3. /\ held' \in [DnsBases!Owner -> DnsBases!Base \cup {None}]
      /\ \A p \in DnsBases!Owner :
            held'[p] = IF p = that THEN held[o]
                       ELSE IF p = o THEN held[that] ELSE held[p]
      /\ DnsBases!OneOwner' /\ LostLive'
    BY <1>1, <1>2, Swaps
<1>4. uprooted' \subseteq Dns
    BY <1>1
<1>5. DnsBases!TypeOK'
    BY <1>1, <1>3, <1>4 DEF DnsInv, DnsBases!TypeOK
<1>6. MadeOn' /\ GoneUprooted'
    BY <1>1 DEF MadeOn, GoneUprooted
<1>7. BelowQueue'
    <2> SUFFICES ASSUME NEW p \in DnsObj, held'[p] # None, held'[p] \notin uprooted',
                        loopOf[held'[p]] \notin lost
                 PROVE  \E r \in Que : held'[r] = loopOf[held'[p]] /\ Under(r, p)'
        BY <1>1 DEF BelowQueue
    <2>1. p \notin {o, that} /\ held'[p] = held[p] /\ held[p] \notin uprooted
        BY <1>1, <1>3
    <2>2. PICK r \in Que : held[r] = loopOf[held[p]] /\ Under(r, p)
        BY <2>1
    <2>3. held'[r] = held[r]
        BY <1>3
    <2> QED
        BY <1>2, <2>1, <2>2, <2>3
<1> QED
    BY <1>3, <1>5, <1>6, <1>7 DEF DnsInv

\* The youngest variable goes, and frees what it has.
LEMMA DnsLeaves ==
    ASSUME DnsInv, DnsBases!Leave, dnsCrash = None
    PROVE  DnsInv'
<1> USE DnsKnown
<1>1. scope # <<>> /\ scope' = DnsBases!Front(scope)
      /\ UNCHANGED <<loopOf, lost, uprooted>>
    BY DEF DnsBases!Leave
<1>2. PICK o \in DnsBases!Owner :
        /\ o = DnsBases!Last(scope)
        /\ scope' \in Seq(DnsBases!Owner) /\ DnsBases!IsInjective(scope')
        /\ \A p : DnsBases!Live(p)' <=> p # o /\ DnsBases!Live(p)
        /\ \A q, p : Under(q, p) /\ p # o => Under(q, p)' /\ q # o
    BY <1>1, ScopeShrinks
<1>3. DnsBases!Free(o)
    BY <1>2 DEF DnsBases!Leave
<1>4. /\ held' \in [DnsBases!Owner -> DnsBases!Base \cup {None}]
      /\ base' \in [DnsBases!Base -> {"new", "live", "freed"}]
      /\ \A p \in DnsBases!Owner : held'[p] = IF p = o THEN None ELSE held[p]
      /\ dnsCrash' \in {None, "queueGone"}
      /\ DnsBases!OneOwner' /\ LostLive' /\ GoneUprooted' /\ MadeOn'
    BY <1>1, <1>2, <1>3, FreesHeld
<1>5. DnsBases!TypeOK'
    BY <1>1, <1>2, <1>4 DEF DnsInv, DnsBases!TypeOK
<1>6. BelowQueue'
    <2> SUFFICES ASSUME NEW p \in DnsObj, held'[p] # None, held'[p] \notin uprooted,
                        loopOf[held'[p]] \notin lost
                 PROVE  \E r \in Que : held'[r] = loopOf[held'[p]] /\ Under(r, p)'
        BY <1>1 DEF BelowQueue
    <2>1. p # o /\ held'[p] = held[p]
        BY <1>4
    <2>2. PICK r \in Que : held[r] = loopOf[held[p]] /\ Under(r, p)
        BY <2>1
    <2>3. Under(r, p)' /\ held'[r] = held[r]
        BY <1>2, <1>4, <2>1, <2>2
    <2> QED
        BY <2>1, <2>2, <2>3
<1> QED
    BY <1>4, <1>5, <1>6 DEF DnsInv

LEMMA DnsInductive == DnsInv /\ [DnsBases!Next]_dnsVars => DnsInv'
<1> SUFFICES ASSUME DnsInv, [DnsBases!Next]_dnsVars PROVE DnsInv'
    OBVIOUS
<1>1. CASE UNCHANGED dnsVars
    BY <1>1
    DEF dnsVars, DnsInv, DnsBases!TypeOK, DnsBases!OneOwner, DnsBases!Live, BelowQueue,
        MadeOn, LostLive, GoneUprooted, Under
<1>2. CASE DnsBases!Next
    <2>1. dnsCrash = None
        BY <1>2 DEF DnsBases!Next
    <2>2. CASE \E q \in Que : \/ \E e \in EvBase : \/ DnsBases!MakeQueue(q, e)
                                                   \/ DnsBases!AssignQueue(q, e)
                              \/ \E that \in Que :
                                    \/ DnsBases!MoveAssignQueue(q, that)
                                    \/ \E e \in EvBase : DnsBases!MoveQueue(q, that, e)
                              \/ DnsBases!Destroy(q)
        BY <2>1, <2>2, MakesQueue, AssignsQueue, MovesQueue, MoveAssignsQueue,
           DestroysQueue
    <2>3. CASE \E o \in DnsObj, q \in Que, n \in Dns :
                \/ DnsBases!Construct(o, q, n) \/ DnsBases!ConstructThrows(o, q, n)
                \/ DnsBases!Assign(o, q, n)
        BY <2>1, <2>3, DnsConstructs, DnsConstructThrows, DnsAssigns
    <2>4. CASE \E o, that \in DnsObj :
                DnsBases!MoveConstruct(o, that) \/ DnsBases!MoveAssign(o, that)
        BY <2>1, <2>4, DnsMoveConstructs, DnsMoveAssigns
    <2>5. CASE DnsBases!Leave
        BY <2>1, <2>5, DnsLeaves
    <2> QED
        BY <1>2, <2>2, <2>3, <2>4, <2>5 DEF DnsBases!Next
<1> QED
    BY <1>1, <1>2

-----------------------------------------------------------------------------
(* Address.                                                                 *)

\* What an object of an address of the family f has for a length.
FitsFamily(o, f, n) ==
    /\ f = "none" => n = 0
    /\ f = "v4" => n = 16 /\ o \notin V6
    /\ f = "v6" => n = 46 \/ (n = 28 /\ o \notin V6)

\* The length of a text is only there once a v6::addr was given an address, a
\* v4::addr has no v6 address, and what a pointer points to has its length.
Lengths ==
    /\ \A o \in Addresses!Storage : len[o] = 46 => six
    /\ \A o \in streamed : len[o] = 0
    /\ \A o \in V4 : len[o] <= 16 /\ own[o].fam # "v6"
    /\ \A o \in Addresses!Storage : addrLife[o] = "live" =>
        /\ ptr[o] # None
        /\ len[o] <= Addresses!Size(ptr[o]) \/ six
        /\ o \in Ss => ptr[o] = o

\* A plain ip::addr is a default copy.
NoViews == alias \/ (copied = {} /\ \A o \in View : addrLife[o] = "raw")

PerFamily ==
    alias \/ \A o \in Addresses!Storage :
                addrLife[o] = "live" /\ o \notin streamed
                    => FitsFamily(o, own[o].fam, len[o])

AddrInv ==
    /\ Addresses!TypeOK /\ Addresses!ShowsItsOwn /\ Addresses!FitsWithoutSix
    /\ Lengths /\ NoViews /\ PerFamily

\* What a storage holds.
SockAddr ==
    [fam : {"none", "v4", "v6"}, host : Host \cup {None}, port : Addresses!Short]

\* The constants, at hand.
LEMMA AddrConstants ==
    /\ V4 \subseteq Addresses!Storage /\ V6 \subseteq Addresses!Storage
    /\ Ss \subseteq Addresses!Storage /\ View \subseteq Addresses!Storage
    /\ \A o \in Addresses!Storage : o \in V4 \/ o \in V6 \/ o \in Ss \/ o \in View
    /\ \A o \in V4 : o \notin V6 /\ o \notin Ss /\ o \notin View
    /\ \A o \in V6 : o \notin Ss /\ o \notin View
    /\ \A o \in Ss : o \notin View
    /\ None \notin Addresses!Storage /\ Port \subseteq Nat /\ Loop \in Host
    /\ None # "dangling" /\ None # "overread" /\ None # "overrun"
BY SocketsAssumption DEF Addresses!AddressAssumption, Addresses!Storage

LEMMA Sizes ==
    /\ \A o : Addresses!Size(o) \in {16, 28, 128}
    /\ \A o \in V4 : Addresses!Size(o) = 16 /\ Addresses!Capacity(o) = 16
    /\ \A o \in V6 : Addresses!Size(o) = 28 /\ Addresses!Capacity(o) = 46
    /\ \A o \in Ss : Addresses!Size(o) = 128
BY AddrConstants DEF Addresses!Size, Addresses!Capacity

LEMMA ShortIsNat == \A p \in Addresses!Short : p \in Nat
BY DEF Addresses!Short

LEMMA Records ==
    ASSUME NEW f \in {"none", "v4", "v6"}, NEW h \in Host \cup {None}, NEW p \in Nat
    PROVE  /\ Addresses!Record(f, h, p) \in SockAddr
           /\ Addresses!Record(f, h, p).fam = f
<1>1. p % 65536 \in Addresses!Short
    BY DEF Addresses!Short
<1>2. Addresses!Record(f, h, p) = [fam |-> f, host |-> h, port |-> p % 65536]
    BY DEF Addresses!Record
<1> QED
    BY <1>1, <1>2 DEF SockAddr

LEMMA AddrInitially == Addresses!Init => AddrInv
<1> SUFFICES ASSUME Addresses!Init PROVE AddrInv
    OBVIOUS
<1> USE AddrConstants DEF Addresses!Init
<1>1. Addresses!Zero \in SockAddr /\ Addresses!Zero.fam = "none"
    <2>1. 0 \in Addresses!Short
        BY DEF Addresses!Short
    <2> QED
        BY <2>1 DEF Addresses!Zero, SockAddr
<1>2. Addresses!TypeOK
    BY <1>1 DEF Addresses!TypeOK, SockAddr
<1>3. Addresses!ShowsItsOwn /\ Addresses!FitsWithoutSix
    BY DEF Addresses!ShowsItsOwn, Addresses!FitsWithoutSix
<1>4. Lengths
    BY <1>1 DEF Lengths
<1>5. NoViews
    BY DEF NoViews
<1>6. PerFamily
    BY DEF PerFamily
<1> QED
    BY <1>2, <1>3, <1>4, <1>5, <1>6 DEF AddrInv

\* The invariant, at hand.
LEMMA AddrKnown ==
    ASSUME AddrInv
    PROVE  /\ addrLife \in [Addresses!Storage -> {"raw", "live"}]
           /\ ptr \in [Addresses!Storage -> Addresses!Storage \cup {None}]
           /\ len \in [Addresses!Storage -> {0, 16, 28, 46}]
           /\ own \in [Addresses!Storage -> SockAddr]
           /\ streamed \subseteq Ss /\ copied \subseteq Addresses!Storage
           /\ alias \in BOOLEAN /\ six \in BOOLEAN
           /\ \A o \in Addresses!Storage :
                addrLife[o] = "live" /\ o \notin copied => ptr[o] = o
           /\ \A o \in Addresses!Storage : len[o] = 46 => six
           /\ \A o \in streamed : len[o] = 0
           /\ \A o \in V4 : len[o] <= 16 /\ own[o].fam # "v6"
           /\ \A o \in Addresses!Storage : addrLife[o] = "live" =>
                /\ ptr[o] # None
                /\ len[o] <= Addresses!Size(ptr[o]) \/ six
                /\ o \in Ss => ptr[o] = o
           /\ alias \/ (copied = {} /\ \A o \in View : addrLife[o] = "raw")
           /\ alias \/ \A o \in Addresses!Storage :
                addrLife[o] = "live" /\ o \notin streamed
                    => FitsFamily(o, own[o].fam, len[o])
<1>1. Addresses!TypeOK
    BY DEF AddrInv
<1>2. \A o \in Addresses!Storage :
        addrLife[o] = "live" /\ o \notin copied => ptr[o] = o
    BY DEF AddrInv, Addresses!ShowsItsOwn
<1>3. /\ \A o \in Addresses!Storage : len[o] = 46 => six
      /\ \A o \in streamed : len[o] = 0
      /\ \A o \in V4 : len[o] <= 16 /\ own[o].fam # "v6"
      /\ \A o \in Addresses!Storage : addrLife[o] = "live" =>
           /\ ptr[o] # None
           /\ len[o] <= Addresses!Size(ptr[o]) \/ six
           /\ o \in Ss => ptr[o] = o
    BY DEF AddrInv, Lengths
<1> QED
    BY <1>1, <1>2, <1>3 DEF AddrInv, Addresses!TypeOK, SockAddr, NoViews, PerFamily

\* A live object o gets the address r with the length n.
LEMMA AddrSets ==
    ASSUME AddrInv, NEW o \in Addresses!Storage, NEW r \in SockAddr,
           NEW n \in {0, 16, 28, 46},
           addrLife[o] = "live",
           own' = [own EXCEPT ![o] = r], len' = [len EXCEPT ![o] = n],
           streamed' \subseteq Ss, o \in streamed' => n = 0,
           \A p : p # o => (p \in streamed' <=> p \in streamed),
           UNCHANGED <<addrLife, ptr, copied, alias>>,
           six' \in BOOLEAN, six => six', n = 46 => six',
           o \in V4 => n <= 16 /\ r.fam # "v6",
           n <= Addresses!Size(ptr[o]) \/ six',
           alias \/ o \in streamed' \/ FitsFamily(o, r.fam, n),
           addrCrash' \in {None, "dangling", "assert", "overread", "overrun"},
           addrCrash' \in {"overread", "overrun"} => six'
    PROVE  AddrInv'
<1> USE AddrKnown
<1>1. /\ own' \in [Addresses!Storage -> SockAddr]
      /\ len' \in [Addresses!Storage -> {0, 16, 28, 46}]
      /\ \A p \in Addresses!Storage : /\ own'[p] = IF p = o THEN r ELSE own[p]
                                      /\ len'[p] = IF p = o THEN n ELSE len[p]
    OBVIOUS
<1>2. Addresses!TypeOK'
    BY <1>1 DEF Addresses!TypeOK, SockAddr
<1>3. Addresses!ShowsItsOwn' /\ Addresses!FitsWithoutSix'
    BY DEF Addresses!ShowsItsOwn, Addresses!FitsWithoutSix
<1>4. Lengths'
    <2>1. \A p \in Addresses!Storage : len'[p] = 46 => six'
        BY <1>1
    <2>2. /\ \A p \in V4 : len'[p] <= 16 /\ own'[p].fam # "v6"
          /\ \A p \in streamed' : len'[p] = 0
        BY <1>1, AddrConstants
    <2>3. ASSUME NEW p \in Addresses!Storage, addrLife[p] = "live"
          PROVE  /\ ptr[p] # None /\ (p \in Ss => ptr[p] = p)
                 /\ len'[p] <= Addresses!Size(ptr[p]) \/ six'
        BY <1>1, <2>3
    <2> QED
        BY <2>1, <2>2, <2>3 DEF Lengths, Addresses!Size
<1>5. NoViews'
    BY DEF NoViews
<1>6. PerFamily'
    <2>1. CASE alias
        BY <2>1 DEF PerFamily
    <2>2. CASE ~alias
        <3>1. \A p \in Addresses!Storage :
                addrLife[p] = "live" /\ p \notin streamed'
                    => FitsFamily(p, own'[p].fam, len'[p])
            BY <1>1, <2>2
        <3> QED
            BY <3>1 DEF PerFamily, FitsFamily
    <2> QED
        BY <2>1, <2>2
<1> QED
    BY <1>2, <1>3, <1>4, <1>5, <1>6 DEF AddrInv

\* No address changes.
LEMMA AddrStays ==
    ASSUME AddrInv, UNCHANGED <<addrLife, ptr, len, own, streamed, copied, alias>>,
           six' \in BOOLEAN, six => six',
           addrCrash' \in {None, "dangling", "assert", "overread", "overrun"},
           addrCrash' \in {"overread", "overrun"} => six'
    PROVE  AddrInv'
<1>1. Addresses!TypeOK'
    BY AddrKnown DEF Addresses!TypeOK, SockAddr
<1>2. Addresses!ShowsItsOwn' /\ Addresses!FitsWithoutSix'
    BY DEF AddrInv, Addresses!ShowsItsOwn, Addresses!FitsWithoutSix
<1>3. Lengths'
    BY DEF AddrInv, Lengths, Addresses!Size
<1>4. NoViews' /\ PerFamily'
    BY DEF AddrInv, NoViews, PerFamily, FitsFamily
<1> QED
    BY <1>1, <1>2, <1>3, <1>4 DEF AddrInv

\* An object o begins, with the address r and the length n.
LEMMA AddrBegins ==
    ASSUME AddrInv, NEW o \in Addresses!Storage, NEW r \in SockAddr,
           NEW n \in {0, 16, 28, 46},
           o \notin View,
           addrLife' = [addrLife EXCEPT ![o] = "live"], ptr' = [ptr EXCEPT ![o] = o],
           own' = [own EXCEPT ![o] = r], len' = [len EXCEPT ![o] = n],
           streamed' \subseteq Ss, o \in streamed' => n = 0,
           \A p : p # o => (p \in streamed' <=> p \in streamed),
           UNCHANGED <<copied, alias, six>>,
           n = 46 => six,
           o \in V4 => n <= 16 /\ r.fam # "v6",
           n <= Addresses!Size(o),
           alias \/ o \in streamed' \/ FitsFamily(o, r.fam, n),
           addrCrash' \in {None, "assert"}
    PROVE  AddrInv'
<1> USE AddrKnown
<1>1. /\ own' \in [Addresses!Storage -> SockAddr]
      /\ len' \in [Addresses!Storage -> {0, 16, 28, 46}]
      /\ addrLife' \in [Addresses!Storage -> {"raw", "live"}]
      /\ ptr' \in [Addresses!Storage -> Addresses!Storage \cup {None}]
      /\ \A p \in Addresses!Storage :
            /\ own'[p] = IF p = o THEN r ELSE own[p]
            /\ len'[p] = IF p = o THEN n ELSE len[p]
            /\ ptr'[p] = IF p = o THEN o ELSE ptr[p]
            /\ addrLife'[p] = IF p = o THEN "live" ELSE addrLife[p]
    OBVIOUS
<1>2. Addresses!TypeOK'
    BY <1>1 DEF Addresses!TypeOK, SockAddr
<1>3. Addresses!ShowsItsOwn' /\ Addresses!FitsWithoutSix'
    BY <1>1, AddrConstants DEF Addresses!ShowsItsOwn, Addresses!FitsWithoutSix
<1>4. Lengths'
    <2>1. \A p \in Addresses!Storage : len'[p] = 46 => six
        BY <1>1
    <2>2. /\ \A p \in V4 : len'[p] <= 16 /\ own'[p].fam # "v6"
          /\ \A p \in streamed' : len'[p] = 0
        BY <1>1, AddrConstants
    <2>3. ASSUME NEW p \in Addresses!Storage, addrLife'[p] = "live"
          PROVE  /\ ptr'[p] # None /\ (p \in Ss => ptr'[p] = p)
                 /\ len'[p] <= Addresses!Size(ptr'[p]) \/ six
        BY <1>1, <2>3, AddrConstants
    <2> QED
        BY <2>1, <2>2, <2>3 DEF Lengths, Addresses!Size
<1>5. NoViews'
    BY <1>1, AddrConstants DEF NoViews
<1>6. PerFamily'
    <2>1. CASE alias
        BY <2>1 DEF PerFamily
    <2>2. CASE ~alias
        <3>1. \A p \in Addresses!Storage :
                addrLife'[p] = "live" /\ p \notin streamed'
                    => FitsFamily(p, own'[p].fam, len'[p])
            BY <1>1, <2>2
        <3> QED
            BY <3>1 DEF PerFamily, FitsFamily
    <2> QED
        BY <2>1, <2>2
<1> QED
    BY <1>2, <1>3, <1>4, <1>5, <1>6 DEF AddrInv

LEMMA AddrMakes ==
    ASSUME AddrInv, NEW o \in Addresses!Storage, Addresses!Make(o), addrCrash = None
    PROVE  AddrInv'
<1> DEFINE r == Addresses!Zero
<1>1. r \in SockAddr /\ r.fam = "none"
    <2>1. 0 \in Addresses!Short
        BY DEF Addresses!Short
    <2> QED
        BY <2>1 DEF Addresses!Zero, SockAddr
<1>2. 0 <= Addresses!Size(o) /\ FitsFamily(o, r.fam, 0)
    BY <1>1, Sizes DEF FitsFamily
<1>3. /\ o \notin View
      /\ addrLife' = [addrLife EXCEPT ![o] = "live"] /\ ptr' = [ptr EXCEPT ![o] = o]
      /\ own' = [own EXCEPT ![o] = r] /\ len' = [len EXCEPT ![o] = 0]
      /\ UNCHANGED <<streamed, copied, alias, six, addrCrash>>
    BY DEF Addresses!Make
<1> HIDE DEF r
<1>4. /\ 0 \in {0, 16, 28, 46} /\ (0 = 46 => six)
      /\ o \in V4 => 0 <= 16 /\ r.fam # "v6"
      /\ alias \/ FitsFamily(o, r.fam, 0)
      /\ addrCrash' \in {None, "assert"} /\ streamed' \subseteq Ss
      /\ \A p : p # o => (p \in streamed' <=> p \in streamed)
    BY <1>1, <1>2, <1>3, AddrKnown
<1> QED
    BY <1>1, <1>2, <1>3, <1>4, AddrBegins

LEMMA AddrCopiesSs ==
    ASSUME AddrInv, NEW o \in Addresses!Storage, NEW that \in Addresses!Storage,
           Addresses!CopySs(o, that)
    PROVE  AddrInv'
<1> DEFINE r == own[that]
           n == len[that]
<1>1. /\ o \in Ss /\ that \in Ss /\ addrLife[that] = "live"
      /\ addrLife' = [addrLife EXCEPT ![o] = "live"] /\ ptr' = [ptr EXCEPT ![o] = o]
      /\ own' = [own EXCEPT ![o] = r] /\ len' = [len EXCEPT ![o] = n]
      /\ streamed' = IF that \in streamed THEN streamed \cup {o} ELSE streamed \ {o}
      /\ UNCHANGED <<copied, alias, six>>
    BY DEF Addresses!CopySs, Addresses!Streamed
<1>2. r \in SockAddr /\ n \in {0, 16, 28, 46} /\ (n = 46 => six)
    BY <1>1, AddrKnown
<1>3. n <= Addresses!Size(o) /\ o \notin V4 /\ o \notin V6 /\ o \notin View
    BY <1>1, <1>2, Sizes, AddrConstants
<1>4. alias \/ o \in streamed' \/ FitsFamily(o, r.fam, n)
    BY <1>1, <1>3, AddrKnown DEF FitsFamily
<1>5. addrCrash' \in {None, "assert"}
    BY DEF Addresses!CopySs
<1>6. /\ streamed' \subseteq Ss /\ (o \in streamed' => n = 0)
      /\ \A p : p # o => (p \in streamed' <=> p \in streamed)
    BY <1>1, AddrKnown
<1> HIDE DEF r, n
<1> QED
    BY <1>1, <1>2, <1>3, <1>4, <1>5, <1>6, AddrBegins

\* A default copy: nothing is said of families any more.
LEMMA AddrCopies ==
    ASSUME AddrInv, NEW o \in Addresses!Storage, NEW that \in Addresses!Storage,
           Addresses!Copy(o, that), addrCrash = None
    PROVE  AddrInv'
<1> USE AddrKnown
<1>1. /\ addrLife[that] = "live" /\ ptr[that] \in Addresses!Storage
      /\ o \in V4 => that \in V4
      /\ o \notin Ss
      /\ \A p \in Addresses!Storage :
            /\ own'[p] = IF p = o /\ o \notin View THEN own[that] ELSE own[p]
            /\ len'[p] = IF p = o THEN len[that] ELSE len[p]
            /\ ptr'[p] = IF p = o THEN ptr[that] ELSE ptr[p]
            /\ addrLife'[p] = IF p = o THEN "live" ELSE addrLife[p]
      /\ copied' = copied \cup {o} /\ alias' = TRUE
      /\ UNCHANGED <<streamed, six, addrCrash>>
    BY AddrConstants DEF Addresses!Copy
<1>2. Addresses!TypeOK'
    <2>1. /\ own' \in [Addresses!Storage -> SockAddr]
          /\ len' \in [Addresses!Storage -> {0, 16, 28, 46}]
          /\ addrLife' \in [Addresses!Storage -> {"raw", "live"}]
          /\ ptr' \in [Addresses!Storage -> Addresses!Storage \cup {None}]
        BY DEF Addresses!Copy
    <2> QED
        BY <1>1, <2>1 DEF Addresses!TypeOK, SockAddr
<1>3. Addresses!ShowsItsOwn' /\ Addresses!FitsWithoutSix'
    BY <1>1 DEF AddrInv, Addresses!ShowsItsOwn, Addresses!FitsWithoutSix
<1>4. Lengths'
    <2>1. \A p \in Addresses!Storage : len'[p] = 46 => six
        BY <1>1
    <2>2. /\ \A p \in V4 : len'[p] <= 16 /\ own'[p].fam # "v6"
          /\ \A p \in streamed' : len'[p] = 0
        BY <1>1, AddrConstants
    <2>3. ASSUME NEW p \in Addresses!Storage, addrLife'[p] = "live"
          PROVE  /\ ptr'[p] # None /\ (p \in Ss => ptr'[p] = p)
                 /\ len'[p] <= Addresses!Size(ptr'[p]) \/ six
        <3>1. CASE p = o
            BY <1>1, <3>1, AddrConstants
        <3>2. CASE p # o
            BY <1>1, <2>3, <3>2
        <3> QED
            BY <3>1, <3>2
    <2> QED
        BY <1>1, <2>1, <2>2, <2>3 DEF Lengths, Addresses!Size
<1>5. NoViews' /\ PerFamily'
    BY <1>1 DEF NoViews, PerFamily
<1> QED
    BY <1>2, <1>3, <1>4, <1>5 DEF AddrInv

LEMMA AddrDestructs ==
    ASSUME AddrInv, NEW o \in Addresses!Storage, Addresses!Destruct(o),
           addrCrash = None
    PROVE  AddrInv'
<1> USE AddrKnown
<1>1. Addresses!Zero \in SockAddr /\ Addresses!Zero.fam = "none"
    <2>1. 0 \in Addresses!Short
        BY DEF Addresses!Short
    <2> QED
        BY <2>1 DEF Addresses!Zero, SockAddr
<1>2. /\ own' \in [Addresses!Storage -> SockAddr]
      /\ len' \in [Addresses!Storage -> {0, 16, 28, 46}]
      /\ addrLife' \in [Addresses!Storage -> {"raw", "live"}]
      /\ ptr' \in [Addresses!Storage -> Addresses!Storage \cup {None}]
      /\ \A p \in Addresses!Storage :
            /\ own'[p] = IF p = o THEN Addresses!Zero ELSE own[p]
            /\ len'[p] = IF p = o THEN 0 ELSE len[p]
            /\ p # o => ptr'[p] = ptr[p]
            /\ addrLife'[p] = IF p = o THEN "raw" ELSE addrLife[p]
      /\ streamed' = streamed \ {o} /\ copied' = copied \ {o}
      /\ UNCHANGED <<alias, six, addrCrash>>
    BY <1>1 DEF Addresses!Destruct
<1>3. Addresses!TypeOK'
    BY <1>2 DEF Addresses!TypeOK, SockAddr
<1>4. Addresses!ShowsItsOwn' /\ Addresses!FitsWithoutSix'
    BY <1>2 DEF AddrInv, Addresses!ShowsItsOwn, Addresses!FitsWithoutSix
<1>5. Lengths'
    <2>1. \A p \in Addresses!Storage : len'[p] = 46 => six
        BY <1>2
    <2>2. /\ \A p \in V4 : len'[p] <= 16 /\ own'[p].fam # "v6"
          /\ \A p \in streamed' : len'[p] = 0
        BY <1>1, <1>2, AddrConstants
    <2>3. \A p \in Addresses!Storage : addrLife'[p] = "live" =>
            /\ ptr'[p] # None /\ (p \in Ss => ptr'[p] = p)
            /\ len'[p] <= Addresses!Size(ptr'[p]) \/ six
        BY <1>2
    <2> QED
        BY <1>2, <2>1, <2>2, <2>3 DEF Lengths, Addresses!Size
<1>6. NoViews'
    BY <1>2, AddrConstants DEF NoViews
<1>7. PerFamily'
    <2>1. CASE alias
        BY <1>2, <2>1 DEF PerFamily
    <2>2. CASE ~alias
        <3>1. \A p \in Addresses!Storage :
                addrLife'[p] = "live" /\ p \notin streamed'
                    => FitsFamily(p, own'[p].fam, len'[p])
            BY <1>2, <2>2
        <3> QED
            BY <3>1 DEF PerFamily, FitsFamily
    <2> QED
        BY <2>1, <2>2
<1> QED
    BY <1>3, <1>4, <1>5, <1>6, <1>7 DEF AddrInv

\* assign() of another address.
LEMMA AddrFrom ==
    ASSUME AddrInv, NEW o \in Addresses!Storage, NEW that \in Addresses!Storage,
           NEW p \in Port, Addresses!From(o, that, p), addrCrash = None
    PROVE  AddrInv'
<1> USE AddrKnown
<1>1. /\ o \notin View /\ addrLife[o] = "live" /\ addrLife[that] = "live"
      /\ Addresses!Assigned(o, that, p)
      /\ six' = (six \/ o \in V6)
      /\ UNCHANGED <<addrLife, copied, alias>>
    BY DEF Addresses!From
<1>2. ptr[that] \in Addresses!Storage /\ p \in Nat
    BY <1>1, AddrConstants
<1>3. six' \in BOOLEAN /\ (six => six')
    BY <1>1
<1>4. CASE UNCHANGED <<own, ptr, len, streamed>> /\ addrCrash' \in {None, "dangling", "assert"}
    <2>1. /\ addrCrash' \in {None, "dangling", "assert", "overread", "overrun"}
          /\ addrCrash' \in {"overread", "overrun"} => six'
        BY <1>4, AddrConstants
    <2> QED
        BY <1>1, <1>3, <1>4, <2>1, AddrStays
<1>5. CASE len[that] > 0 /\ Addresses!Accepts(o, that) /\ Addresses!Take(o, that, p)
    <2> DEFINE from == own[ptr[that]]
               r == Addresses!SetPort(from, p)
               n == IF o \in V6 THEN 46 ELSE len[that]
    <2>1. from \in SockAddr
        BY <1>2
    <2>2. r \in SockAddr /\ r.fam = from.fam
        <3>1. from.fam \in {"none", "v4", "v6"} /\ from.host \in Host \cup {None}
            BY <2>1 DEF SockAddr
        <3>2. /\ Addresses!Record(from.fam, from.host, p) \in SockAddr
              /\ Addresses!Record(from.fam, from.host, p).fam = from.fam
            BY <1>2, <3>1, Records
        <3> HIDE DEF from
        <3> QED
            BY <2>1, <3>2 DEF Addresses!SetPort
    <2>3. /\ own' = [own EXCEPT ![o] = r] /\ len' = [len EXCEPT ![o] = n]
          /\ streamed' = streamed \ {o} /\ UNCHANGED ptr
        <3>1. o \in V6 => Addresses!Capacity(o) = 46
            BY Sizes
        <3> QED
            BY <1>5, <3>1 DEF Addresses!Take, Addresses!Shown
    <2>4. n \in {0, 16, 28, 46} /\ (n = 46 => six') /\ (o \in V6 => six')
        BY <1>1
    <2>5. o \in V4 => len[that] <= 16 /\ from.fam = "v4" /\ n = len[that]
        BY <1>5, Sizes, AddrConstants
        DEF Addresses!Accepts, Addresses!Shown, Addresses!Family
    <2>6. o \in V6 => from.fam = "v6" /\ n = 46
        BY <1>5, AddrConstants
        DEF Addresses!Accepts, Addresses!Shown, Addresses!Family
    <2>7. n <= Addresses!Size(ptr[o]) \/ six'
        <3>1. CASE o \in V4
            <4>1. Addresses!Size(ptr[o]) \in {16, 28, 128}
                BY Sizes
            <4> QED
                BY <2>5, <3>1, <4>1
        <3>2. CASE o \in V6
            BY <2>4, <3>2
        <3>3. CASE o \in Ss
            <4>1. Addresses!Size(ptr[o]) = 128
                BY <1>1, <3>3, Sizes
            <4> QED
                BY <2>4, <4>1
        <3> QED
            BY <1>1, <3>1, <3>2, <3>3, AddrConstants
    <2>8. alias \/ FitsFamily(o, r.fam, n)
        <3>1. CASE alias
            BY <3>1
        <3>2. CASE ~alias
            <4>1. ptr[that] = that /\ FitsFamily(that, own[that].fam, len[that])
                BY <1>1, <1>5, <3>2
            <4>2. r.fam = own[that].fam /\ r.fam \in {"none", "v4", "v6"}
                BY <2>1, <2>2, <4>1 DEF SockAddr
            <4> HIDE DEF r, from
            <4>3. CASE o \in V6
                BY <2>2, <2>6, <4>3 DEF FitsFamily
            <4>4. CASE o \notin V6
                BY <4>1, <4>2, <4>4 DEF FitsFamily
            <4> QED
                BY <4>3, <4>4
        <3> QED
            BY <3>1, <3>2
    <2>9. /\ addrCrash' \in {None, "overread", "overrun"}
          /\ addrCrash' \in {"overread", "overrun"} => six'
        <3>1. addrCrash' = IF len[that] > Addresses!Size(ptr[that]) THEN "overread"
                           ELSE IF len[that] > Addresses!Size(o) THEN "overrun" ELSE None
            BY <1>5 DEF Addresses!Take
        <3>2. len[that] > Addresses!Size(ptr[that]) => six'
            <4>1. Addresses!Size(ptr[that]) \in {16, 28, 128} /\ len[that] \in {0, 16, 28, 46}
                BY Sizes
            <4>2. len[that] <= Addresses!Size(ptr[that]) \/ six
                BY <1>1
            <4> QED
                BY <1>3, <4>1, <4>2
        <3>3. len[that] > Addresses!Size(o) => six'
            <4>1. CASE o \in V4
                BY <2>5, <4>1, Sizes
            <4>2. CASE o \in V6
                BY <2>4, <4>2
            <4>3. CASE o \in Ss
                BY <4>3, Sizes
            <4> QED
                BY <1>1, <4>1, <4>2, <4>3, AddrConstants
        <3> QED
            BY <3>1, <3>2, <3>3, AddrConstants
    <2>10. o \in V4 => n <= 16 /\ r.fam # "v6"
        BY <2>2, <2>5
    <2> HIDE DEF from, r, n
    <2>11. addrCrash' \in {None, "dangling", "assert", "overread", "overrun"}
        BY <2>9
    <2>12. /\ streamed' \subseteq Ss /\ (o \in streamed' => n = 0)
           /\ \A q : q # o => (q \in streamed' <=> q \in streamed)
           /\ alias \/ o \in streamed' \/ FitsFamily(o, r.fam, n)
        BY <2>3, <2>8
    <2> QED
        BY ONLY AddrInv, <1>1, <1>3, <2>2, <2>3, <2>4, <2>7, <2>8, <2>9, <2>10, <2>11, <2>12, AddrSets
<1> QED
    BY <1>1, <1>4, <1>5 DEF Addresses!Assigned

\* A v4::addr or a v6::addr is given a host and a port.
LEMMA AddrGets ==
    ASSUME AddrInv, NEW o \in V4 \cup V6, NEW h \in Host, NEW q \in Nat,
           addrLife[o] = "live",
           own' = [own EXCEPT ![o] = Addresses!Record(Addresses!Family(o), h, q)],
           len' = [len EXCEPT ![o] = Addresses!Capacity(o)],
           six' = (six \/ o \in V6),
           UNCHANGED <<addrLife, ptr, streamed, copied, alias, addrCrash>>,
           addrCrash = None
    PROVE  AddrInv'
<1> DEFINE f == Addresses!Family(o)
           r == Addresses!Record(f, h, q)
           n == Addresses!Capacity(o)
<1>1. o \in Addresses!Storage /\ f \in {"v4", "v6"}
    BY AddrConstants DEF Addresses!Family
<1>2. r \in SockAddr /\ r.fam = f
    BY <1>1, Records
<1>3. Addresses!Size(ptr[o]) \in {16, 28, 128}
    BY Sizes
<1>4. \/ o \in V4 /\ o \notin V6 /\ f = "v4" /\ n = 16
      \/ o \in V6 /\ o \notin V4 /\ f = "v6" /\ n = 46
    BY AddrConstants, Sizes DEF Addresses!Family
<1>5. own' = [own EXCEPT ![o] = r] /\ len' = [len EXCEPT ![o] = n]
    OBVIOUS
<1>6. six' \in BOOLEAN /\ (six => six') /\ (o \in V6 => six')
    <2>1. CASE o \in V6
        BY <2>1
    <2>2. CASE o \notin V6
        BY <2>2, AddrKnown
    <2> QED
        BY <2>1, <2>2
<1> HIDE DEF f, r, n
<1>7. /\ n \in {0, 16, 28, 46} /\ (n = 46 => six')
      /\ o \in V4 => n <= 16 /\ r.fam # "v6"
      /\ n <= Addresses!Size(ptr[o]) \/ six'
      /\ alias \/ FitsFamily(o, r.fam, n)
    <2>1. CASE o \in V4 /\ o \notin V6 /\ f = "v4" /\ n = 16
        <3>1. 16 <= Addresses!Size(ptr[o])
            BY <1>3
        <3> QED
            BY <1>2, <2>1, <3>1 DEF FitsFamily
    <2>2. CASE o \in V6 /\ o \notin V4 /\ f = "v6" /\ n = 46
        BY <1>2, <1>6, <2>2 DEF FitsFamily
    <2> QED
        BY <1>4, <2>1, <2>2
<1>8. /\ addrCrash' \in {None, "dangling", "assert", "overread", "overrun"}
      /\ addrCrash' \in {"overread", "overrun"} => six'
    BY AddrConstants
<1>9. addrLife[o] = "live" /\ UNCHANGED <<addrLife, ptr, copied, alias>>
    OBVIOUS
<1>10. /\ streamed' \subseteq Ss /\ o \notin streamed'
       /\ \A p : p # o => (p \in streamed' <=> p \in streamed)
    BY AddrKnown, AddrConstants
<1> QED
    BY ONLY AddrInv, <1>1, <1>2, <1>5, <1>6, <1>7, <1>8, <1>9, <1>10, AddrSets

\* A sock_addr gets an address of the family f, or none.
LEMMA AddrGetsSs ==
    ASSUME AddrInv, NEW o \in Addresses!Storage, NEW r \in SockAddr,
           NEW n \in {0, 16, 28, 46},
           Addresses!Becomes(o, r, n), FitsFamily(o, r.fam, n), n # 46,
           UNCHANGED <<addrLife, ptr, copied, alias, six, addrCrash>>, addrCrash = None
    PROVE  AddrInv'
<1>1. /\ o \in Ss /\ o \notin V4 /\ addrLife[o] = "live"
      /\ own' = [own EXCEPT ![o] = r] /\ len' = [len EXCEPT ![o] = n]
      /\ streamed' = streamed \ {o}
    BY AddrConstants DEF Addresses!Becomes
<1>2. ptr[o] = o /\ six \in BOOLEAN /\ streamed \subseteq Ss
    BY <1>1, AddrKnown
<1>3. Addresses!Size(ptr[o]) = 128
    BY <1>1, <1>2, Sizes
<1>4. /\ n <= Addresses!Size(ptr[o]) \/ six'
      /\ six' \in BOOLEAN /\ (six => six') /\ (n = 46 => six')
      /\ o \in V4 => n <= 16 /\ r.fam # "v6"
      /\ streamed' \subseteq Ss /\ o \notin streamed'
      /\ \A p : p # o => (p \in streamed' <=> p \in streamed)
    BY <1>1, <1>2, <1>3
<1>5. /\ addrCrash' \in {None, "dangling", "assert", "overread", "overrun"}
      /\ addrCrash' \in {"overread", "overrun"} => six'
    BY AddrConstants
<1> QED
    BY <1>1, <1>4, <1>5, AddrSets

\* recvfrom() on a stream takes the length.
LEMMA AddrStreams ==
    ASSUME AddrInv, NEW o \in Addresses!Storage, Addresses!ReceiveStream(o),
           addrCrash = None
    PROVE  AddrInv'
<1>1. /\ o \in Ss /\ o \notin V4 /\ addrLife[o] = "live"
      /\ len' = [len EXCEPT ![o] = 0] /\ streamed' = streamed \cup {o}
      /\ UNCHANGED <<addrLife, ptr, own, copied, alias, six, addrCrash>>
    BY AddrConstants DEF Addresses!ReceiveStream
<1>2. /\ own' = [own EXCEPT ![o] = own[o]] /\ own[o] \in SockAddr
      /\ six \in BOOLEAN /\ streamed \subseteq Ss /\ ptr[o] = o
    BY <1>1, AddrKnown
<1>3. 0 <= Addresses!Size(ptr[o])
    BY Sizes
<1>4. /\ 0 \in {0, 16, 28, 46} /\ (0 = 46 => six') /\ six' \in BOOLEAN
      /\ six => six' /\ o \in streamed'
      /\ o \in V4 => 0 <= 16 /\ own[o].fam # "v6"
      /\ streamed' \subseteq Ss
      /\ \A p : p # o => (p \in streamed' <=> p \in streamed)
    BY <1>1, <1>2
<1>5. /\ addrCrash' \in {None, "dangling", "assert", "overread", "overrun"}
      /\ addrCrash' \in {"overread", "overrun"} => six'
    BY <1>1, AddrConstants
<1> QED
    BY <1>1, <1>2, <1>3, <1>4, <1>5, AddrSets

LEMMA AddrInductive == AddrInv /\ [Addresses!Next]_addrVars => AddrInv'
<1> SUFFICES ASSUME AddrInv, [Addresses!Next]_addrVars PROVE AddrInv'
    OBVIOUS
<1> USE AddrKnown
<1>1. CASE UNCHANGED addrVars
    <2>1. /\ addrCrash \in {None, "dangling", "assert", "overread", "overrun"}
          /\ addrCrash \in {"overread", "overrun"} => six
        BY DEF AddrInv, Addresses!TypeOK, Addresses!FitsWithoutSix
    <2> QED
        BY <1>1, <2>1, AddrStays DEF addrVars
<1>2. CASE Addresses!Next
    <2> USE <1>2
    <2>1. addrCrash = None
        BY DEF Addresses!Next
    <2>2. PICK o \in Addresses!Storage :
            \/ Addresses!Make(o) \/ Addresses!Destruct(o)
            \/ Addresses!Clear(o) \/ Addresses!ReceiveStream(o) \/ Addresses!ToText(o)
            \/ \E that \in Addresses!Storage :
                \/ Addresses!Copy(o, that) \/ Addresses!CopySs(o, that)
                \/ \E p \in Port : Addresses!From(o, that, p)
            \/ \E h \in Host, p \in Port :
                \/ Addresses!FromHost(o, h, p)
                \/ \E q \in Port : Addresses!FromText(o, h, p, q)
                \/ \E f \in {"v4", "v6"} :
                    Addresses!FromSsText(o, f, h, p) \/ Addresses!Receive(o, f, h, p)
            \/ \E q \in Port : Addresses!Localhost(o, q)
        BY DEF Addresses!Next
    <2>3. CASE Addresses!Clear(o)
        <3>1. Addresses!Zero \in SockAddr /\ Addresses!Zero.fam = "none"
            <4>1. 0 \in Addresses!Short
                BY DEF Addresses!Short
            <4> QED
                BY <4>1 DEF Addresses!Zero, SockAddr
        <3>2. FitsFamily(o, Addresses!Zero.fam, 0)
            BY <3>1 DEF FitsFamily
        <3> QED
            <4>1. /\ Addresses!Becomes(o, Addresses!Zero, 0)
                  /\ UNCHANGED <<addrLife, ptr, copied, alias, six, addrCrash>>
                  /\ 0 \in {0, 16, 28, 46} /\ 0 # 46
                BY <2>3 DEF Addresses!Clear
            <4> QED
                BY <2>1, <3>1, <3>2, <4>1, AddrGetsSs
    <2>4. CASE Addresses!ToText(o)
        <3>1. addrCrash' \in {None, "dangling", "assert", "overrun"}
            BY <2>4 DEF Addresses!ToText
        <3>2. addrCrash' = "overrun" => six
            <4> SUFFICES ASSUME addrCrash' = "overrun" PROVE six
                OBVIOUS
            <4>1. len[o] > 28
                BY <2>4, AddrConstants DEF Addresses!ToText
            <4>2. len[o] \in {0, 16, 28, 46} /\ (len[o] = 46 => six)
                OBVIOUS
            <4> QED
                BY <4>1, <4>2
        <3>3. /\ addrCrash' \in {None, "dangling", "assert", "overread", "overrun"}
              /\ addrCrash' \in {"overread", "overrun"} => six
            BY <3>1, <3>2, AddrConstants
        <3>4. UNCHANGED <<addrLife, ptr, len, own, streamed, copied, alias, six>>
            BY <2>4 DEF Addresses!ToText
        <3> QED
            BY <3>3, <3>4, AddrStays
    <2>5. ASSUME NEW that \in Addresses!Storage,
                 \/ Addresses!Copy(o, that) \/ Addresses!CopySs(o, that)
                 \/ \E p \in Port : Addresses!From(o, that, p)
          PROVE  AddrInv'
        BY <2>1, <2>5, AddrCopies, AddrCopiesSs, AddrFrom
    <2>6. ASSUME NEW h \in Host, NEW p \in Port, Addresses!FromHost(o, h, p)
          PROVE  AddrInv'
        <3> DEFINE q == IF p = 0 THEN own[o].port ELSE p
        <3>1. o \in V4 \cup V6
            BY <2>6 DEF Addresses!FromHost
        <3>2. q \in Nat
            <4>1. own[o] \in SockAddr /\ p \in Nat
                BY AddrConstants
            <4>2. own[o].port \in Addresses!Short
                BY <4>1 DEF SockAddr
            <4>3. own[o].port \in Nat
                BY <4>2, ShortIsNat
            <4> QED
                BY <4>1, <4>3
        <3>3. /\ own' = [own EXCEPT ![o] = Addresses!Record(Addresses!Family(o), h, q)]
              /\ len' = [len EXCEPT ![o] = Addresses!Capacity(o)]
              /\ six' = (six \/ o \in V6) /\ addrLife[o] = "live"
              /\ UNCHANGED <<addrLife, ptr, streamed, copied, alias, addrCrash>>
            BY <2>6 DEF Addresses!FromHost
        <3> HIDE DEF q
        <3> QED
            BY <2>1, <3>1, <3>2, <3>3, AddrGets
    <2>7. ASSUME NEW h \in Host, NEW p \in Port, NEW q \in Port,
                 Addresses!FromText(o, h, p, q)
          PROVE  AddrInv'
        <3> DEFINE port == Addresses!Parsed(p, q)
        <3>1. port \in Nat
            BY AddrConstants DEF Addresses!Parsed
        <3>2. /\ o \in V4 \cup V6
              /\ own' = [own EXCEPT ![o] = Addresses!Record(Addresses!Family(o), h, port)]
              /\ len' = [len EXCEPT ![o] = Addresses!Capacity(o)]
              /\ six' = (six \/ o \in V6) /\ addrLife[o] = "live"
              /\ UNCHANGED <<addrLife, ptr, streamed, copied, alias, addrCrash>>
            BY <2>7 DEF Addresses!FromText
        <3> HIDE DEF port
        <3> QED
            BY <2>1, <3>1, <3>2, AddrGets
    <2>8. ASSUME NEW h \in Host, NEW p \in Port, NEW f \in {"v4", "v6"},
                 Addresses!FromSsText(o, f, h, p) \/ Addresses!Receive(o, f, h, p)
          PROVE  AddrInv'
        <3> DEFINE r == Addresses!Record(f, h, p)
                   n == Addresses!Bytes(f)
        <3>1. /\ Addresses!Becomes(o, r, n)
              /\ UNCHANGED <<addrLife, ptr, copied, alias, six, addrCrash>>
            <4>1. CASE Addresses!FromSsText(o, f, h, p)
                BY <4>1 DEF Addresses!FromSsText
            <4>2. CASE Addresses!Receive(o, f, h, p)
                BY <4>2 DEF Addresses!Receive
            <4> QED
                BY <2>8, <4>1, <4>2
        <3>2. r \in SockAddr /\ r.fam = f
            BY AddrConstants, Records
        <3>3. o \notin V6
            BY <3>1, AddrConstants DEF Addresses!Becomes
        <3>4. n \in {0, 16, 28, 46} /\ n # 46 /\ FitsFamily(o, r.fam, n)
            BY <3>2, <3>3 DEF FitsFamily, Addresses!Bytes
        <3> HIDE DEF r, n
        <3> QED
            BY <2>1, <3>1, <3>2, <3>4, AddrGetsSs
    <2>9. ASSUME NEW q \in Port, Addresses!Localhost(o, q) PROVE AddrInv'
        <3>1. CASE q < 65536
            <4> DEFINE r == Addresses!Record("v4", Loop, q)
            <4>1. /\ Addresses!Becomes(o, r, 16)
                  /\ UNCHANGED <<addrLife, ptr, copied, alias, six, addrCrash>>
                BY <2>9, <3>1 DEF Addresses!Localhost
            <4>2. r \in SockAddr /\ r.fam = "v4"
                BY AddrConstants, Records
            <4>3. o \notin V6
                BY <4>1, AddrConstants DEF Addresses!Becomes
            <4>4. 16 \in {0, 16, 28, 46} /\ 16 # 46 /\ FitsFamily(o, r.fam, 16)
                BY <4>2, <4>3 DEF FitsFamily
            <4> HIDE DEF r
            <4> QED
                BY <2>1, <4>1, <4>2, <4>4, AddrGetsSs
        <3>2. CASE ~(q < 65536)
            <4>1. /\ addrCrash' = "assert"
                  /\ UNCHANGED <<addrLife, ptr, len, own, streamed, copied, alias, six>>
                BY <2>9, <3>2 DEF Addresses!Localhost
            <4> QED
                BY <4>1, AddrStays
        <3> QED
            BY <3>1, <3>2
    <2> QED
        BY <2>1, <2>2, <2>3, <2>4, <2>5, <2>6, <2>7, <2>8, <2>9, AddrMakes,
           AddrDestructs, AddrStreams
<1> QED
    BY <1>1, <1>2

\* An assign() from a live address, which is its own, does what it says to o.
LEMMA FromLive ==
    ASSUME AddrInv, copied = {}, NEW o \in Addresses!Storage,
           NEW that \in Addresses!Storage, NEW p \in Port,
           Addresses!From(o, that, p), addrCrash = None
    PROVE  /\ addrCrash' # "dangling"
           /\ \A q \in Addresses!Storage \ {o} : own'[q] = own[q]
<1>1. addrLife[that] = "live" /\ ptr[that] = that
    BY AddrKnown DEF Addresses!From
<1>2. Addresses!Assigned(o, that, p)
    BY DEF Addresses!From
<1>3. CASE Addresses!Take(o, that, p)
    BY <1>3, AddrConstants, AddrKnown DEF Addresses!Take
<1>4. CASE own' = own /\ addrCrash' \in {addrCrash, "assert"}
    BY <1>4, AddrConstants
<1> QED
    BY <1>1, <1>2, <1>3, <1>4 DEF Addresses!Assigned

LEMMA AddrValues ==
    ASSUME AddrInv, AddrInv', [Addresses!Next]_addrVars
    PROVE  [Addresses!ChangesOne]_addrVars
<1> SUFFICES ASSUME Addresses!Next, copied = {}, copied' = {}
             PROVE  /\ addrCrash' # "dangling"
                    /\ \A a, b \in Addresses!Storage :
                        /\ addrLife[a] = "live" /\ addrLife'[a] = "live"
                        /\ Addresses!Shown(a)' # Addresses!Shown(a)
                        /\ addrLife[b] = "live" /\ addrLife'[b] = "live"
                        /\ Addresses!Shown(b)' # Addresses!Shown(b)
                        => a = b
    BY DEF Addresses!ChangesOne
<1>1. addrCrash = None
    BY DEF Addresses!Next
<1>2. /\ \A a \in Addresses!Storage : addrLife[a] = "live" => ptr[a] = a
      /\ \A a \in Addresses!Storage : addrLife'[a] = "live" => ptr'[a] = a
    BY DEF AddrInv, Addresses!ShowsItsOwn
<1>3. PICK o \in Addresses!Storage :
        \/ Addresses!Make(o) \/ Addresses!Destruct(o)
        \/ Addresses!Clear(o) \/ Addresses!ReceiveStream(o) \/ Addresses!ToText(o)
        \/ \E that \in Addresses!Storage :
            \/ Addresses!Copy(o, that) \/ Addresses!CopySs(o, that)
            \/ \E p \in Port : Addresses!From(o, that, p)
        \/ \E h \in Host, p \in Port :
            \/ Addresses!FromHost(o, h, p)
            \/ \E q \in Port : Addresses!FromText(o, h, p, q)
            \/ \E f \in {"v4", "v6"} :
                Addresses!FromSsText(o, f, h, p) \/ Addresses!Receive(o, f, h, p)
        \/ \E q \in Port : Addresses!Localhost(o, q)
    BY DEF Addresses!Next
<1> DEFINE Does ==
        addrCrash' # "dangling" /\ \A q \in Addresses!Storage \ {o} : own'[q] = own[q]
<1>4. Does
    <2> USE <1>1, AddrConstants, AddrKnown
    <2>1. CASE \/ Addresses!Make(o) \/ Addresses!Destruct(o) \/ Addresses!Clear(o)
               \/ Addresses!ReceiveStream(o)
        BY <2>1 DEF Addresses!Make, Addresses!Destruct, Addresses!Clear,
                    Addresses!ReceiveStream, Addresses!Becomes
    <2>2. CASE Addresses!ToText(o)
        BY <1>2, <2>2 DEF Addresses!ToText
    <2>3. ASSUME NEW that \in Addresses!Storage, Addresses!Copy(o, that) PROVE Does
        BY <2>3 DEF Addresses!Copy
    <2>4. ASSUME NEW that \in Addresses!Storage, Addresses!CopySs(o, that) PROVE Does
        BY <2>4 DEF Addresses!CopySs
    <2>5. ASSUME NEW that \in Addresses!Storage, NEW p \in Port,
                 Addresses!From(o, that, p)
          PROVE  Does
        BY <2>5, FromLive
    <2>6. ASSUME NEW h \in Host, NEW p \in Port,
                 \/ Addresses!FromHost(o, h, p)
                 \/ \E q \in Port : Addresses!FromText(o, h, p, q)
          PROVE  Does
        BY <2>6 DEF Addresses!FromHost, Addresses!FromText
    <2>7. ASSUME NEW h \in Host, NEW p \in Port, NEW f \in {"v4", "v6"},
                 Addresses!FromSsText(o, f, h, p) \/ Addresses!Receive(o, f, h, p)
          PROVE  Does
        BY <2>7 DEF Addresses!FromSsText, Addresses!Receive, Addresses!Becomes
    <2>8. ASSUME NEW q \in Port, Addresses!Localhost(o, q) PROVE Does
        BY <2>8 DEF Addresses!Localhost, Addresses!Becomes
    <2> HIDE DEF Does
    <2> QED
        BY <1>3, <2>1, <2>2, <2>3, <2>4, <2>5, <2>6, <2>7, <2>8
<1>5. ASSUME NEW a \in Addresses!Storage, addrLife[a] = "live", addrLife'[a] = "live",
             Addresses!Shown(a)' # Addresses!Shown(a)
      PROVE  a = o
    <2>1. Addresses!Shown(a) = own[a] /\ Addresses!Shown(a)' = own'[a]
        BY <1>2, <1>5 DEF Addresses!Shown
    <2> QED
        BY <1>4, <1>5, <2>1
<1> QED
    BY <1>4, <1>5

-----------------------------------------------------------------------------
(* The four components, of which a behaviour of PartsSpec shows one.         *)

PartsInv == IInv /\ SockInv /\ AddrInv /\ DnsInv

LEMMA PartsStep ==
    ASSUME [PartsNext]_<<part, vars, sockVars, addrVars, dnsVars>>
    PROVE  /\ [Next]_vars /\ [Sockets!Next]_sockVars
           /\ [Addresses!Next]_addrVars /\ [DnsBases!Next]_dnsVars
<1>1. CASE UNCHANGED <<part, vars, sockVars, addrVars, dnsVars>>
    BY <1>1
<1>2. CASE PartsNext
    BY <1>2 DEF PartsNext
<1> QED
    BY <1>1, <1>2

THEOREM PartsInvariance == PartsSpec => []PartsInv
<1>1. PartsInit => PartsInv
    BY AcceptorInitially, SockInitially, AddrInitially, DnsInitially
    DEF PartsInit, PartsInv
<1>2. PartsInv /\ [PartsNext]_<<part, vars, sockVars, addrVars, dnsVars>> => PartsInv'
    BY PartsStep, AcceptorInductive, SockInductive, AddrInductive, DnsInductive
    DEF PartsInv
<1> QED
    BY <1>1, <1>2, PTL DEF PartsSpec

\* Whatever is called in whatever order, the variables of the acceptors, the
\* sockets, the addresses and the dns objects hold values of their types: a
\* port fits its 16 bits (ipv4/addr.hpp:80-143), a file has a number.
THEOREM PartsTypesCorrect == PartsSpec => []TypesOK
<1>1. PartsInv => TypesOK
    BY DEF PartsInv, IInv, SockInv, AddrInv, DnsInv, TypesOK
<1> QED
    BY <1>1, PartsInvariance, PTL

\* For any number of sockets, descriptors and files: an open file has an object
\* unless one was detached or overwritten, and no object closes or uses the file
\* of another unless a descriptor was copied (socket.hpp:12-16, 76-126, 185-188).
THEOREM FilesBelong == PartsSpec => []DescriptorsKept
<1>1. PartsInv => DescriptorsKept
    BY DEF PartsInv, SockInv, DescriptorsKept
<1> QED
    BY <1>1, PartsInvariance, PTL

\* For any number of queues and dns objects, in any order of moves, assign()s
\* and destroy()s: an event_base or an evdns_base has one live owner until it is
\* freed, or was forgotten, and an evdns_base outlives its event_base only when
\* an assignment gave it to another object, or the event_base was moved from its
\* queue or destroyed after it was made (dns.hpp:40-76, queue.hpp:38-92).
THEOREM BasesFreedInTime == PartsSpec => []FreedInTime
<1>1. PartsInv => FreedInTime
    BY DnsInTime DEF PartsInv, FreedInTime
<1> QED
    BY <1>1, PartsInvariance, PTL

\* For any number of addresses of the four classes: one that is not a default
\* copy points at its own storage, its length is that of its family, or the zero
\* that recvfrom() was told on a stream and nothing assigned since, and
\* nothing is copied or read past the end of a storage before a v6::addr was
\* given an address (ipv4/addr.hpp:65-119, ipv6/addr.hpp:15, 75-117,
\* sock_addr.hpp:21-68).
THEOREM AddressesKeepShape == PartsSpec => []ShapeKept
<1>1. ASSUME AddrInv PROVE Addresses!LengthOfFamily
    <2> SUFFICES ASSUME NEW o \in V4 \cup Ss, addrLife[o] = "live", ~alias
                 PROVE  CASE own[o].fam = "none" \/ o \in streamed -> len[o] = 0
                          [] own[o].fam = "v4" /\ o \notin streamed -> len[o] = 16
                          [] own[o].fam = "v6" /\ o \notin streamed ->
                                len[o] = 28 \/ (len[o] = 46 /\ six)
        BY DEF Addresses!LengthOfFamily
    <2>1. o \in Addresses!Storage
        BY AddrConstants
    <2>2. /\ IF o \in streamed THEN len[o] = 0 ELSE FitsFamily(o, own[o].fam, len[o])
          /\ own[o] \in SockAddr /\ (len[o] = 46 => six)
        BY <1>1, <2>1, AddrKnown
    <2>3. own[o].fam \in {"none", "v4", "v6"}
        BY <2>2 DEF SockAddr
    <2> QED
        BY <2>2, <2>3 DEF FitsFamily
<1>2. PartsInv => ShapeKept
    BY <1>1 DEF PartsInv, AddrInv, ShapeKept, Addresses!ShapeKept
<1> QED
    BY <1>2, PartsInvariance, PTL

\* Without default copies, any number of addresses are values: a step changes
\* what one of them shows, and none meets a storage that has gone
\* (ipv4/addr.hpp:80-143, sock_addr.hpp:58-94).
THEOREM AddressesAreValues == PartsSpec => Values
<1>1. /\ PartsInv /\ PartsInv'
      /\ [PartsNext]_<<part, vars, sockVars, addrVars, dnsVars>>
      => [Addresses!ChangesOne]_addrVars
    BY PartsStep, AddrValues DEF PartsInv
<1>2. PartsSpec => [][Addresses!ChangesOne]_addrVars
    BY <1>1, PartsInvariance, PTL DEF PartsSpec
<1> QED
    BY <1>2, PTL DEF Values, Addresses!Values, addrVars, Addresses!vars
=============================================================================
