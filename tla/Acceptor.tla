------------------------------ MODULE Acceptor ------------------------------
(***************************************************************************)
(* listener (tcp/listener.hpp), acceptor (tcp/acceptor.hpp) and acceptorfn   *)
(* (tcp/acceptorfn.hpp): objects that own an evconnlistener, which has the   *)
(* address of the object and calls its handler with each descriptor it       *)
(* accepts.                                                                  *)
(*                                                                          *)
(* One thread: a listener is made without LEV_OPT_THREADSAFE.  The handler   *)
(* may call every operation, and may destroy the object it is called on.     *)
(***************************************************************************)
EXTENDS Naturals

CONSTANTS
    Obj,        \* storage for acceptor and acceptorfn objects
    Fn,         \* those that are acceptorfn; the others are acceptor
    Lev,        \* what evconnlistener_new_bind ever returns (bounds it)
    Addr,       \* addresses
    Conn,       \* connections that come
    None        \* null

ASSUME AcceptorAssumption ==
    /\ Fn \subseteq Obj
    /\ None \notin Obj \cup Lev \cup Addr \cup Conn

VARIABLES
    life,       \* of an object: "raw" or "live"
    hasFn,      \* handler_ is not empty
    handle,     \* listener_ of an object
    lev,        \* of a listener: "new", "live", "freed"
    arg,        \* the object whose address it has
    at,         \* where it listens
    on,         \* listeners that are enabled
    conn,       \* of a connection: "none", "queued", "handed", "owned",
                \* "closed", or "leaked": accepted, and nobody has it
    by,         \* the listener a connection came to
    run,        \* the object and the connection the loop is handling
    carried,    \* listeners that a move took from one object to another
    silent,     \* connections dropped because handler_ was empty
    wanted,     \* objects with a listen() that succeeded and no close() since
    crash       \* what ended the program

objects == <<life, hasFn, handle>>
levs == <<lev, arg, at, on>>
conns == <<conn, by>>
history == <<carried, silent, wanted>>
vars == <<objects, levs, conns, run, history, crash>>

Idle == [obj |-> None, conn |-> None]

Bound(a) == \E l \in Lev : lev[l] = "live" /\ at[l] = a

\* The function that runs is the one in o, as against a member function.
FunctionRuns(o) == run.obj = o /\ o \notin Fn

-----------------------------------------------------------------------------
(* Mistakes: variants of the definitions below that the code could have had. *)
(* Nothing uses them; the properties tell each of them from the code.       *)

\* handle_ is not a null pointer at first.
MakeFnGarbage(o) ==
    /\ o \in Fn /\ life[o] = "raw"
    /\ life' = [life EXCEPT ![o] = "live"]
    /\ hasFn' = [hasFn EXCEPT ![o] = TRUE]
    /\ handle' = [handle EXCEPT ![o] = "garbage"]
    /\ UNCHANGED <<levs, conns, run, history, crash>>

\* listen() frees what it had before it tries the new address.
ListenClosesFirst(o, l, a) ==
    /\ o \in Fn /\ life[o] = "live"
    /\ lev[l] = "new"
    /\ \A m \in Lev : lev[m] = "live" /\ at[m] = a => handle[o] = m
    /\ \/ /\ lev' = [m \in Lev |-> IF m = l THEN "live"
                                   ELSE IF m = handle[o] THEN "freed" ELSE lev[m]]
          /\ handle' = [handle EXCEPT ![o] = l]
          /\ arg' = [arg EXCEPT ![l] = o]
          /\ at' = [at EXCEPT ![l] = a]
          /\ on' = on \cup {l}
          /\ wanted' = wanted \cup {o}
       \/ /\ lev' = [m \in Lev |-> IF m = handle[o] THEN "freed" ELSE lev[m]]
          /\ handle' = [handle EXCEPT ![o] = None]
          /\ UNCHANGED <<arg, at, on, wanted>>
    /\ conn' = [c \in Conn |-> IF conn[c] = "queued" /\ by[c] = handle[o]
                               THEN "closed" ELSE conn[c]]
    /\ UNCHANGED <<life, hasFn, by, run, carried, silent, crash>>

\* The pointer to the listener is not reset by its destructor.
DestructKeeps(o) ==
    /\ life[o] = "live" /\ ~FunctionRuns(o)
    /\ life' = [life EXCEPT ![o] = "raw"]
    /\ handle' = [handle EXCEPT ![o] = None]
    /\ wanted' = wanted \ {o}
    /\ UNCHANGED <<hasFn, levs, conns, run, carried, silent, crash>>

-----------------------------------------------------------------------------
Init ==
    /\ life = [o \in Obj |-> "raw"]
    /\ hasFn = [o \in Obj |-> FALSE]
    /\ handle = [o \in Obj |-> None]
    /\ lev = [l \in Lev |-> "new"]
    /\ arg = [l \in Lev |-> None]
    /\ at = [l \in Lev |-> None]
    /\ on = {}
    /\ conn = [c \in Conn |-> "none"]
    /\ by = [c \in Conn |-> None]
    /\ run = Idle
    /\ carried = {} /\ silent = {} /\ wanted = {}
    /\ crash = "no"

-----------------------------------------------------------------------------
(* Listeners.                                                                *)

\* handle_.reset(create(...)): the new one is bound and listens before the
\* old one is freed, so that an address of its own is refused too.  When it
\* is refused the exception leaves everything as it was.
Relisten(o, l, a) ==
    /\ lev[l] = "new" /\ ~Bound(a)
    /\ lev' = [m \in Lev |-> IF m = l THEN "live"
                             ELSE IF m = handle[o] THEN "freed" ELSE lev[m]]
    /\ arg' = [arg EXCEPT ![l] = o]
    /\ at' = [at EXCEPT ![l] = a]
    /\ on' = on \cup {l}
    /\ handle' = [handle EXCEPT ![o] = l]
    /\ wanted' = wanted \cup {o}

\* Connections that a listener has not accepted go with it.
Dropped(l) ==
    [c \in Conn |-> IF conn[c] = "queued" /\ by[c] = l THEN "closed" ELSE conn[c]]

FreeListener(o) ==
    /\ lev' = [m \in Lev |-> IF m = handle[o] THEN "freed" ELSE lev[m]]
    /\ conn' = Dropped(handle[o])
    /\ wanted' = wanted \ {o}

-----------------------------------------------------------------------------
(* Objects.                                                                 *)

\* acceptor(queue, flags, sa, backlog, handler) listens at once.
Make(o, l, a) ==
    /\ o \notin Fn /\ life[o] = "raw"
    /\ Relisten(o, l, a)
    /\ life' = [life EXCEPT ![o] = "live"]
    /\ hasFn' = [hasFn EXCEPT ![o] = TRUE]
    /\ UNCHANGED <<conns, run, carried, silent, crash>>

\* acceptorfn(self, fn) and acceptorfn(self, fn, throw_fn).
MakeFn(o) ==
    /\ o \in Fn /\ life[o] = "raw"
    /\ life' = [life EXCEPT ![o] = "live"]
    /\ hasFn' = [hasFn EXCEPT ![o] = TRUE]
    /\ UNCHANGED <<handle, levs, conns, run, history, crash>>

Listen(o, l, a) ==
    /\ o \in Fn /\ life[o] = "live"
    /\ Relisten(o, l, a)
    /\ conn' = Dropped(handle[o])
    /\ UNCHANGED <<life, hasFn, by, run, carried, silent, crash>>

Close(o) ==
    /\ o \in Fn /\ life[o] = "live" /\ handle[o] # None
    /\ FreeListener(o)
    /\ handle' = [handle EXCEPT ![o] = None]
    /\ UNCHANGED <<life, hasFn, arg, at, on, by, run, carried, silent,
                   crash>>

\* The members go in the reverse order of their declaration; destroying the
\* function that runs is undefined.
Destruct(o) ==
    /\ life[o] = "live"
    /\ life' = [life EXCEPT ![o] = "raw"]
    /\ hasFn' = [hasFn EXCEPT ![o] = FALSE]
    /\ FreeListener(o)
    /\ handle' = [handle EXCEPT ![o] = None]
    /\ crash' = IF FunctionRuns(o) THEN "functionDestroyed" ELSE "no"
    /\ UNCHANGED <<arg, at, on, by, run, carried, silent>>

\* The implicit moves of acceptor: the listeners are swapped, the functions
\* are moved, and libevent keeps the addresses it has.
MoveConstruct(o, that) ==
    /\ {o, that} \cap Fn = {}
    /\ life[o] = "raw" /\ life[that] = "live" /\ ~FunctionRuns(that)
    /\ life' = [life EXCEPT ![o] = "live"]
    /\ hasFn' = [hasFn EXCEPT ![o] = hasFn[that], ![that] = FALSE]
    /\ handle' = [handle EXCEPT ![o] = handle[that], ![that] = None]
    /\ carried' = carried \cup ({handle[that]} \ {None})
    /\ wanted' = {IF p = that THEN o ELSE p : p \in wanted}
    /\ UNCHANGED <<levs, conns, run, silent, crash>>

MoveAssign(o, that) ==
    /\ {o, that} \cap Fn = {} /\ o # that
    /\ life[o] = "live" /\ life[that] = "live"
    /\ hasFn' = [hasFn EXCEPT ![o] = hasFn[that], ![that] = FALSE]
    /\ handle' = [handle EXCEPT ![o] = handle[that], ![that] = handle[o]]
    /\ carried' = carried \cup ({handle[o], handle[that]} \ {None})
    /\ wanted' = {IF p = that THEN o ELSE IF p = o THEN that ELSE p : p \in wanted}
    /\ crash' = IF FunctionRuns(o) \/ FunctionRuns(that)
                THEN "functionDestroyed" ELSE "no"
    /\ UNCHANGED <<life, levs, conns, run, silent>>

\* set(handler): the old function is destroyed, even while it runs.
SetHandler(o) ==
    /\ life[o] = "live"
    /\ hasFn' = [hasFn EXCEPT ![o] = TRUE]
    /\ crash' = IF FunctionRuns(o) THEN "functionDestroyed" ELSE "no"
    /\ UNCHANGED <<life, handle, levs, conns, run, history>>

\* enable() and disable() assert that there is a listener.
Enable(o, e) ==
    /\ life[o] = "live" /\ handle[o] # None
    /\ on' = IF e THEN on \cup {handle[o]} ELSE on \ {handle[o]}
    /\ UNCHANGED <<objects, lev, arg, at, conns, run, history, crash>>

-----------------------------------------------------------------------------
(* The loop, and what a handler does with the descriptor.                     *)

Arrive(c, l) ==
    /\ conn[c] = "none" /\ lev[l] = "live"
    /\ conn' = [conn EXCEPT ![c] = "queued"]
    /\ by' = [by EXCEPT ![c] = l]
    /\ UNCHANGED <<objects, levs, run, history, crash>>

\* acceptor::dispatch and acceptorfn::do_accept: an empty function throws
\* before anybody has seen the descriptor.
Dispatch(o, c) ==
    IF hasFn[o]
    THEN /\ run' = [obj |-> o, conn |-> c]
         /\ conn' = [conn EXCEPT ![c] = "handed"]
         /\ UNCHANGED silent
    ELSE /\ conn' = [conn EXCEPT ![c] = "leaked"]
         /\ silent' = silent \cup {c}
         /\ UNCHANGED run

Accept(l, c) ==
    /\ run = Idle
    /\ lev[l] = "live" /\ l \in on
    /\ conn[c] = "queued" /\ by[c] = l
    /\ IF life[arg[l]] = "live"
       THEN Dispatch(arg[l], c) /\ UNCHANGED crash
       ELSE crash' = "deadAcceptor" /\ UNCHANGED <<run, conn, silent>>
    /\ UNCHANGED <<objects, levs, by, carried, wanted>>

\* The handler keeps the descriptor, or closes it.
Take(own) ==
    /\ run # Idle /\ conn[run.conn] = "handed"
    /\ conn' = [conn EXCEPT ![run.conn] = IF own THEN "owned" ELSE "closed"]
    /\ UNCHANGED <<objects, levs, by, run, history, crash>>

\* It returns: a descriptor it did not care for is lost with the socket
\* object, which has no destructor.
Return ==
    /\ run # Idle
    /\ run' = Idle
    /\ conn' = IF conn[run.conn] = "handed"
               THEN [conn EXCEPT ![run.conn] = "leaked"] ELSE conn
    /\ UNCHANGED <<objects, levs, by, history, crash>>

\* It throws, or ip::addr::create does before it is called: on_throw looks at
\* the object, which may have gone, and whatever it calls is given the
\* exception but not the descriptor.
Throw ==
    /\ run # Idle
    /\ run' = Idle
    /\ conn' = IF conn[run.conn] = "handed"
               THEN [conn EXCEPT ![run.conn] = "leaked"] ELSE conn
    /\ crash' = IF life[run.obj] = "raw" THEN "deadInCatch" ELSE "no"
    /\ UNCHANGED <<objects, levs, by, history>>

-----------------------------------------------------------------------------
Next ==
    /\ crash = "no"
    /\ \/ \E o \in Obj :
            \/ Close(o)
            \/ Destruct(o)
            \/ SetHandler(o)
            \/ MakeFn(o)
            \/ \E e \in BOOLEAN : Enable(o, e)
            \/ \E that \in Obj : MoveConstruct(o, that) \/ MoveAssign(o, that)
            \/ \E l \in Lev, a \in Addr : Make(o, l, a) \/ Listen(o, l, a)
       \/ \E c \in Conn, l \in Lev : Arrive(c, l) \/ Accept(l, c)
       \/ \E own \in BOOLEAN : Take(own)
       \/ Return
       \/ Throw

Spec == Init /\ [][Next]_vars

-----------------------------------------------------------------------------
(* Properties.                                                              *)

TypeOK ==
    /\ life \in [Obj -> {"raw", "live"}]
    /\ hasFn \in [Obj -> BOOLEAN]
    /\ handle \in [Obj -> Lev \cup {None}]
    /\ lev \in [Lev -> {"new", "live", "freed"}]
    /\ arg \in [Lev -> Obj \cup {None}]
    /\ at \in [Lev -> Addr \cup {None}]
    /\ on \subseteq Lev
    /\ conn \in [Conn -> {"none", "queued", "handed", "owned", "closed", "leaked"}]
    /\ by \in [Conn -> Lev \cup {None}]
    /\ run \in [obj : Obj \cup {None}, conn : Conn \cup {None}]
    /\ carried \subseteq Lev /\ silent \subseteq Conn /\ wanted \subseteq Obj
    /\ crash \in {"no", "deadAcceptor", "deadInCatch", "functionDestroyed"}

\* A listener that was not freed belongs to exactly one object, which lives,
\* through moves, listen() over a listener, close() in the handler, and the
\* destructor (listener.hpp:20-21, 59-74, 136-139).
ListenerOwned ==
    /\ \A l \in Lev : lev[l] = "live" =>
        \E o \in Obj : handle[o] = l /\ life[o] = "live"
    /\ \A o \in Obj : handle[o] # None =>
        /\ lev[handle[o]] = "live" /\ life[o] = "live"
        /\ \A p \in Obj : handle[p] = handle[o] => p = o

\* Once it listens an object listens until it is closed, destroyed or moved: a
\* listen() that fails leaves it as it was (listener.hpp:70-74).
ListensUntilClosed == \A o \in wanted : handle[o] # None

\* An acceptorfn, and an acceptor whose listener was never moved, is what that
\* listener calls (acceptor.hpp:61-62, acceptorfn.hpp:59-60, 86-87).
AddressOfOwner ==
    \A o \in Obj : handle[o] # None =>
        arg[handle[o]] = o \/ handle[o] \in carried

\* A listener and its object keep each other: the one it belongs to is the one
\* it calls, and has it until it closes or moves.
ListenersKept == ListenerOwned /\ AddressOfOwner /\ ListensUntilClosed

\* A listener that no move took along calls the living object that owns it, and
\* finds a handler there.
CallsItsOwner ==
    \A l \in Lev : lev[l] = "live" /\ l \notin carried =>
        handle[arg[l]] = l /\ life[arg[l]] = "live" /\ hasFn[arg[l]]

\* A connection is dropped before any handler has seen it only by a listener
\* that was moved (acceptor.hpp:31-42, 55-63).
HandledUnlessMoved == \A c \in silent : by[c] \in carried

\* The loop calls a dead object only through such a listener: the destructor
\* frees the listener with the object.
CalledAlive ==
    crash = "deadAcceptor" =>
        \E l \in carried : lev[l] = "live" /\ life[arg[l]] = "raw"

\* That the loop calls a dead object, one that does not own the listener, or one
\* without a handler is only ever due to a move of that very listener.  Nothing
\* is said of what a handler does with a connection it was given: it may lose it
\* (Return, Throw), and may throw after it destroyed its own object.
OnlyMovedGoWrong == CallsItsOwner /\ CalledAlive /\ HandledUnlessMoved
=============================================================================
