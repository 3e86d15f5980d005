--------------------------------- MODULE Ev ---------------------------------
(***************************************************************************)
(* btpro::ev (ev.hpp) over evcore (evcore.hpp) over heap_event and           *)
(* stack_event (evtype.hpp): an event of libevent beside the handler whose   *)
(* ADDRESS libevent keeps.                                                   *)
(*                                                                          *)
(* One thread runs the loop of the base and the handlers; any thread may     *)
(* call the other operations (use_threads).  event_del waits for a handler   *)
(* that runs, unless it is that handler which calls.                         *)
(*                                                                          *)
(* An evcore used by itself, with a handler of the caller's, is an ev whose  *)
(* create() is public.                                                       *)
(***************************************************************************)
EXTENDS Naturals

CONSTANTS
    Obj,        \* storage for ev objects
    Heap,       \* those of ev<H, ev_heap>; the others are ev<H, ev_stack>
    HeapEvent,  \* what event_new ever returns (bounds its calls)
    Fn,         \* user functions
    None        \* null: no event, no function, no object

\* What is assumed of the constants.
EvAssumption ==
    /\ Heap \subseteq Obj
    /\ HeapEvent \cap Obj = {}
    /\ None \notin Obj \cup HeapEvent \cup Fn

\* Every event there can be: the one inside a stack object has its name.
AnyEvent == HeapEvent \cup (Obj \ Heap)

VARIABLES
    life,       \* of an object; "half": ev_ is destroyed, handler_ is not yet
    hand,       \* handler_: the function in it
    handle,     \* handle_ of a heap_event; for a stack_event, itself or None
    made,       \* initialised events
    arg,        \* the object whose handler_ libevent has the address of
    want,       \* the function an event was created for
    persist,    \* events with EV_PERSIST
    pend,       \* events that were added
    act,        \* active events
    run,        \* the event whose callback the loop is in
    pc,         \* where that callback is
    loose,      \* objects that were moved while they had an event, or whose
                \* event was destroyed by its own handler
    wrong,      \* objects whose handler was called for another function
    crash       \* the object whose dead handler was used

objects == <<life, hand, handle>>
events  == <<made, arg, want, persist>>
loop    == <<pend, act, run, pc>>
history == <<loose, wrong, crash>>
vars    == <<objects, events, loop, history>>

\* The handler of o is being called.
Runs(o) == run # None /\ arg[run] = o

-----------------------------------------------------------------------------
(* Mistakes: variants of the definitions below that the code could have had. *)
(* Nothing uses them; the properties tell each of them from the code.       *)

\* handle_ of an event has no initialiser.
DefaultGarbage(o) ==
    /\ life[o] = "raw"
    /\ life' = [life EXCEPT ![o] = "live"]
    /\ handle' = [handle EXCEPT ![o] = "garbage"]
    /\ UNCHANGED <<hand, events, loop, history>>

\* The moved-from object keeps its handle.
SwapCopies(o, that) == [handle EXCEPT ![o] = handle[that]]

\* ev_ is declared before handler_, so that handler_ is destroyed first.
DestructHandlerFirst(o) ==
    /\ life[o] = "live"
    /\ life' = [life EXCEPT ![o] = "dead"]
    /\ UNCHANGED <<hand, handle, events, loop, history>>

-----------------------------------------------------------------------------
Init ==
    /\ life = [o \in Obj |-> "raw"]
    /\ hand = [o \in Obj |-> None]
    /\ handle = [o \in Obj |-> None]
    /\ made = {}
    /\ arg = [e \in AnyEvent |-> None]
    /\ want = [e \in AnyEvent |-> None]
    /\ persist = {} /\ pend = {} /\ act = {}
    /\ run = None /\ pc = "loop"
    /\ loose = {} /\ wrong = {} /\ crash = None

-----------------------------------------------------------------------------
(* Creation.                                                                *)

\* event_new gives a heap object a new event; event_assign initialises the
\* event inside a stack object.  Both get the address of the handler.
Fresh(o, e) ==
    /\ IF o \in Heap THEN e \in HeapEvent /\ arg[e] = None ELSE e = o
    /\ e \notin made

NewEvent(o, e, f, p) ==
    /\ Fresh(o, e)
    /\ handle' = [handle EXCEPT ![o] = e]
    /\ hand' = [hand EXCEPT ![o] = f]
    /\ made' = made \cup {e}
    /\ arg' = [arg EXCEPT ![e] = o]
    /\ want' = [want EXCEPT ![e] = f]
    /\ persist' = IF p THEN persist \cup {e} ELSE persist \ {e}

\* ev(): no event, an empty handler.
Default(o) ==
    /\ life[o] = "raw"
    /\ life' = [life EXCEPT ![o] = "live"]
    /\ UNCHANGED <<hand, handle, events, loop, history>>

\* ev(queue, ..., handler): the handler is moved in, then the event is
\* created with its address, and added when a timeout is given.
Construct(o, e, f, p, added) ==
    /\ life[o] = "raw"
    /\ life' = [life EXCEPT ![o] = "live"]
    /\ NewEvent(o, e, f, p)
    /\ pend' = IF added THEN pend \cup {e} ELSE pend
    /\ UNCHANGED <<act, run, pc, history>>

\* evcore::create; an event is never created over another one (the asserts of
\* heap_event::create and stack_event::create), and the handler that runs is
\* not replaced under it.
Create(o, e, f, p) ==
    /\ life[o] = "live"
    /\ handle[o] = None
    /\ Runs(o) => pc = "user" /\ f = hand[o]
    /\ NewEvent(o, e, f, p)
    /\ UNCHANGED <<life, loop, history>>

-----------------------------------------------------------------------------
(* Moves: only an ev<H, ev_heap> can be moved.                              *)

\* heap_event(heap_event&&) and operator=(heap_event&&).
Swap(o, that) == [handle EXCEPT ![o] = handle[that], ![that] = handle[o]]

\* What is loose after a move: events do not take their handler with them.
Loosened(o, that) ==
    IF handle[o] = None /\ handle[that] = None THEN {} ELSE {o, that}

\* The defaulted ev(ev&&): the handler is moved (a std::function leaves an
\* empty one behind, a timer_fn a copy) and the event changes its owner, but
\* keeps the address of the handler of `that`.
MoveConstruct(o, that, left) ==
    /\ {o, that} \subseteq Heap
    /\ life[o] = "raw" /\ life[that] = "live"
    /\ left \in {None, hand[that]}
    /\ life' = [life EXCEPT ![o] = "live"]
    /\ hand' = [hand EXCEPT ![o] = hand[that], ![that] = left]
    /\ handle' = Swap(o, that)
    /\ loose' = loose \cup Loosened(o, that)
    /\ UNCHANGED <<events, loop, wrong, crash>>

\* The defaulted operator=(ev&&): each object gets the event of the other.
\* The old function of the assigned object is destroyed.
MoveAssign(o, that) ==
    /\ {o, that} \subseteq Heap /\ o # that
    /\ life[o] = "live" /\ life[that] = "live"
    /\ hand' = [hand EXCEPT ![o] = hand[that], ![that] = None]
    /\ handle' = Swap(o, that)
    /\ loose' = loose \cup Loosened(o, that)
    /\ crash' = IF Runs(o) THEN o ELSE crash
    /\ UNCHANGED <<life, events, loop, wrong>>

-----------------------------------------------------------------------------
(* What is done with an event.                                              *)

\* event_del waits until the callback of the event has returned, unless that
\* callback is what calls it.
MayDel(e) == run = e => pc = "user"

Del(e) == pend' = pend \ {e} /\ act' = act \ {e}

\* event_add; an event that is active because of its timeout and gets a new
\* one is not active any more.
Add(o) ==
    /\ life[o] = "live" /\ handle[o] # None
    /\ pend' = pend \cup {handle[o]}
    /\ act' \in {act, act \ {handle[o]}}
    /\ UNCHANGED <<objects, events, run, pc, history>>

Remove(o) ==
    /\ life[o] = "live" /\ handle[o] # None
    /\ MayDel(handle[o])
    /\ Del(handle[o])
    /\ UNCHANGED <<objects, events, run, pc, history>>

\* active(): event_active, from any thread.
Active(o) ==
    /\ life[o] = "live" /\ handle[o] # None
    /\ act' = act \cup {handle[o]}
    /\ UNCHANGED <<objects, events, pend, run, pc, history>>

\* event_free, or event_del and `handle_ = event{}`.
Free(o) ==
    /\ Del(handle[o])
    /\ made' = made \ {handle[o]}
    /\ handle' = [handle EXCEPT ![o] = None]

\* destroy(), which the handler of the event may call, too.
Destroy(o) ==
    /\ life[o] = "live" /\ handle[o] # None
    /\ MayDel(handle[o])
    /\ Free(o)
    /\ loose' = IF run = handle[o] THEN loose \cup {o} ELSE loose
    /\ UNCHANGED <<life, hand, arg, want, persist, run, pc, wrong, crash>>

\* ~ev destroys ev_ first.  event_del waits for the handler; no handler
\* destroys the object that its own event is in.
DestructEvent(o) ==
    /\ life[o] = "live"
    /\ life' = [life EXCEPT ![o] = "half"]
    /\ \/ handle[o] = None /\ UNCHANGED <<handle, made, pend, act>>
       \/ handle[o] # None /\ run # handle[o] /\ Free(o)
    /\ UNCHANGED <<hand, arg, want, persist, run, pc, history>>

\* ... and then handler_, which must not be running.
DestructHandler(o) ==
    /\ life[o] = "half"
    /\ life' = [life EXCEPT ![o] = "dead"]
    /\ crash' = IF Runs(o) THEN o ELSE crash
    /\ UNCHANGED <<hand, handle, events, loop, loose, wrong>>

\* The handler at the address that e holds is used.
Call(e) ==
    LET o == arg[e] IN
    /\ crash' = IF life[o] = "dead" THEN o ELSE crash
    /\ wrong' = IF hand[o] = want[e] THEN wrong ELSE wrong \cup {o}

\* exec() calls the handler directly.
Exec(o) ==
    /\ life[o] = "live" /\ handle[o] # None
    /\ Call(handle[o])
    /\ UNCHANGED <<objects, events, loop, loose>>

-----------------------------------------------------------------------------
(* The loop of the base.                                                    *)

\* The timeout of an event is over or its descriptor is ready.
Ready(e) ==
    /\ e \in pend
    /\ act' = act \cup {e}
    /\ UNCHANGED <<objects, events, pend, run, pc, history>>

\* An active event is taken; one without EV_PERSIST is deleted by that.
Fire(e) ==
    /\ run = None /\ e \in act
    /\ run' = e /\ pc' = "enter"
    /\ act' = act \ {e}
    /\ pend' = IF e \in persist THEN pend ELSE pend \ {e}
    /\ UNCHANGED <<objects, events, history>>

\* The lambda of proxy_call calls the handler.
CallHandler ==
    /\ pc = "enter"
    /\ Call(run)
    /\ pc' = "user"
    /\ UNCHANGED <<objects, events, pend, act, run, loose>>

Return ==
    /\ pc = "user"
    /\ run' = None /\ pc' = "loop"
    /\ UNCHANGED <<objects, events, pend, act, history>>

-----------------------------------------------------------------------------
Next ==
    /\ crash = None
    /\ \/ \E o \in Obj, e \in AnyEvent, f \in Fn, p \in BOOLEAN :
             \/ Create(o, e, f, p)
             \/ \E added \in BOOLEAN : Construct(o, e, f, p, added)
       \/ \E o, that \in Obj : \/ MoveAssign(o, that)
                               \/ \E left \in Fn \cup {None} :
                                     MoveConstruct(o, that, left)
       \/ \E o \in Obj : \/ Default(o) \/ Add(o) \/ Remove(o) \/ Active(o)
                         \/ Destroy(o) \/ Exec(o)
                         \/ DestructEvent(o) \/ DestructHandler(o)
       \/ \E e \in AnyEvent : Ready(e) \/ Fire(e)
       \/ CallHandler \/ Return

Spec == Init /\ [][Next]_vars

-----------------------------------------------------------------------------
(* Properties.                                                              *)

\* Every variable has its type.
TypeOK ==
    /\ life \in [Obj -> {"raw", "live", "half", "dead"}]
    /\ hand \in [Obj -> Fn \cup {None}]
    /\ handle \in [Obj -> AnyEvent \cup {None}]
    /\ made \in SUBSET AnyEvent
    /\ arg \in [AnyEvent -> Obj \cup {None}]
    /\ want \in [AnyEvent -> Fn \cup {None}]
    /\ persist \in SUBSET AnyEvent
    /\ pend \in SUBSET AnyEvent
    /\ act \in SUBSET AnyEvent
    /\ run \in AnyEvent \cup {None}
    /\ pc \in {"loop", "enter", "user"}
    /\ loose \in SUBSET Obj
    /\ wrong \in SUBSET Obj
    /\ crash \in Obj \cup {None}

\* An event belongs to one object that lives, through every move: it is freed
\* once and none is leaked (the swaps of evtype.hpp, destroy, ~heap_event).
OneOwner ==
    /\ \A o \in Obj : handle[o] # None => handle[o] \in made /\ life[o] = "live"
    /\ \A o, p \in Obj : o # p /\ handle[o] # None => handle[o] # handle[p]
    /\ \A e \in made : \E o \in Obj : handle[o] = e

\* libevent never keeps an event that was freed, nor one inside a stack
\* object that is gone or was given a new event.
KnownEventsLive == pend \cup act \subseteq made

\* A handler is used after its end only in an object that was moved while it
\* had an event, or whose handler has destroyed its own event: in all others
\* ev_ goes before handler_, and event_del waits for the thread that is in it.
HandlerOutlivesEvent == crash # None => crash \in loose

\* An event calls the function it was created for, with the same exceptions.
RightFunction == wrong \subseteq loose

\* An event has one owner while libevent may know it, and none after.
EventsOwned == OneOwner /\ KnownEventsLive

\* No handler is entered dead and no event calls another's function, but in an
\* object that was moved with an event or whose handler destroyed it
\* (ev.hpp:52-67, evtype.hpp:70-88, 123-149).
OnlyLooseGoWrong == HandlerOutlivesEvent /\ RightFunction
=============================================================================
