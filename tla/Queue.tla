------------------------------- MODULE Queue -------------------------------
(***************************************************************************)
(* btpro::queue (queue.hpp) over libevent's event_base, with the closures   *)
(* that functional.hpp hands to event_base_once.                            *)
(*                                                                          *)
(* A queue OBJECT holds a pointer to an event BASE and hands it over by     *)
(* swapping.  A POST is one call of queue::once.  Its user function reaches *)
(* libevent in one of four ways, each with a CELL of its own:               *)
(*   "own"    once(T&&), an rvalue: the function is moved to the heap;      *)
(*   "ref"    once(timer_fun&), an lvalue: libevent gets its address;       *)
(*   "outer"  once(queue& other, ...): a heap lambda that holds REFERENCES  *)
(*            to the caller's function and to the other queue;              *)
(*   "inner"  the heap lambda that the outer one posts to the other queue.  *)
(* Every base is run by one thread; the steps of the threads interleave,    *)
(* as thread.hpp (use_threads) lets them.                                   *)
(***************************************************************************)
EXTENDS Naturals, FiniteSets

CONSTANTS
    Queue,      \* storage for queue objects
    Base,       \* event bases that are ever created (bounds their number)
    Post,       \* calls of once() (bounds their number)
    Callable,   \* user functions passed to once()
    Moved,      \* those passed as rvalues, hence posted once
    None,       \* the null pointer
    Raw,        \* "no queue object lives here"
    Keeps       \* what callers keep for a post: {}, "objects", "base"

Cell == Post \X {"post", "hop"}

\* The arguments of one call of once(): `to` is None for a post to the queue
\* itself; `ok` is FALSE when event_base_once failed and once() threw.
Call == [fn : Callable, to : Queue \cup {None}, ok : BOOLEAN]

ASSUME ConstantsAssumption ==
    /\ Moved \subseteq Callable
    /\ None \notin Base /\ Raw \notin Base /\ None # Raw
    /\ None \notin Queue
    /\ None \notin Cell /\ None \notin Call
    /\ Keeps \subseteq {"objects", "base"}

VARIABLES
    handle,     \* hqueue_ of every queue object
    base,       \* life of every event_base
    loop,       \* who runs a base: nobody, dispatch(), or loop(flags)
    stop,       \* event_break and event_gotterm of a base
    exits,      \* the base has a loopexit timer armed
    pend,       \* once events registered and not yet fired
    run,        \* the event whose callback a base is executing
    pc,         \* where that callback is
    call,       \* arguments of every post
    ran,        \* how many times the user function of a post was entered
    lost,       \* cells whose event was refused, or died with its base
    heap,       \* the heap closure of a cell
    obj,        \* the caller's function object
    crash       \* the undefined behaviour that ended the program

baseVars == <<base, loop, stop, exits>>
cbVars   == <<pend, run, pc>>
postVars == <<call, ran, lost, heap, obj>>
vars     == <<handle, baseVars, cbVars, postVars, crash>>

Kind(c) ==
    CASE c[2] = "hop"                                     -> "inner"
      [] c[2] = "post" /\ call[c[1]].to # None            -> "outer"
      [] c[2] = "post" /\ call[c[1]].to = None
                       /\ call[c[1]].fn \in Moved         -> "own"
      [] OTHER                                            -> "ref"

-----------------------------------------------------------------------------
(* What the caller knows, and what a careful caller does with it.  "objects": *)
(* the function that a post refers to is not destroyed before it was called,  *)
(* and the other queue is neither destroyed nor left without a base.  "base": *)
(* the other queue is not moved or assigned, so that it has the same base.    *)

\* The post was accepted and its function has not been called yet.
Awaited(p) == call[p] # None /\ call[p].ok /\ ran[p] = 0

\* The closure of the post refers to the caller's function, until that was
\* called and the callback has returned.
Refers(p) ==
    /\ call[p] # None /\ Kind(<<p, "post">>) # "own"
    /\ Awaited(p) \/ \E b \in Base : run[b] = <<p, "post">>

MayDropCallable(f) ==
    "objects" \in Keeps => \A p \in Post : Refers(p) => call[p].fn # f

Targeted(q) == \E p \in Post : Awaited(p) /\ call[p].to = q

MayHold(q, h) == "objects" \in Keeps /\ Targeted(q) => h \in Base

MayHandOver(q) == "base" \in Keeps => ~Targeted(q)

-----------------------------------------------------------------------------
(* Mistakes: variants of the definitions below that the code could have had. *)
(* Nothing uses them; the properties tell each of them from the code.       *)

\* The moved-from object keeps its handle.
SwapCopies(q, that) == [handle EXCEPT ![q] = handle[that]]

\* hqueue_ has no member initialiser.
MoveConstructGarbage(q, that, b) ==
    /\ handle[q] = Raw /\ handle[that] # Raw
    /\ handle' = [handle EXCEPT ![q] = handle[that], ![that] = "garbage"]
    /\ UNCHANGED <<baseVars, cbVars, postVars, crash>>

\* The outer lambda posts once more although it has posted.
RequeueAgain(b) == pc

\* The inner lambda goes to the queue that runs the outer one.
PostedHome(b, p) == b

\* The outer lambda waits for the inner one and does not return to the loop.
RequeueWaits(b) == [pc EXCEPT ![b] = "loop"]

\* The outer lambda is not deleted.
DeleteNoRequeue(c) ==
    IF Kind(c) \in {"ref", "outer"} THEN heap ELSE [heap EXCEPT ![c] = "freed"]

\* The closure is deleted before its function is entered.
CallUserDeletes(b) ==
    LET c == run[b]  p == c[1] IN
    /\ c # None /\ pc[b] = "enter" /\ Kind(c) # "outer"
    /\ heap' = [heap EXCEPT ![c] = "freed"]
    /\ ran' = [ran EXCEPT ![p] = @ + 1]
    /\ pc' = [pc EXCEPT ![b] = "leave"]
    /\ UNCHANGED <<handle, baseVars, pend, run, call, lost, obj, crash>>

-----------------------------------------------------------------------------
Init ==
    /\ handle = [q \in Queue |-> Raw]
    /\ base = [b \in Base |-> "unborn"]
    /\ loop = [b \in Base |-> "idle"]
    /\ stop = [b \in Base |-> {}]
    /\ exits = [b \in Base |-> FALSE]
    /\ pend = [b \in Base |-> {}]
    /\ run = [b \in Base |-> None]
    /\ pc = [b \in Base |-> "loop"]
    /\ call = [p \in Post |-> None]
    /\ ran = [p \in Post |-> 0]
    /\ lost = {}
    /\ heap = [c \in Cell |-> "none"]
    /\ obj = [f \in Callable |-> "live"]
    /\ crash = "no"

-----------------------------------------------------------------------------
(* Life of queue objects and bases.                                         *)

\* queue(), queue(config), queue(handle): a new base for a new object.
Create(q, b) ==
    /\ handle[q] = Raw
    /\ base[b] = "unborn"
    /\ handle' = [handle EXCEPT ![q] = b]
    /\ base' = [base EXCEPT ![b] = "live"]
    /\ UNCHANGED <<loop, stop, exits, cbVars, postVars, crash>>

\* std::swap of the two handles.
Swap(q, that) == [handle EXCEPT ![q] = handle[that], ![that] = handle[q]]

\* queue(queue&&): the member initialiser first creates a base, then the
\* handles are swapped, so the moved-from object owns the new base.
MoveConstruct(q, that, b) ==
    /\ handle[q] = Raw
    /\ handle[that] # Raw
    /\ base[b] = "unborn"
    /\ MayHandOver(that)
    /\ handle' = [handle EXCEPT ![q] = handle[that], ![that] = b]
    /\ base' = [base EXCEPT ![b] = "live"]
    /\ UNCHANGED <<loop, stop, exits, cbVars, postVars, crash>>

\* operator=(queue&&) swaps the handles.
MoveAssign(q, that) ==
    /\ q # that
    /\ handle[q] # Raw /\ handle[that] # Raw
    /\ MayHandOver(q) /\ MayHold(q, handle[that])
    /\ MayHandOver(that) /\ MayHold(that, handle[q])
    /\ handle' = Swap(q, that)
    /\ UNCHANGED <<baseVars, cbVars, postVars, crash>>

\* assign(handle) overwrites the pointer; the base it pointed to is leaked.
Assign(q, b) ==
    /\ handle[q] # Raw
    /\ base[b] = "unborn"
    /\ MayHandOver(q)
    /\ handle' = [handle EXCEPT ![q] = b]
    /\ base' = [base EXCEPT ![b] = "live"]
    /\ UNCHANGED <<loop, stop, exits, cbVars, postVars, crash>>

\* destroy_handle: event_base_free drops the registered once events without
\* calling them, so nobody deletes their closures.  libevent requires that
\* no thread is inside the loop of the base.
FreeHandle(q, left) ==
    /\ handle[q] # Raw
    /\ MayHandOver(q) /\ MayHold(q, left)
    /\ handle' = [handle EXCEPT ![q] = left]
    /\ \/ /\ handle[q] = None
          /\ UNCHANGED <<base, exits, pend, lost>>
       \/ /\ handle[q] # None
          /\ loop[handle[q]] = "idle"
          /\ base' = [base EXCEPT ![handle[q]] = "freed"]
          /\ exits' = [exits EXCEPT ![handle[q]] = FALSE]
          /\ pend' = [pend EXCEPT ![handle[q]] = {}]
          /\ lost' = lost \cup pend[handle[q]]
    /\ UNCHANGED <<loop, stop, run, pc, call, ran, heap, obj, crash>>

Destroy(q) == FreeHandle(q, None)
Destruct(q) == FreeHandle(q, Raw)

-----------------------------------------------------------------------------
(* Running a base.                                                          *)

\* dispatch() and loop(flags) enter event_base_loop, which first clears
\* event_break and event_gotterm: a loop_break() that came earlier is lost.
Enter(q, how) ==
    LET b == handle[q] IN
    /\ b \in Base
    /\ loop[b] = "idle"
    /\ loop' = [loop EXCEPT ![b] = how]
    /\ stop' = [stop EXCEPT ![b] = {}]
    /\ UNCHANGED <<handle, base, exits, cbVars, postVars, crash>>

Dispatch(q) == Enter(q, "dispatch")
Loop(q) == Enter(q, "flags")

\* loopexit(tv) arms a timer of the base; dispatch(timeout) is LoopExit and
\* then Dispatch.
LoopExit(q) ==
    /\ handle[q] \in Base
    /\ exits' = [exits EXCEPT ![handle[q]] = TRUE]
    /\ UNCHANGED <<handle, base, loop, stop, cbVars, postVars, crash>>

LoopBreak(q) ==
    /\ handle[q] \in Base
    /\ stop' = [stop EXCEPT ![handle[q]] = @ \cup {"break"}]
    /\ UNCHANGED <<handle, base, loop, exits, cbVars, postVars, crash>>

\* The base may start the next callback.
Ready(b) == loop[b] # "idle" /\ run[b] = None /\ stop[b] = {}

ExitFires(b) ==
    /\ Ready(b)
    /\ exits[b]
    /\ exits' = [exits EXCEPT ![b] = FALSE]
    /\ stop' = [stop EXCEPT ![b] = @ \cup {"term"}]
    /\ UNCHANGED <<handle, base, loop, cbVars, postVars, crash>>

HasEvents(b) == pend[b] # {} \/ exits[b]

\* event_base_loop leaves when it was stopped, when no events are left, and
\* when the flags ask for a single pass.
StopSeen(b) == stop[b] # {}

LoopReturn(b) ==
    /\ loop[b] # "idle" /\ run[b] = None
    /\ StopSeen(b) \/ ~HasEvents(b) \/ loop[b] = "flags"
    /\ loop' = [loop EXCEPT ![b] = "idle"]
    /\ UNCHANGED <<handle, base, stop, exits, cbVars, postVars, crash>>

\* What dispatch() returns if it returns now: event_base_dispatch gives 0
\* when it was stopped and 1 otherwise, and `code::sucsess == res` is true
\* for 0.
DispatchResult(b) == stop[b] # {}

-----------------------------------------------------------------------------
(* Posting.                                                                 *)

\* event_base_once on base b: ok is FALSE when it fails, and then nobody
\* deletes the closure of the cell.
EventBaseOnce(b, c, ok) ==
    /\ pend' = IF ok THEN [pend EXCEPT ![b] = @ \cup {c}] ELSE pend
    /\ lost' = IF ok THEN lost ELSE lost \cup {c}

\* The caller has a function to pass: an rvalue is passed once.
CanPost(p, f) ==
    /\ call[p] = None
    /\ obj[f] = "live"
    /\ f \in Moved => \A r \in Post : call[r] # None => call[r].fn # f

\* once(T&& fn): proxy_call moves an rvalue to the heap, before
\* event_base_once can fail; of an lvalue it takes the address.
Once(q, p, f, ok) ==
    /\ handle[q] \in Base
    /\ CanPost(p, f)
    /\ call' = [call EXCEPT ![p] = [fn |-> f, to |-> None, ok |-> ok]]
    /\ EventBaseOnce(handle[q], <<p, "post">>, ok)
    /\ IF f \in Moved
       THEN /\ heap' = [heap EXCEPT ![<<p, "post">>] = "live"]
            /\ obj' = [obj EXCEPT ![f] = "moved"]
       ELSE UNCHANGED <<heap, obj>>
    /\ UNCHANGED <<handle, baseVars, run, pc, ran, crash>>

\* once(queue& other, T&& fn): timer_requeue (socket_, generic_requeue)
\* captures by reference, so fn stays with the caller for now.
OnceOther(q, other, p, f, ok) ==
    /\ handle[q] \in Base /\ handle[other] # Raw
    /\ "objects" \in Keeps => handle[other] # None
    /\ CanPost(p, f)
    /\ call' = [call EXCEPT ![p] = [fn |-> f, to |-> other, ok |-> ok]]
    /\ EventBaseOnce(handle[q], <<p, "post">>, ok)
    /\ heap' = [heap EXCEPT ![<<p, "post">>] = "live"]
    /\ UNCHANGED <<handle, baseVars, run, pc, ran, obj, crash>>

\* The caller's function goes out of scope.
DropCallable(f) ==
    /\ obj[f] # "dead"
    /\ MayDropCallable(f)
    /\ obj' = [obj EXCEPT ![f] = "dead"]
    /\ UNCHANGED <<handle, baseVars, cbVars, call, ran, lost, heap, crash>>

-----------------------------------------------------------------------------
(* Callbacks.                                                               *)

EventTaken(b, c) == [pend EXCEPT ![b] = @ \ {c}]

\* libevent takes the event off the base and calls the lambda of proxy_call.
Fire(b, c) ==
    /\ Ready(b)
    /\ c \in pend[b]
    /\ pend' = EventTaken(b, c)
    /\ run' = [run EXCEPT ![b] = c]
    /\ pc' = [pc EXCEPT ![b] = "enter"]
    /\ UNCHANGED <<handle, baseVars, postVars, crash>>

\* A dead object is used, or an assert fails: the program ends.
Halt(b, why) ==
    /\ crash' = why
    /\ UNCHANGED <<handle, baseVars, cbVars, postVars>>

\* (*fn)(): the user function of an "own", "ref" or "inner" cell is entered.
CallUser(b) ==
    LET c == run[b]  p == c[1] IN
    /\ c # None /\ pc[b] = "enter" /\ Kind(c) # "outer"
    /\ IF Kind(c) = "ref" /\ obj[call[p].fn] = "dead"
       THEN Halt(b, "callable")
       ELSE /\ ran' = [ran EXCEPT ![p] = @ + 1]
            /\ pc' = [pc EXCEPT ![b] = "leave"]
            /\ UNCHANGED <<handle, baseVars, pend, run, call, lost, heap,
                           obj, crash>>

\* Where the outer lambda posts the inner one.
PostedTo(b, p) == handle[call[p].to]

RequeueDone(b) == [pc EXCEPT ![b] = "leave"]

\* The outer lambda of timer_requeue: builds the inner closure from the
\* referenced function (moves an rvalue, copies an lvalue) and posts it to
\* the other queue.  A failure is caught and given to error(), which is empty.
Requeue(b) ==
    LET c == run[b]  p == c[1]  f == call[p].fn  other == call[p].to IN
    /\ c # None /\ pc[b] = "enter" /\ Kind(c) = "outer"
    /\ \/ obj[f] = "dead" /\ Halt(b, "callable")
       \/ obj[f] # "dead" /\ handle[other] = Raw /\ Halt(b, "queue")
       \/ obj[f] # "dead" /\ handle[other] = None /\ Halt(b, "handle")
       \/ /\ obj[f] # "dead" /\ handle[other] \in Base
          /\ \E ok \in BOOLEAN :
                EventBaseOnce(PostedTo(b, p), <<p, "hop">>, ok)
          /\ heap' = [heap EXCEPT ![<<p, "hop">>] = "live"]
          /\ obj' = IF f \in Moved THEN [obj EXCEPT ![f] = "moved"] ELSE obj
          /\ pc' = RequeueDone(b)
          /\ UNCHANGED <<handle, baseVars, run, call, ran, crash>>

\* The heap after the lambda of proxy_call: `delete fn`, but not of an lvalue.
Delete(c) == IF Kind(c) = "ref" THEN heap ELSE [heap EXCEPT ![c] = "freed"]

\* The user function returned or threw (the exception is swallowed either
\* way); the lambda deletes the closure it owns and libevent goes on.
Finish(b) ==
    LET c == run[b] IN
    /\ c # None /\ pc[b] = "leave"
    /\ heap' = Delete(c)
    /\ run' = [run EXCEPT ![b] = None]
    /\ pc' = [pc EXCEPT ![b] = "loop"]
    /\ UNCHANGED <<handle, baseVars, pend, call, ran, lost, obj, crash>>

-----------------------------------------------------------------------------
Next ==
    /\ crash = "no"
    /\ \/ \E q \in Queue, b \in Base : Create(q, b) \/ Assign(q, b)
       \/ \E q, that \in Queue, b \in Base : MoveConstruct(q, that, b)
       \/ \E q, that \in Queue : MoveAssign(q, that)
       \/ \E q \in Queue : \/ Destroy(q) \/ Destruct(q)
                           \/ Dispatch(q) \/ Loop(q)
                           \/ LoopExit(q) \/ LoopBreak(q)
       \/ \E q \in Queue, p \in Post, f \in Callable, ok \in BOOLEAN :
             \/ Once(q, p, f, ok)
             \/ \E other \in Queue : OnceOther(q, other, p, f, ok)
       \/ \E f \in Callable : DropCallable(f)
       \/ \E b \in Base : \/ ExitFires(b) \/ LoopReturn(b)
                          \/ CallUser(b) \/ Requeue(b) \/ Finish(b)
                          \/ \E c \in Cell : Fire(b, c)

Spec == Init /\ [][Next]_vars

\* A thread inside event_base_loop keeps running: it starts a callback while
\* one is ready, user functions return, and it leaves the loop when it can.
\* Nobody is obliged to post, to dispatch or to destroy.
Fairness ==
    \A b \in Base :
        /\ WF_vars(crash = "no" /\ \E c \in Cell : Fire(b, c))
        /\ WF_vars(crash = "no" /\ CallUser(b))
        /\ WF_vars(crash = "no" /\ Requeue(b))
        /\ WF_vars(crash = "no" /\ Finish(b))
        /\ WF_vars(crash = "no" /\ LoopReturn(b))

FairSpec == Spec /\ Fairness

-----------------------------------------------------------------------------
(* Properties.                                                              *)

\* Where libevent can still find the argument of a cell.
Reached(c) == \E b \in Base : c \in pend[b] \/ run[b] = c

\* Every variable has its type.
TypeOK ==
    /\ handle \in [Queue -> Base \cup {None, Raw}]
    /\ base \in [Base -> {"unborn", "live", "freed"}]
    /\ loop \in [Base -> {"idle", "dispatch", "flags"}]
    /\ stop \in [Base -> SUBSET {"break", "term"}]
    /\ exits \in [Base -> BOOLEAN]
    /\ pend \in [Base -> SUBSET Cell]
    /\ run \in [Base -> Cell \cup {None}]
    /\ pc \in [Base -> {"loop", "enter", "leave"}]
    /\ call \in [Post -> Call \cup {None}]
    /\ ran \in [Post -> Nat]
    /\ lost \in SUBSET Cell
    /\ heap \in [Cell -> {"none", "live", "freed"}]
    /\ obj \in [Callable -> {"live", "moved", "dead"}]
    /\ crash \in {"no", "callable", "queue", "handle"}

\* No two queue objects hold the same base, and none holds a base that was
\* freed: swapping handles in the move operations never lets a base be freed
\* twice or used after event_base_free (queue.hpp, move and destroy_handle).
UniqueOwner ==
    \A q \in Queue : handle[q] \in Base =>
        /\ base[handle[q]] = "live"
        /\ \A r \in Queue \ {q} : handle[r] # handle[q]

\* The closure whose address libevent holds is allocated and not yet deleted,
\* on whichever thread its callback runs: `delete fn` at the end of the lambda
\* of proxy_call never frees what another event still refers to.
NoUseAfterFree ==
    \A c \in Cell : Reached(c) /\ Kind(c) # "ref" => heap[c] = "live"

\* An event is in one place only: it never waits on two bases, nor waits
\* while its callback runs, nor runs on two threads; a lost one is nowhere.
OnePlace ==
    /\ \A a, b \in Base : a # b =>
          /\ pend[a] \cap pend[b] = {}
          /\ run[a] # None => run[a] # run[b]
    /\ \A a, b \in Base : run[a] \notin pend[b]
    /\ \A c \in lost : ~Reached(c)

\* A closure that is still allocated is one libevent will hand back, or one
\* whose event was refused or died with its base: throwing functions, failed
\* requeues and moved queues leak nothing else.
OnlyLostLeak ==
    \A c \in Cell : heap[c] = "live" => Reached(c) \/ c \in lost

\* However the threads interleave, one call of once() enters the user's
\* function at most once, through a requeue as well.
AtMostOnce == \A p \in Post : ran[p] <= 1

\* A function that was accepted and not yet called is still on its way, or
\* one of its cells was lost: no hop forgets it.
NotForgotten ==
    \A p \in Post : Awaited(p) =>
        \E k \in {"post", "hop"} : Reached(<<p, k>>) \/ <<p, k>> \in lost

\* The strengthening that makes the properties above inductive.
\* Waiting: the callback of the cell has still to do its work.
Waiting(c) == \E b \in Base : \/ c \in pend[b]
                              \/ run[b] = c /\ pc[b] = "enter"

Unused(c) == heap[c] = "none" /\ c \notin lost /\ ~Reached(c)

\* A base has a callback to be in exactly when it is in one.
PcMatchesRun == \A b \in Base : pc[b] = "loop" <=> run[b] = None

\* A post that was not made has no cell, and a hop exists only for a post to
\* another queue, from the moment the outer callback has done its work.
CellsInOrder ==
    \A p \in Post :
        /\ call[p] = None => Unused(<<p, "post">>) /\ ran[p] = 0
        /\ (call[p] = None \/ call[p].to = None \/ Waiting(<<p, "post">>))
              => Unused(<<p, "hop">>)

\* A function whose cell still waits was not called yet.
NotYetCalled ==
    \A c \in Cell : Waiting(c) => ran[c[1]] = 0

\* A function not called yet has a waiting cell or a lost one.
OnItsWay ==
    \A p \in Post : Awaited(p) =>
        \E k \in {"post", "hop"} : Waiting(<<p, k>>) \/ <<p, k>> \in lost

\* An lvalue function posted by address has no closure to delete.
RefOwnsNothing ==
    \A c \in Cell : Reached(c) /\ Kind(c) = "ref" => heap[c] = "none"

\* All of it together: what every step preserves.
IInv ==
    /\ TypeOK
    /\ UniqueOwner
    /\ NoUseAfterFree
    /\ OnePlace
    /\ OnlyLostLeak
    /\ AtMostOnce
    /\ PcMatchesRun
    /\ CellsInOrder
    /\ NotYetCalled
    /\ OnItsWay
    /\ RefOwnsNothing

\* When callers do not destroy what a post refers to before its function was
\* called, no callback touches a dead function, a dead queue or a null handle,
\* though the other queue is moved or assigned meanwhile (queue.hpp:308-326).
NoCrash == crash = "no"

\* A function sent to another queue is called by the thread of the base that
\* this queue holds, and by no other, when it is not moved or assigned while the
\* function is on its way (queue.hpp:308-326).
CalledWhereSent ==
    \A b \in Base, p \in Post :
        Awaited(p) /\ (<<p, "hop">> \in pend[b] \/ run[b] = <<p, "hop">>)
            => handle[call[p].to] = b

\* loop_break() during dispatch(): no callback starts any more and
\* dispatch() returns, whatever is posted meanwhile.
BreakEndsLoop ==
    \A b \in Base :
        (loop[b] = "dispatch" /\ "break" \in stop[b])
            ~> (loop[b] = "idle" \/ crash # "no")

\* A cell that waits on a base nobody runs.
Stalled(p) == \E b \in Base, k \in {"post", "hop"} :
                 loop[b] = "idle" /\ <<p, k>> \in pend[b]

\* An accepted function is called, unless one of its cells is lost or waits
\* on a base whose loop is not running.
Delivered ==
    \A p \in Post :
        Awaited(p) ~> \/ ran[p] > 0 \/ Stalled(p) \/ crash # "no"
                      \/ <<p, "post">> \in lost \/ <<p, "hop">> \in lost

\* queue.hpp:111-112 on dispatch(): "true - has events, false - no events".
DispatchTellsEvents ==
    [][\A b \in Base : loop[b] = "dispatch" /\ loop'[b] = "idle" =>
          DispatchResult(b) = HasEvents(b)]_vars
=============================================================================
