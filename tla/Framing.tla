------------------------------ MODULE Framing -------------------------------
(***************************************************************************)
(* wslay::context and wslay::handler (wslay/context.hpp): websocket framing. *)
(* A context has a wslay event context, which has the address of the object  *)
(* and calls it back from receive(); the object passes the call to the       *)
(* member functions that its handler was given.                              *)
(*                                                                          *)
(* One thread.  A callback may call everything but receive(): `run` has room *)
(* for one call of wslay_event_recv.  A handler outlives the contexts that   *)
(* refer to it, and a callback that throws through wslay is left out.  Pings *)
(* and pongs are not told apart from frames that do not end a message.       *)
(***************************************************************************)
EXTENDS Integers

CONSTANTS
    Obj,        \* storage for context objects
    Hnd,        \* handlers
    Ctx,        \* event contexts that wslay ever makes (bounds them)
    MaxMsg,     \* messages that an event context accepts (bounds them)
    None        \* null

ASSUME FramingAssumption ==
    /\ None \notin Obj \cup Hnd \cup Ctx
    /\ MaxMsg \in Nat

VARIABLES
    life,       \* of an object: "raw" or "live"
    handler,    \* handler_ of an object
    wslay,      \* wslay_ of an object
    holder,     \* objects that a context::holder refers to
    fns,        \* of a handler: which of its member functions are set
    ctx,        \* of an event context: "new", "live", "freed"
    user,       \* the address it was given
    role,       \* "client" or "server"
    accepted,   \* how many messages it accepted, numbered from 1
    taken,      \* how many of them left its queue
    begun,      \* event contexts that have written a part of the last of these
    sent,       \* the messages it has written
    closing,    \* event contexts that queued a close frame
    stopped,    \* those that write no more
    deaf,       \* those that read no more
    run,        \* the call of wslay_event_recv
    copied,     \* objects that were copied, or made as a copy
    left,       \* event contexts whose object ended without destroy()
    over,       \* those over which an object made another one
    due,        \* what an event context had taken when it queued its close frame
    maskless,   \* event contexts whose genmask failed
    crash       \* what ended the program

objects == <<life, handler, wslay, holder>>
messages == <<accepted, taken, begun, sent>>
frames == <<messages, closing, stopped, deaf, due, maskless>>
natives == <<ctx, user, role>>
history == <<copied, left, over>>
vars == <<objects, fns, natives, frames, run, history, crash>>

Fn == {"receive", "message"}

\* "loop": inside wslay, which has parsed nothing since the last callback;
\* "data": it has bytes to parse; otherwise the function that it called.
Idle == [ctx |-> None, at |-> "idle"]

UserRuns == run.at \in {"idle"} \cup Fn

-----------------------------------------------------------------------------
(* Mistakes: variants of the definitions below that the code could have had. *)
(* Nothing uses them; the properties tell each of them from the code.       *)

\* wslay_ is not a null pointer at first.
ConstructGarbage(o, h) ==
    /\ life[o] = "raw"
    /\ life' = [life EXCEPT ![o] = "live"]
    /\ handler' = [handler EXCEPT ![o] = h]
    /\ wslay' = [wslay EXCEPT ![o] = "garbage"]
    /\ UNCHANGED <<holder, fns, natives, frames, run, history, crash>>

\* destroy() forgets the event context without freeing it.
ReleaseKeeps(o) ==
    /\ wslay' = [wslay EXCEPT ![o] = None]
    /\ UNCHANGED <<ctx, crash>>

\* destroy() does not reset wslay_.
ReleaseAgain(o) ==
    IF wslay[o] = None
    THEN UNCHANGED <<wslay, ctx, crash>>
    ELSE /\ ctx' = [ctx EXCEPT ![wslay[o]] = "freed"]
         /\ crash' = IF ctx[wslay[o]] = "freed" THEN "freedTwice" ELSE "no"
         /\ UNCHANGED wslay

\* A server asks for masks too.
MasksAll(n) == TRUE

-----------------------------------------------------------------------------
Init ==
    /\ life = [o \in Obj |-> "raw"]
    /\ handler = [o \in Obj |-> None]
    /\ wslay = [o \in Obj |-> None]
    /\ holder = {}
    /\ fns \in [Hnd -> {{}, Fn}]
    /\ ctx = [n \in Ctx |-> "new"]
    /\ user = [n \in Ctx |-> None]
    /\ role = [n \in Ctx |-> None]
    /\ accepted = [n \in Ctx |-> 0]
    /\ taken = [n \in Ctx |-> 0]
    /\ begun = {}
    /\ sent = [n \in Ctx |-> {}]
    /\ closing = {} /\ stopped = {} /\ deaf = {}
    /\ run = Idle
    /\ due = [n \in Ctx |-> 0]
    /\ maskless = {}
    /\ copied = {} /\ left = {} /\ over = {}
    /\ crash = "no"

\* set(receive_fn) and set(message_fn), one at a time.
Set(h, f) ==
    /\ fns' = [fns EXCEPT ![h] = @ \cup {f}]
    /\ UNCHANGED <<objects, natives, frames, run, history, crash>>

-----------------------------------------------------------------------------
(* Objects.                                                                 *)

Construct(o, h) ==
    /\ life[o] = "raw"
    /\ life' = [life EXCEPT ![o] = "live"]
    /\ handler' = [handler EXCEPT ![o] = h]
    /\ UNCHANGED <<wslay, holder, fns, natives, frames, run, history, crash>>

\* The implicit copy constructor, which is also what a move calls; there is
\* no assignment, handler_ is a reference.
Copy(o, that) ==
    /\ life[o] = "raw" /\ life[that] = "live"
    /\ life' = [life EXCEPT ![o] = "live"]
    /\ handler' = [handler EXCEPT ![o] = handler[that]]
    /\ wslay' = [wslay EXCEPT ![o] = wslay[that]]
    /\ copied' = copied \cup {o, that}
    /\ UNCHANGED <<holder, fns, natives, frames, run, left, over, crash>>

\* The destructor does nothing with the event context.
Destruct(o) ==
    /\ life[o] = "live"
    /\ life' = [life EXCEPT ![o] = "raw"]
    /\ handler' = [handler EXCEPT ![o] = None]
    /\ wslay' = [wslay EXCEPT ![o] = None]
    /\ left' = left \cup ({wslay[o]} \ {None})
    /\ UNCHANGED <<holder, fns, natives, frames, run, copied, over, crash>>

\* client() and server() look at nothing that was there before.
Make(o, n, r) ==
    /\ life[o] = "live" /\ ctx[n] = "new"
    /\ wslay' = [wslay EXCEPT ![o] = n]
    /\ ctx' = [ctx EXCEPT ![n] = "live"]
    /\ user' = [user EXCEPT ![n] = o]
    /\ role' = [role EXCEPT ![n] = r]
    /\ over' = over \cup ({wslay[o]} \ {None})
    /\ UNCHANGED <<life, handler, holder, fns, frames, run, copied, left, crash>>

\* They throw when wslay has no memory: it may have written a null pointer.
MakeFails(o) ==
    /\ life[o] = "live" /\ wslay[o] # None
    /\ wslay' = [wslay EXCEPT ![o] = None]
    /\ over' = over \cup {wslay[o]}
    /\ UNCHANGED <<life, handler, holder, fns, natives, frames, run, copied,
                   left, crash>>

\* destroy().
Release(o) ==
    IF wslay[o] = None
    THEN UNCHANGED <<wslay, ctx, crash>>
    ELSE /\ ctx' = [ctx EXCEPT ![wslay[o]] = "freed"]
         /\ crash' = IF ctx[wslay[o]] = "freed" THEN "freedTwice" ELSE "no"
         /\ wslay' = [wslay EXCEPT ![o] = None]

Destroy(o) ==
    /\ life[o] = "live"
    /\ Release(o)
    /\ UNCHANGED <<life, handler, holder, fns, user, role, frames, run, history>>

Hold(o) ==
    /\ life[o] = "live"
    /\ holder' = holder \cup {o}
    /\ UNCHANGED <<life, handler, wslay, fns, natives, frames, run, history, crash>>

\* ~holder, which does not know whether its context is still there.
HolderEnds(o) ==
    /\ o \in holder
    /\ holder' = holder \ {o}
    /\ IF life[o] = "live" THEN Release(o)
       ELSE crash' = "deadContextHeld" /\ UNCHANGED <<wslay, ctx>>
    /\ UNCHANGED <<life, handler, fns, user, role, frames, run, history>>

-----------------------------------------------------------------------------
(* Frames out.                                                              *)

\* An operation on an event context that is there; assert_handle() stops the
\* others, and nothing stops one that a copy has freed.
Native(o) == life[o] = "live" /\ wslay[o] # None /\ ctx[wslay[o]] = "live"

Misuse(o) ==
    /\ life[o] = "live" /\ ~Native(o)
    /\ crash' = IF wslay[o] = None THEN "assertion" ELSE "freedInUse"
    /\ UNCHANGED <<objects, fns, natives, frames, run, history>>

Open(n) == n \notin closing \cup stopped

\* queue_msg, queue_text, queue_binary: they throw when wslay refuses.
QueueMsg(o) ==
    /\ Native(o) /\ Open(wslay[o])
    /\ accepted[wslay[o]] < MaxMsg
    /\ accepted' = [accepted EXCEPT ![wslay[o]] = @ + 1]
    /\ UNCHANGED <<objects, fns, natives, taken, begun, sent, closing, stopped,
                   deaf, due, maskless, run, history, crash>>

\* wslay takes a close frame when it would take a message.
Close(n) ==
    IF Open(n)
    THEN closing' = closing \cup {n} /\ due' = [due EXCEPT ![n] = taken[n]]
    ELSE UNCHANGED <<closing, due>>

\* queue_close: that wslay refuses, for the length of the text too, is told
\* to nobody.
QueueClose(o) ==
    /\ Native(o) /\ Close(wslay[o])
    /\ UNCHANGED <<objects, fns, natives, messages, stopped, deaf, maskless,
                   run, history, crash>>

\* wslay asks for a mask when it begins a frame of a client.  genmask fails
\* when RAND_bytes returns -1, and takes 0, which is a failure too, for bytes.
Masks(n) == role[n] = "client"
NoMask(n, rc) == Masks(n) /\ rc = -1

\* What write() does with frame after frame, until its buffer is full.  The
\* message that was begun comes first.
WriteRest(o) ==
    /\ Native(o)
    /\ LET n == wslay[o] IN
        /\ n \notin stopped /\ n \in begun
        /\ begun' = begun \ {n}
        /\ sent' = [sent EXCEPT ![n] = @ \cup {taken[n]}]
    /\ UNCHANGED <<objects, fns, natives, accepted, taken, closing, stopped,
                   deaf, due, maskless, run, history, crash>>

\* The close frame goes before the messages in the queue, and is the last.
WriteClose(o, rc) ==
    /\ Native(o)
    /\ LET n == wslay[o] IN
        /\ n \notin stopped \cup begun /\ n \in closing
        /\ stopped' = stopped \cup {n}
        /\ maskless' = IF NoMask(n, rc) THEN maskless \cup {n} ELSE maskless
    /\ UNCHANGED <<objects, fns, natives, messages, closing, deaf, due, run,
                   history, crash>>

\* A message leaves the queue: wslay writes all of it or a part, or, without a
\* mask, nothing any more.
WriteMsg(o, rc, whole) ==
    /\ Native(o)
    /\ LET n == wslay[o] IN
        /\ n \notin stopped \cup begun \cup closing
        /\ taken[n] < accepted[n]
        /\ taken' = [taken EXCEPT ![n] = @ + 1]
        /\ IF NoMask(n, rc)
           THEN /\ stopped' = stopped \cup {n}
                /\ maskless' = maskless \cup {n}
                /\ UNCHANGED <<begun, sent>>
           ELSE /\ begun' = IF whole THEN begun ELSE begun \cup {n}
                /\ sent' = IF whole
                           THEN [sent EXCEPT ![n] = @ \cup {taken[n] + 1}]
                           ELSE sent
                /\ UNCHANGED <<stopped, maskless>>
    /\ UNCHANGED <<objects, fns, natives, accepted, closing, deaf, due, run,
                   history, crash>>

-----------------------------------------------------------------------------
(* Frames in: receive() and what wslay_event_recv calls.                     *)

\* An event context that reads no more calls nothing.
Receive(o) ==
    /\ run = Idle /\ Native(o) /\ wslay[o] \notin deaf
    /\ run' = [ctx |-> wslay[o], at |-> "loop"]
    /\ UNCHANGED <<objects, fns, natives, frames, history, crash>>

\* The handler reached through `this`.  wslay_message asserts receive_fn_, and
\* calls message_fn_ as it is.
Callback(f) ==
    LET o == user[run.ctx] IN
    /\ run' = [run EXCEPT !.at = f]
    /\ crash' = IF life[o] = "raw" THEN "deadContextCalled"
                ELSE IF "receive" \notin fns[handler[o]] THEN "assertion"
                ELSE IF f \notin fns[handler[o]] THEN "nullFunctionCalled"
                ELSE "no"

RecvCb ==
    /\ run.at = "loop"
    /\ Callback("receive")
    /\ UNCHANGED <<objects, fns, natives, frames, history>>

\* A callback returns into wslay_event_recv; after recvcb there may be data,
\* or nothing ("idle"), or an error, which receive() throws and after which
\* nothing is read any more.
CallbackReturns(next) ==
    /\ run.at \in Fn
    /\ next \in {"data", "error"} => run.at = "receive"
    /\ run.ctx \in deaf => next = "idle"
    /\ IF ctx[run.ctx] = "freed"
       THEN crash' = "freedInCallback" /\ UNCHANGED <<run, deaf>>
       ELSE /\ run' = IF next \in {"idle", "error"} THEN Idle
                      ELSE [run EXCEPT !.at = next]
            /\ deaf' = IF next = "error" THEN deaf \cup {run.ctx} ELSE deaf
            /\ UNCHANGED crash
    /\ UNCHANGED <<objects, fns, natives, messages, closing, stopped, due,
                   maskless, history>>

\* The data does not end a frame.
Partial ==
    /\ run.at = "data"
    /\ run' = [run EXCEPT !.at = "loop"]
    /\ UNCHANGED <<objects, fns, natives, frames, history, crash>>

\* What wslay does at a close frame, or at a frame that is none: it queues a
\* close frame of its own and reads no more.
Answer ==
    /\ Close(run.ctx)
    /\ deaf' = deaf \cup {run.ctx}
    /\ UNCHANGED <<messages, stopped, maskless>>

\* The data is no frame: no callback, and receive() does not throw.
Invalid ==
    /\ run.at = "data"
    /\ Answer
    /\ run' = Idle
    /\ UNCHANGED <<objects, fns, natives, history, crash>>

\* It ends a message, which msgcb is given; for a close frame the answer is
\* queued first.
MsgCb(close) ==
    /\ run.at = "data"
    /\ IF close THEN Answer ELSE UNCHANGED frames
    /\ Callback("message")
    /\ UNCHANGED <<objects, fns, natives, history>>

-----------------------------------------------------------------------------
User ==
    \/ \E h \in Hnd, f \in Fn : Set(h, f)
    \/ \E o \in Obj :
        \/ Destruct(o)
        \/ MakeFails(o)
        \/ Destroy(o)
        \/ Hold(o)
        \/ HolderEnds(o)
        \/ Misuse(o)
        \/ QueueMsg(o)
        \/ QueueClose(o)
        \/ Receive(o)
        \/ \E h \in Hnd : Construct(o, h)
        \/ \E that \in Obj : Copy(o, that)
        \/ WriteRest(o)
        \/ \E rc \in {1, 0, -1} : WriteClose(o, rc)
        \/ \E rc \in {1, 0, -1}, whole \in BOOLEAN : WriteMsg(o, rc, whole)
        \/ \E n \in Ctx, r \in {"client", "server"} : Make(o, n, r)

Next ==
    /\ crash = "no"
    /\ \/ UserRuns /\ User
       \/ RecvCb
       \/ \E next \in {"data", "loop", "idle", "error"} : CallbackReturns(next)
       \/ Partial
       \/ Invalid
       \/ \E close \in BOOLEAN : MsgCb(close)

Spec == Init /\ [][Next]_vars

-----------------------------------------------------------------------------
(* Properties.                                                              *)

TypeOK ==
    /\ life \in [Obj -> {"raw", "live"}]
    /\ handler \in [Obj -> Hnd \cup {None}]
    /\ wslay \in [Obj -> Ctx \cup {None}]
    /\ holder \subseteq Obj
    /\ fns \in [Hnd -> SUBSET Fn]
    /\ ctx \in [Ctx -> {"new", "live", "freed"}]
    /\ user \in [Ctx -> Obj \cup {None}]
    /\ role \in [Ctx -> {"client", "server", None}]
    /\ accepted \in [Ctx -> 0 .. MaxMsg]
    /\ taken \in [Ctx -> 0 .. MaxMsg]
    /\ begun \subseteq Ctx
    /\ sent \in [Ctx -> SUBSET (1 .. MaxMsg)]
    /\ closing \subseteq Ctx /\ stopped \subseteq Ctx /\ deaf \subseteq Ctx
    /\ due \in [Ctx -> 0 .. MaxMsg]
    /\ maskless \subseteq Ctx
    /\ run \in [ctx : Ctx \cup {None}, at : {"idle", "loop", "data"} \cup Fn]
    /\ copied \subseteq Obj /\ left \subseteq Ctx /\ over \subseteq Ctx
    /\ crash \in {"no", "assertion", "freedTwice", "freedInUse",
                  "freedInCallback", "deadContextHeld",
                  "deadContextCalled", "nullFunctionCalled"}

\* What an event context calls back is the object that has it, through copies,
\* destroy() in a callback and the end of a holder, unless an object ended, or
\* made another one, without destroy() (context.hpp:126-171, 184-191, 257-260).
KnowsItsObject ==
    \A n \in Ctx : ctx[n] = "live" /\ n \notin left \cup over =>
        life[user[n]] = "live" /\ wslay[user[n]] = n

\* Only a context that was copied shares its event context, or is left with
\* one that was freed: nobody else frees it twice or uses it after
\* (context.hpp:69, 126, 184-191).
OnlyCopiesShare ==
    /\ \A o \in Obj \ copied : life[o] = "live" /\ wslay[o] # None =>
        /\ ctx[wslay[o]] = "live"
        /\ \A p \in Obj : life[p] = "live" /\ wslay[p] = wslay[o] => p = o
    /\ crash \in {"freedTwice", "freedInUse"} => copied # {}

\* A dead context is called only when it ended, or made another event context,
\* without destroy(), in a callback of its own or with a copy of it left.
CalledAlive == crash = "deadContextCalled" => run.ctx \in left \cup over

\* An event context that writes no more has written its close frame, and before
\* it the messages it had taken up when that frame was queued, by queue_close
\* or as an answer, all of each of them: those behind are lost.  Only that
\* genmask fails ends the writing of a client, never of a server, earlier; and
\* no message is written when one before it is missing (context.hpp:83-95,
\* 193-223, 235-238).
OnlyCloseOvertakes ==
    /\ \A n \in stopped \ maskless :
        n \in closing \ begun /\ sent[n] = 1 .. due[n]
    /\ \A n \in maskless : role[n] = "client"
    /\ \A n \in Ctx : \A i \in sent[n] : 1 .. i \subseteq sent[n]

\* What the asserts of handler say: a member function that was not set is never
\* called (context.hpp:34-35, 40, 46, 53, 59).
NullNeverCalled == crash # "nullFunctionCalled"

\* Event contexts are apart and alive, but for copies and for those that were
\* left without destroy() in use.
ContextsApart == OnlyCopiesShare /\ CalledAlive
=============================================================================
