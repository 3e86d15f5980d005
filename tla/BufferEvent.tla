---------------------------- MODULE BufferEvent ----------------------------
(***************************************************************************)
(* buffer_event (buffer_event.hpp), its twin bev (tcp/bev.hpp), the callback *)
(* object bevfn (tcp/bevfn.hpp) and bevtls (ssl/bevsock.hpp): objects that   *)
(* own a bufferevent of libevent, which keeps the address of a bevfn and, in *)
(* its output, of the functions given to write_ref() and write().            *)
(*                                                                          *)
(* One thread; what is difficult is re-entrance.  The functions of a bevfn   *)
(* are called by the loop and may call every operation, and a bufferevent    *)
(* that is freed goes away only when the loop finds the time.                *)
(***************************************************************************)
EXTENDS Sequences, Naturals, SequencesExt

CONSTANTS
    Obj,        \* storage for bev and buffer_event objects
    Bev,        \* attempts to make a bufferevent (bounds them)
    Handler,    \* storage for bevfn objects
    Write,      \* calls of the write operations (bounds them)
    None        \* null

BufferEventNames ==
    /\ None \notin Obj \cup Bev \cup Handler \cup Write
    /\ "raw" \notin Bev

ASSUME BufferEventAssumption == BufferEventNames

VARIABLES
    handle,     \* hbev_ of an object; "raw" where there is none
    state,      \* of a bufferevent: "new", "live", "closing" once it is
                \* freed, "gone" once the loop has finalised it
    ssl,        \* the SSL made for it: "none", "live", "freed"
    closes,     \* those made with BEV_OPT_CLOSE_ON_FREE
    failed,     \* attempts whose bufferevent could not be made
    orphan,     \* those whose handle was overwritten
    conn,       \* "idle", "connecting", "connected", "down"
    cb,         \* the bevfn libevent has the address of
    fns,        \* the functions set in a bevfn; none where there is no bevfn
    out,        \* what a bufferevent has in its output, as the writes it is of
    kind,       \* "new", "copy", "ref" or "copyfn": what write was called
    heap,       \* the std::function of a write is on the heap
    mem,        \* the copy of its data is on the heap
    lost,       \* writes that were refused
    cleaned,    \* how often the function was called
    run,        \* the callback the loop is in
    crash       \* what ended the program

objects == <<handle, orphan>>
bevs == <<state, ssl, closes, failed, conn>>
writes == <<out, kind, heap, mem, lost, cleaned>>
calls == <<cb, fns, run, crash>>
vars == <<objects, bevs, writes, calls>>

Idle == [bev |-> None, fn |-> "none"]

Held(o) == handle[o] \notin {None, "raw"}

-----------------------------------------------------------------------------
(* Mistakes: variants of the definitions below that the code could have had. *)
(* Nothing uses them; the properties tell each of them from the code.       *)

\* destroy() forgets to clear hbev_.
DestroyKeeps(o) ==
    /\ Held(o)
    /\ state' = [state EXCEPT ![handle[o]] = "closing"]
    /\ cb' = [cb EXCEPT ![handle[o]] = None]
    /\ UNCHANGED <<objects, ssl, closes, failed, conn, writes, fns, run, crash>>

\* clean_fn does not delete the function.
CleanKeeps(ws) ==
    /\ cleaned' = [w \in Write |-> IF w \in ws /\ w \in heap
                                   THEN cleaned[w] + 1 ELSE cleaned[w]]
    /\ mem' = mem \ ws
    /\ UNCHANGED heap

\* Only a success is reported.
EventFnSilent(what) == IF what = "connected" THEN "connect" ELSE "none"

\* The function is deleted and not called.
CleanSilent(ws) ==
    /\ UNCHANGED cleaned
    /\ heap' = heap \ ws
    /\ mem' = mem \ ws

-----------------------------------------------------------------------------
Init ==
    /\ handle = [o \in Obj |-> "raw"]
    /\ state = [b \in Bev |-> "new"]
    /\ ssl = [b \in Bev |-> "none"]
    /\ closes = {} /\ failed = {} /\ orphan = {}
    /\ conn = [b \in Bev |-> "idle"]
    /\ cb = [b \in Bev |-> None]
    /\ fns = [h \in Handler |-> {}]
    /\ out = [b \in Bev |-> <<>>]
    /\ kind = [w \in Write |-> "new"]
    /\ heap = {} /\ mem = {} /\ lost = {}
    /\ cleaned = [w \in Write |-> 0]
    /\ run = Idle
    /\ crash = "no"

-----------------------------------------------------------------------------
(* Objects.                                                                 *)

Construct(o) ==
    /\ handle[o] = "raw"
    /\ handle' = [handle EXCEPT ![o] = None]
    /\ UNCHANGED <<orphan, bevs, writes, calls>>

\* attach() and create() overwrite hbev_ whatever it is.
Overwrite(o, b) ==
    /\ handle' = [handle EXCEPT ![o] = b]
    /\ orphan' = IF Held(o) THEN orphan \cup {handle[o]} ELSE orphan

\* create(queue, sock, opt), with no socket or one that accept() gave; when
\* bufferevent_socket_new fails nothing is changed.
Create(o, b, opt, sock) ==
    /\ handle[o] # "raw"
    /\ state[b] = "new"
    /\ Overwrite(o, b)
    /\ state' = [state EXCEPT ![b] = "live"]
    /\ closes' = IF opt THEN closes \cup {b} ELSE closes
    /\ conn' = IF sock THEN [conn EXCEPT ![b] = "connected"] ELSE conn
    /\ UNCHANGED <<ssl, failed, writes, calls>>

\* attach(hbev), and the constructor from a handle: one nobody owns.
Attach(o, b) ==
    /\ b \in orphan /\ state[b] = "live"
    /\ \A p \in Obj : handle[p] # b
    /\ Overwrite(o, b)
    /\ UNCHANGED <<bevs, writes, calls>>

\* bufferevent_free: no more callbacks; the loop does the rest.
Free(b) ==
    /\ state' = [state EXCEPT ![b] = "closing"]
    /\ cb' = [cb EXCEPT ![b] = None]

Destroy(o) ==
    /\ Held(o)
    /\ Free(handle[o])
    /\ handle' = [handle EXCEPT ![o] = None]
    /\ UNCHANGED <<orphan, ssl, closes, failed, conn, writes, fns, run, crash>>

Destruct(o) ==
    /\ handle[o] # "raw"
    /\ IF Held(o) THEN Free(handle[o]) ELSE UNCHANGED <<state, cb>>
    /\ handle' = [handle EXCEPT ![o] = "raw"]
    /\ UNCHANGED <<orphan, ssl, closes, failed, conn, writes, fns, run, crash>>

\* std::swap(hbev_, other.hbev_), over null in a new object.
Swap(o, that) == [handle EXCEPT ![o] = handle[that], ![that] = handle[o]]

MoveConstruct(o, that) ==
    /\ handle[o] = "raw" /\ handle[that] # "raw"
    /\ handle' = [Swap(o, that) EXCEPT ![that] = None]
    /\ UNCHANGED <<orphan, bevs, writes, calls>>

MoveAssign(o, that) ==
    /\ o # that /\ handle[o] # "raw" /\ handle[that] # "raw"
    /\ handle' = Swap(o, that)
    /\ UNCHANGED <<orphan, bevs, writes, calls>>

\* connect(); when libevent refuses, an exception and no change.
Connect(o) ==
    /\ Held(o) /\ conn[handle[o]] = "idle"
    /\ conn' = [conn EXCEPT ![handle[o]] = "connecting"]
    /\ UNCHANGED <<objects, state, ssl, closes, failed, writes, calls>>

-----------------------------------------------------------------------------
(* bevtls.                                                                  *)

\* bev_.destroy(); bev_.attach(hbev);
Replace(o, b) ==
    /\ handle' = [handle EXCEPT ![o] = b]
    /\ state' = [c \in Bev |-> IF c = b THEN "live"
                               ELSE IF c = handle[o] THEN "closing"
                               ELSE state[c]]
    /\ cb' = [c \in Bev |-> IF c = handle[o] THEN None ELSE cb[c]]
    /\ UNCHANGED orphan

\* With a socket the handshake begins; without one connect() is to come.
CreateTls(o, b, opt, sock) ==
    /\ handle[o] # "raw"
    /\ state[b] = "new"
    /\ Replace(o, b)
    /\ ssl' = [ssl EXCEPT ![b] = "live"]
    /\ closes' = IF opt THEN closes \cup {b} ELSE closes
    /\ conn' = IF sock THEN [conn EXCEPT ![b] = "connecting"] ELSE conn
    /\ UNCHANGED <<failed, writes, fns, run, crash>>

\* The SSL was made and bufferevent_openssl_socket_new fails: SSL_shutdown
\* does not free it, and the exception takes its last pointer away.
CreateTlsFails(o, b) ==
    /\ handle[o] # "raw"
    /\ state[b] = "new"
    /\ state' = [state EXCEPT ![b] = "gone"]
    /\ ssl' = [ssl EXCEPT ![b] = "live"]
    /\ failed' = failed \cup {b}
    /\ UNCHANGED <<objects, closes, conn, writes, calls>>

\* bevtls::connect, of a bufferevent that has an SSL; an exception otherwise.
ConnectTls(o) ==
    /\ Held(o) /\ ssl[handle[o]] # "none"
    /\ Connect(o)

\* destory(), shutdown() and connect() ask libevent for the SSL of whatever
\* hbev_ is.
TlsOfNull(o) ==
    /\ handle[o] = None
    /\ crash' = "nullBufferevent"
    /\ UNCHANGED <<objects, bevs, writes, cb, fns, run>>

-----------------------------------------------------------------------------
(* Callback objects.                                                         *)

\* bevfn(self, event_fn), or with all four functions.
MakeHandler(h, all) ==
    /\ fns[h] = {}
    /\ fns' = [fns EXCEPT ![h] = IF all THEN {"event", "connect", "send", "recv"}
                                        ELSE {"event"}]
    /\ UNCHANGED <<objects, bevs, writes, cb, run, crash>>

\* on_connect, on_send, on_recv.
On(h, fn) ==
    /\ fns[h] # {}
    /\ fns' = [fns EXCEPT ![h] = @ \cup {fn}]
    /\ UNCHANGED <<objects, bevs, writes, cb, run, crash>>

\* A caller who destroys a bevfn has destroyed the objects it was set on.
DropHandler(h) ==
    /\ fns[h] # {}
    /\ \A o \in Obj : Held(o) => cb[handle[o]] # h
    /\ fns' = [fns EXCEPT ![h] = {}]
    /\ UNCHANGED <<objects, bevs, writes, cb, run, crash>>

\* bev::set(bevfn&), bevfn::apply.
SetCallbacks(o, h) ==
    /\ Held(o) /\ fns[h] # {}
    /\ cb' = [cb EXCEPT ![handle[o]] = h]
    /\ UNCHANGED <<objects, bevs, writes, fns, run, crash>>

-----------------------------------------------------------------------------
(* Writing.                                                                  *)

\* write(data, size) and write(buffer) ("copy"), write_ref(data, size, fn)
\* ("ref"), write(data, size, fn) ("copyfn").
WriteOp(o, w, k) ==
    /\ Held(o) /\ kind[w] = "new"
    /\ kind' = [kind EXCEPT ![w] = k]
    /\ heap' = IF k = "copy" THEN heap ELSE heap \cup {w}
    /\ mem' = IF k = "copyfn" THEN mem \cup {w} ELSE mem
    /\ out' = [out EXCEPT ![handle[o]] = Append(@, w)]
    /\ UNCHANGED <<objects, bevs, lost, cleaned, calls>>

\* malloc or evbuffer_add_reference fails after the function was copied to
\* the heap: the exception leaves it there, and the copy of the data.
WriteRefused(o, w, k) ==
    /\ Held(o) /\ kind[w] = "new"
    /\ kind' = [kind EXCEPT ![w] = k]
    /\ heap' = IF k = "copy" THEN heap ELSE heap \cup {w}
    /\ \/ UNCHANGED mem
       \/ k = "copyfn" /\ mem' = mem \cup {w}
    /\ lost' = lost \cup {w}
    /\ UNCHANGED <<objects, bevs, out, cleaned, calls>>

\* clean_fn and clean_fn_all: the copy is freed, the function is called, what
\* it throws is dropped, and it is deleted.
Clean(ws) ==
    /\ cleaned' = [w \in Write |-> IF w \in ws /\ w \in heap
                                   THEN cleaned[w] + 1 ELSE cleaned[w]]
    /\ heap' = heap \ ws
    /\ mem' = mem \ ws

-----------------------------------------------------------------------------
(* The loop of libevent.                                                     *)

\* evcb, sendcb, recvcb: the member function of the bevfn is called, whatever
\* is at its address; a null pointer to member is a failed assertion, or
\* undefined.
Call(b, fn) ==
    LET h == cb[b] IN
    /\ run' = IF h = None \/ fn = "none" THEN Idle ELSE [bev |-> b, fn |-> fn]
    /\ crash' = IF h = None \/ fn = "none" THEN "no"
                ELSE IF fns[h] = {} THEN "deadBevfn"
                ELSE IF fn \notin fns[h] THEN "nullFunction"
                ELSE "no"

\* bevfn::do_evcb.
EventFn(what) == IF what = "connected" THEN "connect" ELSE "event"

Event(b, what) ==
    /\ run = Idle /\ state[b] = "live"
    /\ \/ conn[b] = "connecting"
       \/ conn[b] = "connected" /\ what = "down"
    /\ conn' = [conn EXCEPT ![b] = what]
    /\ Call(b, EventFn(what))
    /\ UNCHANGED <<objects, state, ssl, closes, failed, writes, cb, fns>>

Receive(b) ==
    /\ run = Idle /\ state[b] = "live" /\ conn[b] = "connected"
    /\ cb[b] # None
    /\ Call(b, "recv")
    /\ UNCHANGED <<objects, bevs, writes, cb, fns>>

\* The first write is sent and its bytes are freed; the send callback comes
\* when nothing is left.
Flush(b) ==
    /\ run = Idle /\ state[b] = "live" /\ conn[b] = "connected"
    /\ out[b] # <<>>
    /\ out' = [out EXCEPT ![b] = Tail(@)]
    /\ Clean({Head(out[b])})
    /\ Call(b, IF Len(out[b]) = 1 THEN "send" ELSE "none")
    /\ UNCHANGED <<objects, bevs, kind, lost, cb, fns>>

\* A freed bufferevent is finalised, with what is left in its output.
Finalize(b) ==
    /\ run = Idle /\ state[b] = "closing"
    /\ state' = [state EXCEPT ![b] = "gone"]
    /\ ssl' = IF ssl[b] = "live" /\ b \in closes
              THEN [ssl EXCEPT ![b] = "freed"] ELSE ssl
    /\ out' = [out EXCEPT ![b] = <<>>]
    /\ Clean(ToSet(out[b]))
    /\ UNCHANGED <<objects, closes, failed, conn, kind, lost, calls>>

\* The function returns.
Leave ==
    /\ run # Idle
    /\ run' = Idle
    /\ UNCHANGED <<objects, bevs, writes, cb, fns, crash>>

-----------------------------------------------------------------------------
Loop ==
    \/ \E b \in Bev :
        \/ Receive(b)
        \/ Flush(b)
        \/ Finalize(b)
        \/ \E what \in {"connected", "down"} : Event(b, what)
    \/ Leave

User ==
    \/ \E o \in Obj :
        \/ Construct(o)
        \/ Destroy(o)
        \/ Destruct(o)
        \/ TlsOfNull(o)
        \/ Connect(o)
        \/ ConnectTls(o)
        \/ \E that \in Obj : MoveConstruct(o, that) \/ MoveAssign(o, that)
        \/ \E b \in Bev : \/ Attach(o, b)
                          \/ CreateTlsFails(o, b)
                          \/ \E opt, sock \in BOOLEAN :
                                \/ Create(o, b, opt, sock)
                                \/ CreateTls(o, b, opt, sock)
        \/ \E h \in Handler : SetCallbacks(o, h)
        \/ \E w \in Write, k \in {"copy", "ref", "copyfn"} :
                WriteOp(o, w, k) \/ WriteRefused(o, w, k)
    \/ \E h \in Handler :
        \/ DropHandler(h)
        \/ \E all \in BOOLEAN : MakeHandler(h, all)
        \/ \E fn \in {"connect", "send", "recv"} : On(h, fn)

Next ==
    /\ crash = "no"
    /\ Loop \/ User

Spec == Init /\ [][Next]_vars

\* The thread stays in the loop: a connection is answered, what was freed is
\* finalised, and a callback returns.  Nothing is asked of a TLS connection: a
\* peer that is silent in the handshake has no timeout.
Fairness ==
    /\ WF_vars(crash = "no" /\ Leave)
    /\ \A b \in Bev :
        /\ WF_vars(crash = "no" /\ Finalize(b))
        /\ SF_vars(/\ crash = "no"
                   /\ conn[b] = "connecting" /\ ssl[b] = "none"
                   /\ \E what \in {"connected", "down"} : Event(b, what))

FairSpec == Spec /\ Fairness

-----------------------------------------------------------------------------
(* Properties.                                                              *)

TypeOK ==
    /\ handle \in [Obj -> Bev \cup {None, "raw"}]
    /\ state \in [Bev -> {"new", "live", "closing", "gone"}]
    /\ ssl \in [Bev -> {"none", "live", "freed"}]
    /\ closes \subseteq Bev /\ failed \subseteq Bev /\ orphan \subseteq Bev
    /\ conn \in [Bev -> {"idle", "connecting", "connected", "down"}]
    /\ cb \in [Bev -> Handler \cup {None}]
    /\ fns \in [Handler -> SUBSET {"event", "connect", "send", "recv"}]
    /\ out \in [Bev -> Seq(Write)]
    /\ kind \in [Write -> {"new", "copy", "ref", "copyfn"}]
    /\ heap \subseteq Write /\ mem \subseteq Write /\ lost \subseteq Write
    /\ cleaned \in [Write -> Nat]
    /\ run \in [bev : Bev \cup {None},
                fn : {"none", "event", "connect", "send", "recv"}]
    /\ crash \in {"no", "nullBufferevent", "nullFunction", "deadBevfn"}

\* A bufferevent that was not freed has exactly one owner, unless attach() or
\* create() overwrote the only handle to it; one that was freed has none, so
\* it is freed once (buffer_event.hpp:48-103, bevsock.hpp:44-45).
OneOwner ==
    /\ \A b \in Bev : state[b] = "live" /\ b \notin orphan =>
        \E o \in Obj : handle[o] = b
    /\ \A o \in Obj : Held(o) =>
        /\ state[handle[o]] = "live"
        /\ \A p \in Obj : handle[p] = handle[o] => p = o

\* Bytes of the write are in the output of a bufferevent.
Waits(w) == \E b \in Bev : w \in ToSet(out[b])

\* The function of a write is called at most once; until then it and the copy
\* of its data are allocated, and afterwards both are freed, through sending,
\* destroy() in a callback and the finalisation that comes later.  What stays
\* allocated is that of a write that was refused (bev.hpp:254-326).
CleanupOnce ==
    \A w \in Write :
        /\ cleaned[w] <= 1
        /\ Waits(w) => cleaned[w] = 0
        /\ w \in heap <=> kind[w] \in {"ref", "copyfn"} /\ (Waits(w) \/ w \in lost)
        /\ w \in mem => w \in heap
        /\ Waits(w) /\ kind[w] = "copyfn" => w \in mem

\* Destroying the objects a bevfn was set on is enough before it is destroyed:
\* the loop calls a dead one only for a bufferevent whose own handle was
\* overwritten, so that nobody could destroy it (bevfn.hpp:113-118,
\* buffer_event.hpp:77-93, bevsock.hpp:44-45).
DeadOnlyOverwritten == crash = "deadBevfn" => run.bev \in orphan

\* Once connect() of a bufferevent without TLS has returned, a function of the
\* bevfn is called with the outcome, unless callbacks are changed or the
\* bufferevent is freed (bevfn.hpp:47-56).
ConnectAnswered ==
    \A b \in Bev, h \in Handler :
        /\ conn[b] = "connecting" /\ ssl[b] = "none"
        /\ cb[b] = h /\ state[b] = "live"
        ~>
            \/ run.bev = b /\ run.fn \in {"connect", "event"}
            \/ cb[b] # h \/ crash # "no"

\* The function given to a write is called once the bytes are sent or their
\* bufferevent is freed (bev.hpp:294-326); a bufferevent that is freed was
\* not forgotten.
CleanupComes ==
    \A w \in Write, b \in Bev :
        w \in ToSet(out[b]) /\ state[b] = "closing" ~>
            cleaned[w] = 1 \/ kind[w] = "copy" \/ crash # "no"

\* The SSL of a bufferevent that was made to close goes with it, from whichever
\* callback it is freed (ssl/bevsock.hpp:31-52).
SslFreed == \A b \in closes : state[b] = "gone" => ssl[b] # "live"

\* What the comment of create() says of an SSL whose bufferevent could not be
\* made: "if the socket was not created we kill the ssl" (ssl/bevsock.hpp:37).
FailedSslKilled == \A b \in failed : ssl[b] # "live"

\* Owning is enough: each bufferevent is freed once, by its object, with its
\* SSL, and none calls a bevfn that went after the objects it was set on.
OwnedUntilFreed == OneOwner /\ DeadOnlyOverwritten /\ SslFreed
=============================================================================
