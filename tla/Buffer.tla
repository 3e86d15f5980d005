------------------------------- MODULE Buffer -------------------------------
(***************************************************************************)
(* buffer.hpp: basic_buffer, as a buffer that owns its evbuffer and as a     *)
(* buffer_ref that does not, and curl/io/buffer.hpp, which reads one.        *)
(*                                                                          *)
(* Every evbuffer_* call is one step; the operations made of several calls   *)
(* are jobs, between whose steps other threads act.  An evbuffer has a lock   *)
(* only once it was given one: sync() then keeps the others off, and without  *)
(* a lock it does nothing.  Two threads in one evbuffer that has no lock is a *)
(* data race, which ends the program.                                        *)
(***************************************************************************)
EXTENDS Sequences, Naturals, SequencesExt

CONSTANTS
    Own,        \* storage for objects of class buffer
    Ref,        \* storage for objects of class buffer_ref
    Evb,        \* what evbuffer_new ever returns
    Input,      \* input evbuffers of bufferevents: their end is frozen
    Output,     \* output evbuffers of bufferevents: their front is frozen
    Byte,       \* bytes
    Thread,     \* threads that read in several calls
    None        \* null

ASSUME BufferAssumption ==
    /\ Own \cap Ref = {}
    /\ Evb \cap (Input \cup Output) = {}
    /\ Input \cap Output = {}
    /\ (Own \cup Ref) \cap (Evb \cup Input \cup Output) = {}
    /\ None \notin Own \cup Ref \cup Evb \cup Input \cup Output \cup Byte
    /\ "raw" \notin Own \cup Evb \cup Input \cup Output

Obj == Own \cup Ref
Ext == Input \cup Output
AnyEvb == Evb \cup Ext

VARIABLES
    handle,     \* hbuf_ of an object; "raw" where there is none
    live,       \* evbuffers that are allocated
    data,       \* the bytes in an evbuffer
    same,       \* the buffer a reference was taken from, while that one was
                \* neither moved nor destroyed
    locks,      \* evbuffers that have a lock
    job,        \* the read each thread is in
    crash       \* what ended the program

vars == <<handle, live, data, same, locks, job, crash>>

Idle == [op |-> "idle"]
Busy(t) == job[t] # Idle
At(t) == handle[job[t].obj]

\* The read of t has its evbuffer to itself: it is inside sync() and there is
\* a lock to hold, or there is no lock and any other thread would race.
Sole(t) == job[t].held \/ At(t) \notin locks

\* Mistake, as those below: lock() without a lock, and nobody races.
NeverLocked(ts, e) == TRUE

\* Whether the reads of the threads ts let another one into an evbuffer.
LetIn(ts, e) ==
    \A t \in ts : Busy(t) /\ At(t) = e => ~Sole(t)

\* o may be used: it refers to an evbuffer that no read keeps others from.
Usable(o) == handle[o] \in live /\ LetIn(Thread, handle[o])

\* o may be moved or destroyed: no thread is reading it, nor the evbuffer
\* that it owns.
Movable(o) ==
    /\ handle[o] # "raw"
    /\ \A t \in Thread : Busy(t) =>
        /\ job[t].obj # o
        /\ o \in Own => At(t) # handle[o]

New(e) == e \in Evb \ live

\* References to what p refers to now are no longer to the object p.
Unlinked(ps) == [r \in Ref |-> IF same[r] \in ps THEN None ELSE same[r]]

First(e, n) == SubSeq(data[e], 1, n)
Rest(e, n) == SubSeq(data[e], n + 1, Len(data[e]))

-----------------------------------------------------------------------------
(* Mistakes: variants of the definitions below that the code could have had. *)
(* Nothing uses them; the properties tell each of them from the code.       *)

\* A move that leaves its handle behind.
SwapCopies(o, that) == [handle EXCEPT ![o] = handle[that]]

\* A default constructed buffer has a handle of zero.
ConstructNull(o) ==
    /\ handle[o] = "raw"
    /\ handle' = [handle EXCEPT ![o] = None]
    /\ UNCHANGED <<live, data, same, locks, job, crash>>

\* The last n bytes are taken.
MovedFromEnd(o, out, n) ==
    LET s == data[handle[o]]
        k == Len(s) - n
    IN [data EXCEPT ![handle[out]] = @ \o SubSeq(s, k + 1, Len(s)),
                    ![handle[o]] = SubSeq(s, 1, k)]

\* append() to an empty buffer takes the evbuffer it is given.
AddBufferSwaps(o, b, front) ==
    /\ Usable(o) /\ Movable(o) /\ Movable(b) /\ o # b
    /\ o \in Own /\ data[handle[o]] = <<>>
    /\ handle' = [handle EXCEPT ![o] = handle[b], ![b] = handle[o]]
    /\ same' = Unlinked({b})
    /\ UNCHANGED <<live, data, locks, job, crash>>

-----------------------------------------------------------------------------
Init ==
    /\ handle = [o \in Obj |-> "raw"]
    /\ live = Ext
    /\ data = [e \in AnyEvb |-> <<>>]
    /\ same = [r \in Ref |-> None]
    /\ locks \in SUBSET Ext
    /\ job = [t \in Thread |-> Idle]
    /\ crash = None

-----------------------------------------------------------------------------
(* Objects.                                                                 *)

\* basic_buffer(): a new evbuffer, or null.  evbuffer_new may fail: the
\* exception leaves nothing behind.
Construct(o) ==
    /\ handle[o] = "raw"
    /\ IF o \in Own
       THEN \E e \in Evb : /\ New(e)
                           /\ handle' = [handle EXCEPT ![o] = e]
                           /\ live' = live \cup {e}
       ELSE handle' = [handle EXCEPT ![o] = None] /\ UNCHANGED live
    /\ UNCHANGED <<data, same, locks, job, crash>>

\* buffer_ref of a buffer, of another reference, or of one end of a
\* bufferevent, constructed or assigned.
TakeRef(r, o) ==
    /\ handle[o] # "raw" /\ (Movable(r) \/ handle[r] = "raw")
    /\ handle' = [handle EXCEPT ![r] = handle[o]]
    /\ same' = [same EXCEPT ![r] = IF o \in Own THEN o ELSE same[o]]
    /\ UNCHANGED <<live, data, locks, job, crash>>

TakeEnd(r, e) ==
    /\ Movable(r) \/ handle[r] = "raw"
    /\ handle' = [handle EXCEPT ![r] = e]
    /\ same' = [same EXCEPT ![r] = None]
    /\ UNCHANGED <<live, data, locks, job, crash>>

\* std::swap(hbuf_, that.hbuf_).
Swap(o, that) == [handle EXCEPT ![o] = handle[that], ![that] = handle[o]]

\* Move assignment swaps.
MoveAssign(o, that) ==
    /\ o # that /\ Movable(o) /\ Movable(that)
    /\ handle' = Swap(o, that)
    /\ same' = IF o \in Own THEN Unlinked({o, that})
               ELSE [same EXCEPT ![o] = same[that], ![that] = same[o]]
    /\ UNCHANGED <<live, data, locks, job, crash>>

\* Move construction makes a handle of its own first, and swaps.
MoveConstruct(o, that) ==
    /\ handle[o] = "raw" /\ Movable(that)
    /\ IF o \in Own
       THEN \E e \in Evb : /\ New(e)
                           /\ handle' = [handle EXCEPT ![o] = handle[that],
                                                       ![that] = e]
                           /\ live' = live \cup {e}
                           /\ same' = Unlinked({that})
       ELSE /\ handle' = [handle EXCEPT ![o] = handle[that], ![that] = None]
            /\ same' = [same EXCEPT ![o] = same[that], ![that] = None]
            /\ UNCHANGED live
    /\ UNCHANGED <<data, locks, job, crash>>

\* The move constructor is noexcept and evbuffer_new may fail in it, also
\* where it makes the parameter of append, prepend, reset or write.
MoveTerminates(b) ==
    /\ Movable(b)
    /\ crash' = "terminate"
    /\ UNCHANGED <<handle, live, data, same, locks, job>>

Destruct(o) ==
    /\ Movable(o)
    /\ handle' = [handle EXCEPT ![o] = "raw"]
    /\ IF o \in Own
       THEN /\ live' = live \ {handle[o]}
            /\ data' = [data EXCEPT ![handle[o]] = <<>>]
            /\ same' = Unlinked({o})
       ELSE same' = [same EXCEPT ![o] = None] /\ UNCHANGED <<live, data>>
    /\ locks' = locks \cap live'
    /\ UNCHANGED <<job, crash>>

\* enable_locking().  The evbuffers of a bufferevent may have a lock before.
EnableLocking(o) ==
    /\ Usable(o)
    /\ locks' = locks \cup {handle[o]}
    /\ UNCHANGED <<handle, live, data, same, job, crash>>

-----------------------------------------------------------------------------
(* Operations that take a buffer by value.  The parameter is made from b by   *)
(* the move constructor: it holds what b held, b holds a new evbuffer e, and  *)
(* the parameter's is freed at the end.                                       *)

Consumed(d, b, h, e) == [d EXCEPT ![h] = <<>>, ![e] = <<>>]

\* reset(buffer): this is swapped with the parameter.  A reference is given
\* the parameter's handle, which is then freed.
Reset(o, b) ==
    /\ Movable(o) /\ Movable(b)
    /\ \E e \in Evb :
        /\ New(e)
        /\ IF o \in Own
           THEN LET old == IF o = b THEN e ELSE handle[o] IN
                /\ handle' = [handle EXCEPT ![b] = e, ![o] = handle[b]]
                /\ live' = (live \cup {e}) \ {old}
                /\ data' = [data EXCEPT ![old] = <<>>]
           ELSE /\ handle' = [handle EXCEPT ![b] = e, ![o] = handle[b]]
                /\ live' = (live \cup {e}) \ {handle[b]}
                /\ data' = [data EXCEPT ![handle[b]] = <<>>]
        /\ same' = IF o \in Own THEN Unlinked({o, b})
                   ELSE [Unlinked({b}) EXCEPT ![o] = None]
    /\ locks' = locks \cap live'
    /\ UNCHANGED <<job, crash>>

\* append(buffer) and prepend(buffer): evbuffer_add_buffer refuses a frozen
\* end, evbuffer_prepend_buffer a frozen front, unless there is nothing to
\* add; the exception then takes the bytes with it.
AddBuffer(o, b, front) ==
    /\ Usable(o) /\ Movable(b)
    /\ \E e \in Evb :
        LET h == handle[b]
            to == IF o = b THEN e ELSE handle[o]
            refused == to \in IF front THEN Output ELSE Input
        IN
        /\ New(e)
        /\ handle' = [handle EXCEPT ![b] = e]
        /\ live' = (live \cup {e}) \ {h}
        /\ data' = LET d == Consumed(data, b, h, e) IN
                   IF to = h \/ refused THEN d
                   ELSE [d EXCEPT ![to] = IF front THEN data[h] \o @
                                                   ELSE @ \o data[h]]
        /\ same' = Unlinked({b})
    /\ locks' = locks \cap live'
    /\ UNCHANGED <<job, crash>>

\* write(buffer) calls write on its argument with this as the argument, and
\* that call does the same: it ends when the stack does.
WriteBuffer(o, b) ==
    /\ Usable(o) /\ Movable(b)
    /\ crash' = "stack"
    /\ UNCHANGED <<handle, live, data, same, locks, job>>

-----------------------------------------------------------------------------
(* Bytes in and out, one evbuffer call each.  A call that is refused because *)
(* that side is frozen changes nothing.  A byte is put in while there is no    *)
(* other like it: a bound.                                                   *)

Present(b) == \E e \in live : b \in ToSet(data[e])

\* append, append_ref, add_file, and read from a descriptor.
Add(o, b) ==
    /\ Usable(o) /\ handle[o] \notin Input
    /\ ~Present(b)
    /\ data' = [data EXCEPT ![handle[o]] = Append(@, b)]
    /\ UNCHANGED <<handle, live, same, locks, job, crash>>

Prepend(o, b) ==
    /\ Usable(o) /\ handle[o] \notin Output
    /\ ~Present(b)
    /\ data' = [data EXCEPT ![handle[o]] = <<b>> \o @]
    /\ UNCHANGED <<handle, live, same, locks, job, crash>>

\* drain(len), and remove(out, len) and write to a descriptor, which read the
\* bytes in the same call.
Drain(o, n) ==
    /\ Usable(o) /\ handle[o] \notin Output
    /\ n \in 1..Len(data[handle[o]])
    /\ data' = [data EXCEPT ![handle[o]] = Rest(handle[o], n)]
    /\ UNCHANGED <<handle, live, same, locks, job, crash>>

\* The bytes that remove(buffer&, len) takes.
Moved(o, out, n) ==
    [data EXCEPT ![handle[out]] = @ \o First(handle[o], n),
                 ![handle[o]] = Rest(handle[o], n)]

RemoveInto(o, out, n) ==
    /\ Usable(o) /\ Usable(out) /\ handle[o] # handle[out]
    /\ (o \in Own) = (out \in Own)
    /\ handle[o] \notin Output /\ handle[out] \notin Input
    /\ n \in 1..Len(data[handle[o]])
    /\ data' = Moved(o, out, n)
    /\ UNCHANGED <<handle, live, same, locks, job, crash>>

\* Any use of an object whose evbuffer is gone, or that has none.
UseDead(o) ==
    /\ handle[o] \notin live \cup {"raw"}
    /\ crash' = IF o \in Own THEN "buffer" ELSE "reference"
    /\ UNCHANGED <<handle, live, data, same, locks, job>>

\* Two threads in an evbuffer without a lock: undefined.
Race(o) ==
    /\ \E t \in Thread : Busy(t) /\ At(t) = handle[o] /\ At(t) \notin locks
    /\ crash' = "race"
    /\ UNCHANGED <<handle, live, data, same, locks, job>>

-----------------------------------------------------------------------------
(* Reads of several calls, inside sync() or not.                             *)

\* str() and vector() ask for all there is and drain(text, max) for part of
\* it: size() first.
Begin(t, o, op, n, sync) ==
    /\ ~Busy(t) /\ Usable(o) /\ handle[o] \notin Output
    /\ op = "str" => n = Len(data[handle[o]])
    /\ job' = [job EXCEPT ![t] = [op |-> op, obj |-> o, n |-> n,
                                  held |-> sync /\ handle[o] \in locks,
                                  copied |-> FALSE, got |-> <<>>]]
    /\ UNCHANGED <<handle, live, data, same, locks, crash>>

\* The copyout of io::buffer asks for as much as libcurl wants and goes by what
\* it got.  It is never inside a sync().
CopyFirst(t, o, n) ==
    /\ ~Busy(t) /\ Usable(o)
    /\ job' = [job EXCEPT ![t] = [op |-> "drain", obj |-> o, n |-> n,
                                  held |-> FALSE,
                                  copied |-> TRUE, got |-> First(handle[o], n)]]
    /\ UNCHANGED <<handle, live, data, same, locks, crash>>

\* evbuffer_copyout gives what is there, and no more than was asked for;
\* drain(text, max) does not look at how much it was.
CopyOut(t) ==
    /\ Busy(t) /\ ~job[t].copied
    /\ LetIn(Thread \ {t}, At(t))
    /\ job' = IF job[t].op = "str" THEN [job EXCEPT ![t] = Idle]
              ELSE [job EXCEPT ![t].copied = TRUE,
                               ![t].got = IF job[t].n < Len(data[At(t)])
                                          THEN First(At(t), job[t].n)
                                          ELSE data[At(t)]]
    /\ UNCHANGED <<handle, live, data, same, locks, crash>>

\* The drain that follows.
DrainCopied(t) ==
    /\ Busy(t) /\ job[t].copied
    /\ LetIn(Thread \ {t}, At(t))
    /\ data' = [data EXCEPT ![At(t)] = Rest(At(t), job[t].n)]
    /\ job' = [job EXCEPT ![t] = Idle]
    /\ UNCHANGED <<handle, live, same, locks, crash>>

-----------------------------------------------------------------------------
Size(o) == IF handle[o] \in live THEN Len(data[handle[o]]) ELSE 0

Next ==
    /\ crash = None
    /\ \/ \E o \in Obj :
            \/ Construct(o)
            \/ Destruct(o)
            \/ UseDead(o)
            \/ Race(o)
            \/ EnableLocking(o)
            \/ \E b \in Byte : Add(o, b) \/ Prepend(o, b)
            \/ \E n \in 1..Size(o) : Drain(o, n)
       \/ \E r \in Ref : \/ \E o \in Obj : TakeRef(r, o)
                         \/ \E e \in Ext : TakeEnd(r, e)
       \/ \E o, that \in Own : MoveAssign(o, that) \/ MoveConstruct(o, that)
       \/ \E o, that \in Ref : MoveAssign(o, that) \/ MoveConstruct(o, that)
       \/ \E o \in Obj, b \in Own :
            \/ Reset(o, b)
            \/ WriteBuffer(o, b)
            \/ \E front \in BOOLEAN : AddBuffer(o, b, front)
       \/ \E b \in Own : MoveTerminates(b)
       \/ \E o, out \in Obj : \E n \in 1..Size(o) : RemoveInto(o, out, n)
       \/ \E t \in Thread :
            \/ \E o \in Obj, op \in {"drain", "str"}, sync \in BOOLEAN :
                \E n \in 1..Size(o) : Begin(t, o, op, n, sync)
            \/ \E o \in Own : \E n \in 1..Size(o) : CopyFirst(t, o, n)
            \/ CopyOut(t)
            \/ DrainCopied(t)

Spec == Init /\ [][Next]_vars

-----------------------------------------------------------------------------
(* Properties.                                                              *)

TypeOK ==
    /\ \A o \in Own : handle[o] \in Evb \cup {"raw"}
    /\ \A r \in Ref : handle[r] \in AnyEvb \cup {None, "raw"}
    /\ live \in SUBSET AnyEvb
    /\ DOMAIN data = AnyEvb
    /\ \A e \in AnyEvb : ToSet(data[e]) \subseteq Byte
    /\ same \in [Ref -> Own \cup {None}]
    /\ locks \subseteq live
    /\ DOMAIN job = Thread
    /\ \A t \in Thread : Busy(t) => job[t].obj \in Obj
    /\ crash \in {None, "terminate", "stack", "buffer", "reference", "race"}

\* Through moves, reset and buffers passed by value an evbuffer is owned by
\* exactly one buffer, so that it is freed once and never leaked
\* (buffer.hpp:89-136).
OneHolder ==
    /\ \A o, p \in Own :
        handle[o] = handle[p] /\ handle[o] # "raw" => o = p
    /\ live = Ext \cup {handle[o] : o \in {p \in Own : handle[p] # "raw"}}

\* A reference stays good, whatever is done with the bytes, until the buffer
\* it was taken from is destroyed, moved, or passed by value (ref() and
\* operator buffer_ref, buffer.hpp:79-87).
RefValid ==
    \A r \in Ref : same[r] # None =>
        handle[r] = handle[same[r]] /\ handle[r] \in live

\* A read of several calls that keeps the others off - by a sync() of an
\* evbuffer that has a lock, or because without one it is used by one thread -
\* gets what was promised: str() and vector() the whole of it, and drain(text)
\* and the copyout of io::buffer drop the bytes that they copied, all of them
\* and no others (buffer.hpp:271-281, 344-383, curl/io/buffer.hpp:121-129).
SoleReadsWhole ==
    [][\A t \in Thread :
        Busy(t) /\ Sole(t) /\ job'[t] = Idle =>
            LET e == At(t) IN
            IF job[t].op = "str" THEN job[t].n = Len(data[e])
            ELSE /\ Len(job[t].got) = job[t].n
                 /\ data[e] = job[t].got \o data'[e]]_vars

\* Buffers behave as strings of bytes that are moved and not shared.
Place == Own \cup Ext
Strings ==
    INSTANCE ByteStrings WITH
        bytes <- [p \in Place |->
                    IF p \in Ext THEN data[p]
                    ELSE IF handle[p] = "raw" THEN <<>> ELSE data[handle[p]]]
StringsSpec == Strings!StringsSpec
=============================================================================
