---------------------------- MODULE BufferProofs ----------------------------
(* Proofs about Buffer, for any number of buffers, references, threads and   *)
(* bytes: every evbuffer has one holder, a reference stays good, buffers are  *)
(* strings of bytes, and a read that keeps others off gets all of it.        *)
EXTENDS Buffer, TLAPS

Handles ==
    /\ handle \in [Obj -> AnyEvb \cup {None, "raw"}]
    /\ \A o \in Own : handle[o] \in Evb \cup {"raw"}
    /\ same \in [Ref -> Own \cup {None}]

\* The inductive invariant: RefValid needs that nobody else frees what a
\* buffer holds, which is OneHolder.
IInv ==
    /\ Handles
    /\ OneHolder
    /\ RefValid

\* What the handles are apart from.
LEMMA Apart ==
    /\ Own \cap Ref = {} /\ Evb \cap Ext = {}
    /\ None \notin Own \cup Ref \cup AnyEvb
    /\ "raw" \notin Own /\ "raw" \notin AnyEvb
    /\ Own \cap AnyEvb = {}
BY BufferAssumption DEF AnyEvb, Ext

LEMMA Initially == Init => IInv
BY Apart DEF Init, IInv, Handles, OneHolder, RefValid, Obj

\* Most operations leave the handles alone.
LEMMA SameHandles ==
    ASSUME IInv, UNCHANGED <<handle, live, same>>
    PROVE  IInv'
BY DEF IInv, Handles, OneHolder, RefValid

-----------------------------------------------------------------------------
(* Objects.                                                                 *)

\* What the invariant says, at hand.
LEMMA Known ==
    ASSUME IInv
    PROVE  /\ handle \in [Obj -> AnyEvb \cup {None, "raw"}]
           /\ same \in [Ref -> Own \cup {None}]
           /\ Ext \subseteq live /\ live \subseteq AnyEvb
           /\ \A o \in Own : /\ handle[o] \in Evb \cup {"raw"}
                             /\ handle[o] # "raw" => handle[o] \in live
           /\ \A e \in live : e \in Ext \/ \E o \in Own : handle[o] = e
           /\ \A o, p \in Own : handle[o] = handle[p] /\ handle[o] # "raw" => o = p
           /\ \A r \in Ref : same[r] # None =>
                /\ same[r] \in Own
                /\ handle[r] = handle[same[r]] /\ handle[r] \in live
<1>1. /\ handle \in [Obj -> AnyEvb \cup {None, "raw"}]
      /\ same \in [Ref -> Own \cup {None}]
      /\ \A o \in Own : handle[o] \in Evb \cup {"raw"}
      /\ live = Ext \cup {handle[o] : o \in {p \in Own : handle[p] # "raw"}}
      /\ \A o, p \in Own : handle[o] = handle[p] /\ handle[o] # "raw" => o = p
      /\ \A r \in Ref : same[r] # None => handle[r] = handle[same[r]] /\ handle[r] \in live
    BY DEF IInv, Handles, OneHolder, RefValid
<1>2. live \subseteq AnyEvb
    BY <1>1 DEF AnyEvb, Ext
<1> QED
    BY <1>1, <1>2

\* The invariant from its parts.
LEMMA Made ==
    ASSUME /\ handle' \in [Obj -> AnyEvb \cup {None, "raw"}]
           /\ same' \in [Ref -> Own \cup {None}]
           /\ Ext \subseteq live'
           /\ \A o \in Own : /\ handle'[o] \in Evb \cup {"raw"}
                             /\ handle'[o] # "raw" => handle'[o] \in live'
           /\ \A e \in live' : e \in Ext \/ \E o \in Own : handle'[o] = e
           /\ "raw" \notin live'
           /\ \A o, p \in Own : handle'[o] = handle'[p] /\ handle'[o] # "raw" => o = p
           /\ \A r \in Ref : same'[r] # None =>
                handle'[r] = handle'[same'[r]] /\ handle'[r] \in live'
    PROVE  IInv'
<1>1. live' = Ext \cup {handle'[o] : o \in {p \in Own : handle'[p] # "raw"}}
    OBVIOUS
<1> QED
    BY <1>1 DEF IInv, Handles, OneHolder, RefValid

\* A buffer or a reference is made.
LEMMA ConstructKeeps ==
    ASSUME IInv, NEW o \in Obj, Construct(o)
    PROVE  IInv'
<1> USE Apart, Known DEF Obj
<1>1. CASE o \in Own
    <2>1. PICK e \in Evb : /\ e \notin live /\ handle' = [handle EXCEPT ![o] = e]
                           /\ live' = live \cup {e} /\ handle[o] = "raw"
                           /\ same' = same
        BY <1>1 DEF Construct, New
    <2>2. \A p \in Obj : handle'[p] = IF p = o THEN e ELSE handle[p]
        BY <2>1
    <2>3. \A r \in Ref : same[r] # o
        BY <1>1, <2>1
    <2> QED
        BY <1>1, <2>1, <2>2, <2>3, Made DEF AnyEvb
<1>2. CASE o \notin Own
    <2>1. /\ handle[o] = "raw" /\ handle' = [handle EXCEPT ![o] = None]
          /\ live' = live /\ same' = same
        BY <1>2 DEF Construct
    <2>2. \A p \in Obj : handle'[p] = IF p = o THEN None ELSE handle[p]
        BY <2>1
    <2> QED
        BY <1>2, <2>1, <2>2, Made
<1> QED
    BY <1>1, <1>2

\* A reference is taken.
LEMMA TakeKeeps ==
    ASSUME IInv, NEW r \in Ref,
           (\E o \in Obj : TakeRef(r, o)) \/ (\E e \in Ext : TakeEnd(r, e))
    PROVE  IInv'
<1> USE Apart, Known DEF Obj
<1>1. ASSUME NEW o \in Obj, TakeRef(r, o) PROVE IInv'
    <2>1. /\ handle[o] # "raw" /\ handle' = [handle EXCEPT ![r] = handle[o]]
          /\ same' = [same EXCEPT ![r] = IF o \in Own THEN o ELSE same[o]]
          /\ live' = live
        BY <1>1 DEF TakeRef
    <2>2. /\ \A p \in Obj : handle'[p] = IF p = r THEN handle[o] ELSE handle[p]
          /\ \A q \in Ref : same'[q] = IF q # r THEN same[q]
                                       ELSE IF o \in Own THEN o ELSE same[o]
          /\ handle' \in [Obj -> AnyEvb \cup {None, "raw"}]
          /\ same' \in [Ref -> Own \cup {None}]
        BY <2>1
    <2> QED
        BY <2>1, <2>2, Made
<1>2. ASSUME NEW e \in Ext, TakeEnd(r, e) PROVE IInv'
    <2>1. /\ handle' = [handle EXCEPT ![r] = e]
          /\ same' = [same EXCEPT ![r] = None] /\ live' = live
        BY <1>2 DEF TakeEnd
    <2>2. /\ \A p \in Obj : handle'[p] = IF p = r THEN e ELSE handle[p]
          /\ \A q \in Ref : same'[q] = IF q # r THEN same[q] ELSE None
          /\ handle' \in [Obj -> AnyEvb \cup {None, "raw"}]
          /\ same' \in [Ref -> Own \cup {None}]
        BY <2>1 DEF AnyEvb
    <2> QED
        BY <2>1, <2>2, Made
<1> QED
    BY <1>1, <1>2

\* Two objects exchange what they refer to.
LEMMA AssignKeeps ==
    ASSUME IInv, NEW o \in Obj, NEW p \in Obj, (o \in Own) = (p \in Own),
           MoveAssign(o, p)
    PROVE  IInv'
<1> USE Apart, Known DEF Obj
<1>1. /\ o # p /\ live' = live
      /\ handle' = [handle EXCEPT ![o] = handle[p], ![p] = handle[o]]
      /\ same' = IF o \in Own THEN Unlinked({o, p})
                 ELSE [same EXCEPT ![o] = same[p], ![p] = same[o]]
    BY DEF MoveAssign, Swap
<1>2. /\ \A q \in Obj : handle'[q] = IF q = o THEN handle[p]
                                     ELSE IF q = p THEN handle[o] ELSE handle[q]
      /\ handle' \in [Obj -> AnyEvb \cup {None, "raw"}]
    BY <1>1
<1>3. CASE o \in Own
    <2>1. /\ \A r \in Ref : same'[r] = IF same[r] \in {o, p} THEN None ELSE same[r]
          /\ same' \in [Ref -> Own \cup {None}]
        BY <1>1, <1>3 DEF Unlinked
    <2>2. \A q \in Own : /\ handle'[q] \in Evb \cup {"raw"}
                         /\ handle'[q] # "raw" => handle'[q] \in live'
        BY <1>1, <1>2, <1>3
    <2>3. \A d \in live' : d \in Ext \/ \E q \in Own : handle'[q] = d
        BY <1>1, <1>2, <1>3
    <2>4. \A q, s \in Own : handle'[q] = handle'[s] /\ handle'[q] # "raw" => q = s
        BY <1>1, <1>2, <1>3
    <2>5. \A r \in Ref : same'[r] # None =>
            handle'[r] = handle'[same'[r]] /\ handle'[r] \in live'
        BY <1>1, <1>2, <1>3, <2>1
    <2> QED
        BY <1>1, <1>2, <2>1, <2>2, <2>3, <2>4, <2>5, Made
<1>4. CASE o \notin Own
    <2>1. /\ \A r \in Ref : same'[r] = IF r = o THEN same[p]
                                       ELSE IF r = p THEN same[o] ELSE same[r]
          /\ same' \in [Ref -> Own \cup {None}]
        BY <1>1, <1>4
    <2> QED
        BY <1>1, <1>2, <1>4, <2>1, Made
<1> QED
    BY <1>3, <1>4

\* An object is made from another.
LEMMA MoveKeeps ==
    ASSUME IInv, NEW o \in Obj, NEW p \in Obj, (o \in Own) = (p \in Own),
           MoveConstruct(o, p)
    PROVE  IInv'
<1> USE Apart, Known DEF Obj
<1>1. handle[o] = "raw" /\ handle[p] # "raw" /\ o # p
    BY DEF MoveConstruct, Movable
<1>2. CASE o \in Own
    <2>1. PICK e \in Evb : /\ e \notin live
                           /\ handle' = [handle EXCEPT ![o] = handle[p], ![p] = e]
                           /\ live' = live \cup {e} /\ same' = Unlinked({p})
        BY <1>2 DEF MoveConstruct, New
    <2>2. /\ \A q \in Obj : handle'[q] = IF q = o THEN handle[p]
                                         ELSE IF q = p THEN e ELSE handle[q]
          /\ handle' \in [Obj -> AnyEvb \cup {None, "raw"}]
        BY <1>1, <2>1 DEF AnyEvb
    <2>3. /\ \A r \in Ref : same'[r] = IF same[r] = p THEN None ELSE same[r]
          /\ same' \in [Ref -> Own \cup {None}]
          /\ \A r \in Ref : same[r] # o
        BY <1>1, <1>2, <2>1 DEF Unlinked
    <2>4. \A q \in Own : handle'[q] # "raw" => handle'[q] \in live'
        BY <1>1, <1>2, <2>1, <2>2
    <2>5. \A d \in live' : d \in Ext \/ \E q \in Own : handle'[q] = d
        BY <1>1, <1>2, <2>1, <2>2
    <2>6. \A q, s \in Own : handle'[q] = handle'[s] /\ handle'[q] # "raw" => q = s
        BY <1>1, <1>2, <2>1, <2>2
    <2>7. \A r \in Ref : same'[r] # None =>
            handle'[r] = handle'[same'[r]] /\ handle'[r] \in live'
        <3> SUFFICES ASSUME NEW r \in Ref, same'[r] # None
                     PROVE  handle'[r] = handle'[same'[r]] /\ handle'[r] \in live'
            OBVIOUS
        <3>1. same'[r] = same[r] /\ same[r] \in Own /\ same[r] \notin {o, p}
            BY <2>3
        <3>2. handle'[r] = handle[r] /\ handle'[same[r]] = handle[same[r]]
            BY <1>2, <2>2, <3>1
        <3> QED
            BY <2>1, <3>1, <3>2
    <2> QED
        BY <1>1, <1>2, <2>1, <2>2, <2>3, <2>4, <2>5, <2>6, <2>7, Made DEF AnyEvb
<1>3. CASE o \notin Own
    <2>1. /\ handle' = [handle EXCEPT ![o] = handle[p], ![p] = None]
          /\ same' = [same EXCEPT ![o] = same[p], ![p] = None]
          /\ live' = live
        BY <1>3 DEF MoveConstruct
    <2>2. /\ \A q \in Obj : handle'[q] = IF q = o THEN handle[p]
                                         ELSE IF q = p THEN None ELSE handle[q]
          /\ handle' \in [Obj -> AnyEvb \cup {None, "raw"}]
        BY <1>1, <2>1
    <2>3. /\ \A r \in Ref : same'[r] = IF r = o THEN same[p]
                                       ELSE IF r = p THEN None ELSE same[r]
          /\ same' \in [Ref -> Own \cup {None}]
        BY <1>1, <1>3, <2>1
    <2> QED
        BY <1>1, <1>3, <2>1, <2>2, <2>3, Made
<1> QED
    BY <1>2, <1>3

\* An object goes.
LEMMA DestructKeeps ==
    ASSUME IInv, NEW o \in Obj, Destruct(o)
    PROVE  IInv'
<1> USE Apart, Known DEF Obj
<1>1. /\ handle[o] # "raw" /\ handle' = [handle EXCEPT ![o] = "raw"]
      /\ \A q \in Obj : handle'[q] = IF q = o THEN "raw" ELSE handle[q]
      /\ handle' \in [Obj -> AnyEvb \cup {None, "raw"}]
    BY DEF Destruct, Movable
<1>2. CASE o \in Own
    <2>1. /\ live' = live \ {handle[o]}
          /\ \A r \in Ref : same'[r] = IF same[r] = o THEN None ELSE same[r]
          /\ same' \in [Ref -> Own \cup {None}]
        BY <1>2 DEF Destruct, Unlinked
    <2> QED
        BY <1>1, <1>2, <2>1, Made DEF Ext, AnyEvb
<1>3. CASE o \notin Own
    <2>1. /\ live' = live
          /\ \A r \in Ref : same'[r] = IF r = o THEN None ELSE same[r]
          /\ same' \in [Ref -> Own \cup {None}]
        BY <1>3 DEF Destruct
    <2> QED
        BY <1>1, <1>3, <2>1, Made
<1> QED
    BY <1>2, <1>3

-----------------------------------------------------------------------------
(* Buffers passed by value.                                                 *)

\* reset(): what b held goes to o, and b holds a new evbuffer.
LEMMA ResetKeeps ==
    ASSUME IInv, NEW o \in Obj, NEW b \in Own, Reset(o, b)
    PROVE  IInv'
<1> USE Apart, Known DEF Obj
<1>1. handle[o] # "raw" /\ handle[b] # "raw"
    BY DEF Reset, Movable
<1>2. PICK e \in Evb :
        /\ e \notin live
        /\ handle' = [handle EXCEPT ![b] = e, ![o] = handle[b]]
        /\ live' = IF o \in Own
                   THEN (live \cup {e}) \ {IF o = b THEN e ELSE handle[o]}
                   ELSE (live \cup {e}) \ {handle[b]}
        /\ same' = IF o \in Own THEN Unlinked({o, b})
                   ELSE [Unlinked({b}) EXCEPT ![o] = None]
    BY DEF Reset, New
<1>3. /\ \A q \in Obj : handle'[q] = IF q = o THEN handle[b]
                                     ELSE IF q = b THEN e ELSE handle[q]
      /\ handle' \in [Obj -> AnyEvb \cup {None, "raw"}]
      /\ e \notin Ext /\ e \in AnyEvb /\ e # "raw"
    BY <1>2 DEF AnyEvb
<1>4. /\ \A r \in Ref : same'[r] \in {None, same[r]}
      /\ \A r \in Ref : same'[r] # b
      /\ o \in Own => \A r \in Ref : same'[r] # o
      /\ o \notin Own => same'[o] = None
      /\ same' \in [Ref -> Own \cup {None}]
    BY <1>2 DEF Unlinked
<1>5. CASE o = b
    <2>1. \A q \in Obj : handle'[q] = handle[q]
        BY <1>3, <1>5
    <2>2. live' = live
        BY <1>2, <1>5
    <2> QED
        BY <1>3, <1>4, <2>1, <2>2, Made
<1>6. CASE o \in Own /\ o # b
    <2>1. live' = (live \cup {e}) \ {handle[o]} /\ handle[o] \notin Ext /\ handle[o] # handle[b]
        BY <1>1, <1>2, <1>6
    <2>2. \A q \in Own : /\ handle'[q] \in Evb \cup {"raw"}
                         /\ handle'[q] # "raw" => handle'[q] \in live'
        BY <1>1, <1>2, <1>3, <1>6, <2>1
    <2>3. \A d \in live' : d \in Ext \/ \E q \in Own : handle'[q] = d
        BY <1>3, <1>6, <2>1
    <2>4. \A q, s \in Own : handle'[q] = handle'[s] /\ handle'[q] # "raw" => q = s
        BY <1>2, <1>3, <1>6
    <2>5. \A r \in Ref : same'[r] # None =>
            handle'[r] = handle'[same'[r]] /\ handle'[r] \in live'
        <3> SUFFICES ASSUME NEW r \in Ref, same'[r] # None
                     PROVE  handle'[r] = handle'[same'[r]] /\ handle'[r] \in live'
            OBVIOUS
        <3>1. same'[r] = same[r] /\ same[r] \in Own /\ same[r] \notin {o, b}
            BY <1>4, <1>6
        <3>2. handle'[r] = handle[r] /\ handle'[same[r]] = handle[same[r]]
            BY <1>3, <1>6, <3>1
        <3>3. handle[r] # handle[o]
            BY <1>1, <1>6, <3>1
        <3> QED
            BY <2>1, <3>1, <3>2, <3>3
    <2> QED
        BY <1>3, <1>4, <2>1, <2>2, <2>3, <2>4, <2>5, Made
<1>7. CASE o \notin Own
    <2>1. live' = (live \cup {e}) \ {handle[b]} /\ handle[b] \notin Ext
        BY <1>1, <1>2, <1>7
    <2>2. \A q \in Own : /\ handle'[q] \in Evb \cup {"raw"}
                         /\ handle'[q] # "raw" => handle'[q] \in live'
        BY <1>1, <1>2, <1>3, <1>7, <2>1
    <2>3. \A d \in live' : d \in Ext \/ \E q \in Own : handle'[q] = d
        BY <1>3, <1>7, <2>1
    <2>4. \A q, s \in Own : handle'[q] = handle'[s] /\ handle'[q] # "raw" => q = s
        BY <1>2, <1>3, <1>7
    <2>5. \A r \in Ref : same'[r] # None =>
            handle'[r] = handle'[same'[r]] /\ handle'[r] \in live'
        <3> SUFFICES ASSUME NEW r \in Ref, same'[r] # None
                     PROVE  handle'[r] = handle'[same'[r]] /\ handle'[r] \in live'
            OBVIOUS
        <3>1. same'[r] = same[r] /\ same[r] \in Own /\ same[r] # b /\ r # o
            BY <1>4, <1>7
        <3>2. handle'[r] = handle[r] /\ handle'[same[r]] = handle[same[r]]
            BY <1>3, <1>7, <3>1
        <3>3. handle[r] # handle[b]
            BY <1>1, <3>1
        <3> QED
            BY <2>1, <3>1, <3>2, <3>3
    <2> QED
        BY <1>3, <1>4, <2>1, <2>2, <2>3, <2>4, <2>5, Made
<1> QED
    BY <1>5, <1>6, <1>7

\* append() and prepend() of a buffer: what b held is freed, and b holds a new
\* evbuffer.
LEMMA AddBufferKeeps ==
    ASSUME IInv, NEW o \in Obj, NEW b \in Own, NEW front \in BOOLEAN,
           AddBuffer(o, b, front)
    PROVE  IInv'
<1> USE Apart, Known DEF Obj
<1>1. handle[b] # "raw" /\ handle[b] \notin Ext
    BY DEF AddBuffer, Movable
<1>2. PICK e \in Evb : /\ e \notin live /\ handle' = [handle EXCEPT ![b] = e]
                       /\ live' = (live \cup {e}) \ {handle[b]}
                       /\ same' = Unlinked({b})
    BY DEF AddBuffer, New
<1>3. /\ \A q \in Obj : handle'[q] = IF q = b THEN e ELSE handle[q]
      /\ handle' \in [Obj -> AnyEvb \cup {None, "raw"}]
      /\ e \notin Ext /\ e \in AnyEvb /\ e # "raw"
    BY <1>2 DEF AnyEvb
<1>4. /\ \A r \in Ref : same'[r] = IF same[r] = b THEN None ELSE same[r]
      /\ same' \in [Ref -> Own \cup {None}]
    BY <1>2 DEF Unlinked
<1>5. \A q \in Own : /\ handle'[q] \in Evb \cup {"raw"}
                     /\ handle'[q] # "raw" => handle'[q] \in live'
    BY <1>1, <1>2, <1>3
<1>6. \A d \in live' : d \in Ext \/ \E q \in Own : handle'[q] = d
    BY <1>2, <1>3
<1>7. \A q, s \in Own : handle'[q] = handle'[s] /\ handle'[q] # "raw" => q = s
    BY <1>2, <1>3
<1>8. \A r \in Ref : same'[r] # None =>
        handle'[r] = handle'[same'[r]] /\ handle'[r] \in live'
    <2> SUFFICES ASSUME NEW r \in Ref, same'[r] # None
                 PROVE  handle'[r] = handle'[same'[r]] /\ handle'[r] \in live'
        OBVIOUS
    <2>1. same'[r] = same[r] /\ same[r] \in Own /\ same[r] # b
        BY <1>4
    <2>2. handle'[r] = handle[r] /\ handle'[same[r]] = handle[same[r]]
        BY <1>3, <2>1
    <2>3. handle[r] # handle[b]
        BY <1>1, <2>1
    <2> QED
        BY <1>2, <2>1, <2>2, <2>3
<1>9. Ext \subseteq live' /\ "raw" \notin live'
    BY <1>1, <1>2, <1>3
<1> QED
    BY <1>3, <1>4, <1>5, <1>6, <1>7, <1>8, <1>9, Made

LEMMA IInvInductive == IInv /\ [Next]_vars => IInv'
<1> SUFFICES ASSUME IInv, [Next]_vars
             PROVE  IInv'
    OBVIOUS
<1>1. ASSUME NEW o \in Obj,
             \/ UseDead(o) \/ Race(o) \/ EnableLocking(o)
             \/ \E b \in Byte : Add(o, b) \/ Prepend(o, b)
             \/ \E n \in 1 .. Size(o) : Drain(o, n)
             \/ \E p \in Obj : \E n \in 1 .. Size(o) : RemoveInto(o, p, n)
             \/ \E b \in Own : WriteBuffer(o, b)
      PROVE  IInv'
    BY <1>1, SameHandles
    DEF UseDead, Race, EnableLocking, Add, Prepend, Drain, RemoveInto, WriteBuffer
<1>2. ASSUME NEW b \in Own, MoveTerminates(b) PROVE IInv'
    BY <1>2, SameHandles DEF MoveTerminates
<1>3. ASSUME NEW t \in Thread,
             \/ \E o \in Obj, op \in {"drain", "str"}, sync \in BOOLEAN :
                    \E n \in 1 .. Size(o) : Begin(t, o, op, n, sync)
             \/ \E o \in Own : \E n \in 1 .. Size(o) : CopyFirst(t, o, n)
             \/ CopyOut(t) \/ DrainCopied(t)
      PROVE  IInv'
    BY <1>3, SameHandles DEF Begin, CopyFirst, CopyOut, DrainCopied
<1>4. CASE UNCHANGED vars
    BY <1>4, SameHandles DEF vars
<1>5. \A o, p \in Own : MoveAssign(o, p) \/ MoveConstruct(o, p) => IInv'
    BY AssignKeeps, MoveKeeps DEF Obj
<1>6. \A o, p \in Ref : MoveAssign(o, p) \/ MoveConstruct(o, p) => IInv'
    BY AssignKeeps, MoveKeeps, Apart DEF Obj
<1> QED
    BY <1>1, <1>2, <1>3, <1>4, <1>5, <1>6, ConstructKeeps, TakeKeeps,
       DestructKeeps, ResetKeeps, AddBufferKeeps
    DEF Next

-----------------------------------------------------------------------------
\* The invariant of the handles holds in every reachable state.
THEOREM BufferInvariance == Spec => []IInv
BY IInvInductive, Initially, PTL DEF Spec

\* Through moves, reset and buffers passed by value an evbuffer is owned by exactly
\* one buffer, so that it is freed once and never leaked (buffer.hpp:89-136).
THEOREM BufferOwnership == Spec => []OneHolder
<1>1. IInv => OneHolder
    BY DEF IInv
<1> QED
    BY <1>1, BufferInvariance, PTL

\* A reference is good until the buffer it was taken from is destroyed, moved, or
\* passed by value, whatever is done to the other buffers (buffer.hpp:79-87).
THEOREM ReferencesStayGood == Spec => []RefValid
<1>1. IInv => RefValid
    BY DEF IInv
<1> QED
    BY <1>1, BufferInvariance, PTL

-----------------------------------------------------------------------------
(* Reads in several calls, and the bytes.                                   *)

Job == [op : {"drain", "str"}, obj : Obj, n : Nat, held : BOOLEAN,
        copied : BOOLEAN, got : Seq(Byte)]

\* The object a thread reads from refers to an allocated evbuffer.
Jobs ==
    /\ DOMAIN job = Thread
    /\ \A t \in Thread : Busy(t) => job[t] \in Job /\ handle[job[t].obj] \in live

\* An evbuffer that is not allocated has no bytes.
Contents ==
    /\ data \in [AnyEvb -> Seq(Byte)]
    /\ \A e \in AnyEvb \ live : data[e] = <<>>

Others ==
    /\ locks \subseteq live
    /\ crash \in {None, "terminate", "stack", "buffer", "reference", "race"}

\* A read that keeps the others off will get what it was promised, or has
\* copied the bytes that are still there.
Promise ==
    \A t \in Thread : Busy(t) /\ Sole(t) =>
        /\ job[t].n <= Len(data[At(t)])
        /\ job[t].op = "str" => ~job[t].copied /\ job[t].n = Len(data[At(t)])
        /\ job[t].copied => job[t].got = First(At(t), job[t].n)

BInv == IInv /\ Jobs /\ Contents /\ Others

LEMMA SubSeqType ==
    ASSUME NEW s \in Seq(Byte), NEW m \in Nat, NEW n \in Nat, m >= 1, n <= Len(s)
    PROVE  /\ SubSeq(s, m, n) \in Seq(Byte)
           /\ Len(SubSeq(s, m, n)) = IF m <= n THEN n - m + 1 ELSE 0
           /\ \A i \in 1 .. Len(SubSeq(s, m, n)) : SubSeq(s, m, n)[i] = s[m + i - 1]
OBVIOUS

\* What is left of an evbuffer when its first n bytes are gone.
LEMMA RestOf ==
    ASSUME Contents, NEW e \in AnyEvb, NEW n \in Nat
    PROVE  /\ Rest(e, n) \in Seq(Byte)
           /\ Len(Rest(e, n)) = IF n <= Len(data[e]) THEN Len(data[e]) - n ELSE 0
           /\ \A i \in 1 .. Len(Rest(e, n)) : Rest(e, n)[i] = data[e][i + n]
<1>1. data[e] \in Seq(Byte) /\ Len(data[e]) \in Nat
    BY DEF Contents
<1> QED
    BY <1>1, SubSeqType DEF Rest

\* Its first bytes.
LEMMA FirstOf ==
    ASSUME Contents, NEW e \in AnyEvb, NEW n \in 0 .. Len(data[e])
    PROVE  /\ First(e, n) \in Seq(Byte) /\ Len(First(e, n)) = n
           /\ \A i \in 1 .. n : First(e, n)[i] = data[e][i]
<1>1. data[e] \in Seq(Byte) /\ Len(data[e]) \in Nat
    BY DEF Contents
<1> QED
    BY <1>1, SubSeqType DEF First

\* An object that is made, moved or destroyed is not the one a thread reads
\* from, and no evbuffer is freed under a reader.
LEMMA ReadersKept ==
    ASSUME IInv, Jobs, NEW o \in Obj, NEW p \in Obj,
           Movable(o) \/ handle[o] = "raw", Movable(p) \/ handle[p] = "raw",
           \A q \in Obj : q # o /\ q # p => handle'[q] = handle[q],
           \A e \in live \ live' : \E q \in Own : Movable(q) /\ handle[q] = e,
           NEW t \in Thread, Busy(t)
    PROVE  /\ handle'[job[t].obj] = handle[job[t].obj]
           /\ handle[job[t].obj] \in live'
<1>1. job[t].obj \in Obj /\ handle[job[t].obj] \in live
    BY DEF Jobs, Job
<1>2. job[t].obj \notin {o, p}
    BY <1>1, Known, Apart DEF Movable, At
<1> QED
    BY <1>1, <1>2 DEF Movable, At

\* So no step takes its evbuffer from a reader.
LEMMA ReadersStay ==
    ASSUME IInv, Jobs, [Next]_vars, NEW t \in Thread, Busy(t)
    PROVE  /\ handle'[job[t].obj] = handle[job[t].obj]
           /\ handle[job[t].obj] \in live'
<1> DEFINE Kept == /\ handle'[job[t].obj] = handle[job[t].obj]
                   /\ handle[job[t].obj] \in live'
<1> USE DEF Obj
<1>1. CASE UNCHANGED <<handle, live>>
    BY <1>1 DEF Jobs
<1>2. ASSUME NEW o \in Obj, Construct(o) PROVE Kept
    <2>1. handle[o] = "raw" /\ \A p \in Obj : p # o => handle'[p] = handle[p]
        BY <1>2, Known DEF Construct
    <2>2. live \subseteq live'
        BY <1>2 DEF Construct
    <2> QED
        BY <2>1, <2>2, ReadersKept
<1>3. ASSUME NEW r \in Ref,
             (\E o \in Obj : TakeRef(r, o)) \/ (\E e \in Ext : TakeEnd(r, e))
      PROVE  Kept
    <2>1. /\ Movable(r) \/ handle[r] = "raw"
          /\ \A p \in Obj : p # r => handle'[p] = handle[p]
          /\ live' = live
        BY <1>3, Known DEF TakeRef, TakeEnd
    <2> QED
        BY <2>1, ReadersKept
<1>4. ASSUME NEW o \in Obj, NEW p \in Obj, MoveAssign(o, p) PROVE Kept
    <2>1. /\ Movable(o) /\ Movable(p) /\ live' = live
          /\ \A q \in Obj : q # o /\ q # p => handle'[q] = handle[q]
        BY <1>4, Known DEF MoveAssign, Swap
    <2> QED
        BY <2>1, ReadersKept
<1>5. ASSUME NEW o \in Obj, NEW p \in Obj, MoveConstruct(o, p) PROVE Kept
    <2>1. /\ handle[o] = "raw" /\ Movable(p) /\ live \subseteq live'
          /\ \A q \in Obj : q # o /\ q # p => handle'[q] = handle[q]
        BY <1>5, Known DEF MoveConstruct
    <2> QED
        BY <2>1, ReadersKept
<1>6. ASSUME NEW o \in Obj, Destruct(o) PROVE Kept
    <2>1. /\ Movable(o)
          /\ \A q \in Obj : q # o => handle'[q] = handle[q]
          /\ \A e \in live \ live' : o \in Own /\ handle[o] = e
        BY <1>6, Known DEF Destruct
    <2> QED
        BY <2>1, ReadersKept
<1>7. ASSUME NEW o \in Obj, NEW b \in Own, Reset(o, b) PROVE Kept
    <2>1. /\ Movable(o) /\ Movable(b)
          /\ \A q \in Obj : q # o /\ q # b => handle'[q] = handle[q]
          /\ \A e \in live \ live' : \/ o \in Own /\ handle[o] = e
                                     \/ handle[b] = e
        BY <1>7, Known DEF Reset, New
    <2> QED
        BY <2>1, ReadersKept
<1>8. ASSUME NEW o \in Obj, NEW b \in Own, NEW front \in BOOLEAN,
             AddBuffer(o, b, front)
      PROVE  Kept
    <2>1. /\ Movable(b)
          /\ \A q \in Obj : q # b => handle'[q] = handle[q]
          /\ \A e \in live \ live' : handle[b] = e
        BY <1>8, Known DEF AddBuffer
    <2> QED
        BY <2>1, ReadersKept
<1>9. ASSUME \/ \E o \in Obj :
                    \/ UseDead(o) \/ Race(o) \/ EnableLocking(o)
                    \/ \E b \in Byte : Add(o, b) \/ Prepend(o, b)
                    \/ \E n \in 1 .. Size(o) : Drain(o, n)
                    \/ \E p \in Obj : \E n \in 1 .. Size(o) : RemoveInto(o, p, n)
                    \/ \E b \in Own : WriteBuffer(o, b)
             \/ \E b \in Own : MoveTerminates(b)
             \/ \E u \in Thread :
                    \/ \E o \in Obj, op \in {"drain", "str"}, sync \in BOOLEAN :
                           \E n \in 1 .. Size(o) : Begin(u, o, op, n, sync)
                    \/ \E o \in Own : \E n \in 1 .. Size(o) : CopyFirst(u, o, n)
                    \/ CopyOut(u) \/ DrainCopied(u)
             \/ UNCHANGED vars
      PROVE  UNCHANGED <<handle, live>>
    BY <1>9
    DEF UseDead, Race, EnableLocking, Add, Prepend, Drain, RemoveInto, WriteBuffer,
        MoveTerminates, Begin, CopyFirst, CopyOut, DrainCopied, vars
<1> HIDE DEF Kept, Obj
<1>10. ASSUME Next PROVE Kept
    <2>1. ASSUME NEW o \in Own, NEW p \in Own, MoveAssign(o, p) \/ MoveConstruct(o, p)
          PROVE  Kept
        BY <2>1, <1>4, <1>5 DEF Obj
    <2>2. ASSUME NEW o \in Ref, NEW p \in Ref, MoveAssign(o, p) \/ MoveConstruct(o, p)
          PROVE  Kept
        BY <2>2, <1>4, <1>5 DEF Obj
    <2> QED
        BY <1>1, <1>2, <1>3, <1>6, <1>7, <1>8, <1>9, <1>10, <2>1, <2>2 DEF Next, Kept
<1> QED
    BY <1>1, <1>9, <1>10 DEF Kept

LEMMA JobsInductive == IInv /\ Jobs /\ Contents /\ [Next]_vars => Jobs'
<1> SUFFICES ASSUME IInv, Jobs, Contents, [Next]_vars PROVE Jobs'
    OBVIOUS
<1>0. \A t \in Thread : Busy(t) =>
        /\ job[t] \in Job
        /\ handle'[job[t].obj] = handle[job[t].obj]
        /\ handle[job[t].obj] \in live /\ handle'[job[t].obj] \in live'
    BY ReadersStay DEF Jobs
<1>1. CASE UNCHANGED job
    BY <1>0, <1>1 DEF Jobs, Busy
\* A thread whose job goes on, or ends.
<1>2. ASSUME NEW t \in Thread, NEW j, job' = [job EXCEPT ![t] = j],
             j = Idle \/ (Busy(t) /\ j \in Job /\ j.obj = job[t].obj)
      PROVE  Jobs'
    <2>1. /\ DOMAIN job' = Thread
          /\ \A u \in Thread : job'[u] = IF u = t THEN j ELSE job[u]
        BY <1>2 DEF Jobs
    <2> QED
        BY <1>0, <1>2, <2>1 DEF Jobs, Busy
\* A thread that begins.
<1>3. ASSUME NEW t \in Thread, NEW j \in Job, job' = [job EXCEPT ![t] = j],
             handle[j.obj] \in live, UNCHANGED <<handle, live>>
      PROVE  Jobs'
    <2>1. DOMAIN job' = Thread
        BY <1>3 DEF Jobs
    <2> HIDE DEF Job
    <2>2. ASSUME NEW u \in Thread, Busy(u)'
          PROVE  job'[u] \in Job /\ handle'[job'[u].obj] \in live'
        <3>1. CASE u = t
            BY <1>3, <3>1 DEF Jobs
        <3>2. CASE u # t
            BY <1>0, <1>3, <2>2, <3>2 DEF Jobs, Busy
        <3> QED
            BY <3>1, <3>2
    <2> QED
        BY <2>1, <2>2 DEF Jobs
<1>10. \A o \in Obj : /\ handle[o] \in live => handle[o] \in AnyEvb
                      /\ Size(o) \in Nat
                      /\ handle[o] \in live => Size(o) = Len(data[handle[o]])
    BY Known DEF Size, Contents
<1>11. ASSUME NEW t \in Thread, NEW o \in Obj, NEW op \in {"drain", "str"},
              NEW sync \in BOOLEAN, NEW n \in 1 .. Size(o), Begin(t, o, op, n, sync)
       PROVE  Jobs'
    <2> DEFINE held == sync /\ handle[o] \in locks
               j == [op |-> op, obj |-> o, n |-> n, held |-> held,
                     copied |-> FALSE, got |-> <<>>]
    <2>1. j \in Job /\ j.obj = o
        <3>1. n \in Nat /\ held \in BOOLEAN /\ <<>> \in Seq(Byte)
            BY <1>10
        <3> HIDE DEF held
        <3> QED
            BY <3>1 DEF Job
    <2>2. /\ handle[o] \in live /\ UNCHANGED <<handle, live>>
          /\ job' = [job EXCEPT ![t] = j]
        BY <1>11 DEF Begin, Usable
    <2> HIDE DEF j
    <2> QED
        BY <1>3, <2>1, <2>2
<1>12. ASSUME NEW t \in Thread, NEW o \in Own, NEW n \in 1 .. Size(o),
              CopyFirst(t, o, n)
       PROVE  Jobs'
    <2> DEFINE j == [op |-> "drain", obj |-> o, n |-> n, held |-> FALSE,
                     copied |-> TRUE, got |-> First(handle[o], n)]
    <2>1. o \in Obj /\ handle[o] \in live
        BY <1>12 DEF CopyFirst, Usable, Obj
    <2>2. n \in Nat /\ First(handle[o], n) \in Seq(Byte)
        <3>1. n \in 0 .. Len(data[handle[o]]) /\ n \in Nat
            BY <1>10, <2>1
        <3> QED
            BY <1>10, <2>1, <3>1, FirstOf
    <2>3. j \in Job /\ j.obj = o
        BY <2>1, <2>2 DEF Job
    <2>4. UNCHANGED <<handle, live>> /\ job' = [job EXCEPT ![t] = j]
        BY <1>12 DEF CopyFirst
    <2> HIDE DEF j
    <2> QED
        BY <1>3, <2>1, <2>3, <2>4
<1>4. ASSUME NEW t \in Thread, CopyOut(t) PROVE Jobs'
    <2> DEFINE g == IF job[t].n < Len(data[At(t)])
                    THEN First(At(t), job[t].n) ELSE data[At(t)]
    <2>1. Busy(t) /\ job[t] \in Job /\ At(t) \in AnyEvb
        BY <1>4, Known DEF CopyOut, Jobs, At
    <2>2. CASE job[t].op = "str"
        BY <1>2, <1>4, <2>2 DEF CopyOut
    <2>3. CASE job[t].op # "str"
        <3>1. job' = [job EXCEPT ![t] = [job[t] EXCEPT !.copied = TRUE, !.got = g]]
            BY <1>4, <2>3 DEF CopyOut, Jobs
        <3>2. g \in Seq(Byte)
            <4>1. Len(data[At(t)]) \in Nat /\ job[t].n \in Nat
                  /\ data[At(t)] \in Seq(Byte)
                BY <2>1 DEF Contents, Job
            <4> QED
                BY <2>1, <4>1, FirstOf
        <3> HIDE DEF g
        <3>3. /\ [job[t] EXCEPT !.copied = TRUE, !.got = g] \in Job
              /\ [job[t] EXCEPT !.copied = TRUE, !.got = g].obj = job[t].obj
            BY <2>1, <3>2 DEF Job
        <3> QED
            BY <1>2, <2>1, <3>1, <3>3
    <2> QED
        BY <2>2, <2>3
<1>5. ASSUME NEW t \in Thread, DrainCopied(t) PROVE Jobs'
    BY <1>2, <1>5 DEF DrainCopied
<1>6. ASSUME NEW o \in Obj,
             \/ Construct(o) \/ Destruct(o) \/ UseDead(o) \/ Race(o) \/ EnableLocking(o)
             \/ \E b \in Byte : Add(o, b) \/ Prepend(o, b)
             \/ \E n \in 1 .. Size(o) : Drain(o, n)
             \/ \E p \in Obj : \E n \in 1 .. Size(o) : RemoveInto(o, p, n)
             \/ \E b \in Own : WriteBuffer(o, b)
      PROVE  UNCHANGED job
    BY <1>6 DEF Construct, Destruct, UseDead, Race, EnableLocking, Add, Prepend,
                Drain, RemoveInto, WriteBuffer
<1>7. ASSUME NEW o \in Obj,
             \/ \E b \in Own : \/ Reset(o, b)
                               \/ \E front \in BOOLEAN : AddBuffer(o, b, front)
             \/ \E p \in Obj : MoveAssign(o, p) \/ MoveConstruct(o, p)
      PROVE  UNCHANGED job
    BY <1>7 DEF Reset, AddBuffer, MoveAssign, MoveConstruct
<1>8. ASSUME \/ \E r \in Ref : \/ \E o \in Obj : TakeRef(r, o)
                               \/ \E e \in Ext : TakeEnd(r, e)
             \/ \E b \in Own : MoveTerminates(b)
             \/ UNCHANGED vars
      PROVE  UNCHANGED job
    BY <1>8 DEF TakeRef, TakeEnd, MoveTerminates, vars
<1>9. Own \subseteq Obj /\ Ref \subseteq Obj
    BY DEF Obj
<1> QED
    BY <1>1, <1>4, <1>5, <1>6, <1>7, <1>8, <1>9, <1>11, <1>12 DEF Next

-----------------------------------------------------------------------------
(* What a step does to the bytes, whoever makes it.                         *)

Emptied(e) == data' = [data EXCEPT ![e] = <<>>]

Taken(e, n) == data' = [data EXCEPT ![e] = Rest(e, n)]

PutIn(e, b) ==
    \/ data' = [data EXCEPT ![e] = Append(@, b)]
    \/ data' = [data EXCEPT ![e] = <<b>> \o @]

\* The first n bytes of e go to one side of f, an evbuffer that may be new.
Carried(e, f, n) ==
    \/ data' = [data EXCEPT ![f] = @ \o First(e, n), ![e] = Rest(e, n)]
    \/ data' = [data EXCEPT ![f] = First(e, n) \o @, ![e] = Rest(e, n)]

\* The evbuffer with all its bytes gone.
LEMMA AllOf ==
    ASSUME Contents, NEW e \in AnyEvb
    PROVE  /\ First(e, Len(data[e])) = data[e]
           /\ Rest(e, Len(data[e])) = <<>>
           /\ Len(data[e]) \in Nat
<1>1. data[e] \in Seq(Byte) /\ Len(data[e]) \in Nat
    BY DEF Contents
<1> QED
    BY <1>1 DEF First, Rest

LEMMA DestructData ==
    ASSUME IInv, Contents, NEW o \in Obj, Destruct(o)
    PROVE  /\ o \notin Own => UNCHANGED data
           /\ o \in Own => Emptied(handle[o])
BY DEF Destruct, Emptied

LEMMA ResetData ==
    ASSUME IInv, Contents, NEW o \in Obj, NEW b \in Own, Reset(o, b)
    PROVE  /\ o = b => UNCHANGED data
           /\ o \in Own /\ o # b => Emptied(handle[o])
           /\ o \notin Own => Emptied(handle[b])
BY Known DEF Reset, Emptied, New, Contents, AnyEvb

LEMMA ExceptSwap ==
    ASSUME NEW d, NEW f, NEW g, f # g, NEW x, NEW y
    PROVE  [[d EXCEPT ![f] = x] EXCEPT ![g] = y] = [d EXCEPT ![g] = y, ![f] = x]
OBVIOUS

\* append(buffer) and prepend(buffer): all that b held goes, to where it is
\* added or nowhere.
LEMMA AddBufferData ==
    ASSUME IInv, Contents, NEW o \in Obj, NEW b \in Own, NEW front \in BOOLEAN,
           AddBuffer(o, b, front)
    PROVE  \E e \in Evb :
             /\ e \notin live /\ handle' = [handle EXCEPT ![b] = e]
             /\ handle[b] \in live
             /\ LET h == handle[b]
                    to == IF o = b THEN e ELSE handle[o]
                IN  \/ o # b /\ Emptied(h)
                    \/ to # h /\ Carried(h, to, Len(data[h]))
<1> USE Apart, Known DEF Obj
<1> DEFINE h == handle[b]
<1>1. h \in live /\ h \in AnyEvb
    BY DEF AddBuffer, Movable
<1>2. PICK e \in Evb :
        LET to == IF o = b THEN e ELSE handle[o]
            refused == to \in IF front THEN Output ELSE Input
            d == Consumed(data, b, h, e)
        IN
        /\ e \notin live
        /\ handle' = [handle EXCEPT ![b] = e]
        /\ data' = IF to = h \/ refused THEN d
                   ELSE [d EXCEPT ![to] = IF front THEN data[h] \o @
                                                   ELSE @ \o data[h]]
    BY DEF AddBuffer, New
<1> DEFINE to == IF o = b THEN e ELSE handle[o]
           refused == to \in IF front THEN Output ELSE Input
<1>3. e \in AnyEvb /\ e # h /\ data[e] = <<>> /\ to \in AnyEvb
    BY <1>1, <1>2 DEF AnyEvb, Contents, AddBuffer, Usable
<1>4. Consumed(data, b, h, e) = [data EXCEPT ![h] = <<>>]
    BY <1>1, <1>3 DEF Consumed, Contents
<1>5. o = b => to # h /\ ~refused
    BY <1>3, BufferAssumption
<1>6. CASE to = h \/ refused
    BY <1>1, <1>2, <1>4, <1>5, <1>6 DEF Emptied
<1>7. CASE ~(to = h \/ refused)
    <2> DEFINE x == [data EXCEPT ![h] = <<>>]
               s == IF front THEN data[h] \o data[to] ELSE data[to] \o data[h]
    <2>1. data' = [x EXCEPT ![to] = IF front THEN data[h] \o @ ELSE @ \o data[h]]
        BY <1>2, <1>4, <1>7
    <2>2. x[to] = data[to]
        BY <1>3, <1>7 DEF Contents
    <2>3. h # to
        BY <1>7
    <2>4. data' = [data EXCEPT ![to] = s, ![h] = <<>>]
        <3>1. data' = [x EXCEPT ![to] = s]
            <4> HIDE DEF x, h, to
            <4> QED
                BY <2>1, <2>2
        <3> HIDE DEF s, h, to
        <3> QED
            BY <2>3, <3>1, ExceptSwap
    <2>5. First(h, Len(data[h])) = data[h] /\ Rest(h, Len(data[h])) = <<>>
        BY <1>1, AllOf
    <2>6. Carried(h, to, Len(data[h]))
        <3> HIDE DEF h, to
        <3> QED
            BY <2>4, <2>5 DEF Carried
    <2> HIDE DEF refused
    <2> QED
        BY <1>1, <1>2, <1>7, <2>6
<1> QED
    BY <1>6, <1>7

\* Where the bytes are after each kind of step.
LEMMA EmptiedAt ==
    ASSUME Contents, NEW e \in AnyEvb, Emptied(e)
    PROVE  /\ data' \in [AnyEvb -> Seq(Byte)]
           /\ \A f \in AnyEvb : data'[f] = IF f = e THEN <<>> ELSE data[f]
BY DEF Contents, Emptied

LEMMA TakenAt ==
    ASSUME Contents, NEW e \in AnyEvb, NEW n \in Nat, Taken(e, n)
    PROVE  /\ data' \in [AnyEvb -> Seq(Byte)]
           /\ \A f \in AnyEvb : data'[f] = IF f = e THEN Rest(e, n) ELSE data[f]
BY RestOf DEF Contents, Taken

LEMMA PutAt ==
    ASSUME Contents, NEW e \in AnyEvb, NEW b \in Byte, PutIn(e, b)
    PROVE  /\ data' \in [AnyEvb -> Seq(Byte)]
           /\ \A f \in AnyEvb : f # e => data'[f] = data[f]
           /\ data'[e] \in {Append(data[e], b), <<b>> \o data[e]}
<1>1. data[e] \in Seq(Byte)
    BY DEF Contents
<1>2. Append(data[e], b) \in Seq(Byte) /\ <<b>> \o data[e] \in Seq(Byte)
    BY <1>1
<1> QED
    BY <1>2 DEF Contents, PutIn

LEMMA CarriedAt ==
    ASSUME Contents, NEW e \in AnyEvb, NEW f \in AnyEvb, e # f,
           NEW n \in 0 .. Len(data[e]), Carried(e, f, n)
    PROVE  /\ data' \in [AnyEvb -> Seq(Byte)]
           /\ \A g \in AnyEvb : g # e /\ g # f => data'[g] = data[g]
           /\ data'[e] = Rest(e, n)
           /\ data'[f] \in {data[f] \o First(e, n), First(e, n) \o data[f]}
<1>1. data[f] \in Seq(Byte) /\ Len(data[e]) \in Nat
    BY DEF Contents
<1>2. n \in Nat
    BY <1>1
<1>3. First(e, n) \in Seq(Byte) /\ Rest(e, n) \in Seq(Byte)
    BY <1>2, FirstOf, RestOf
<1>4. data[f] \o First(e, n) \in Seq(Byte) /\ First(e, n) \o data[f] \in Seq(Byte)
    BY <1>1, <1>3
<1> QED
    BY <1>3, <1>4 DEF Contents, Carried

\* Whatever happens to the bytes of an evbuffer, the freed ones are empty.
LEMMA ContentsInductive == IInv /\ Jobs /\ Contents /\ [Next]_vars => Contents'
<1> SUFFICES ASSUME IInv, Jobs, Contents, [Next]_vars PROVE Contents'
    OBVIOUS
<1>0. /\ live \subseteq AnyEvb
      /\ \A e \in AnyEvb : data[e] \in Seq(Byte) /\ Len(data[e]) \in Nat
      /\ \A o \in Obj : handle[o] \in live => Size(o) = Len(data[handle[o]])
    BY Known DEF Contents, Size
<1>1. ASSUME NEW e \in live, NEW n \in Nat, Taken(e, n), UNCHANGED live
      PROVE  Contents'
    BY <1>0, <1>1, TakenAt DEF Contents
<1>2. ASSUME NEW e \in live, NEW b \in Byte, PutIn(e, b), UNCHANGED live
      PROVE  Contents'
    BY <1>0, <1>2, PutAt DEF Contents
<1>3. ASSUME NEW e \in live, Emptied(e), live \ {e} \subseteq live'
      PROVE  Contents'
    BY <1>0, <1>3, EmptiedAt DEF Contents
<1>4. CASE UNCHANGED data /\ live \subseteq live'
    BY <1>4 DEF Contents
<1>5. ASSUME NEW o \in Obj, NEW b \in Byte, Add(o, b) \/ Prepend(o, b)
      PROVE  Contents'
    <2>1. handle[o] \in live /\ PutIn(handle[o], b) /\ UNCHANGED live
        BY <1>5 DEF Add, Prepend, Usable, PutIn
    <2> QED
        BY <1>2, <2>1
<1>6. ASSUME NEW o \in Obj, NEW n \in 1 .. Size(o), Drain(o, n)
      PROVE  Contents'
    <2>1. handle[o] \in live /\ Taken(handle[o], n) /\ UNCHANGED live
        BY <1>6 DEF Drain, Usable, Taken
    <2>2. n \in Nat
        BY <1>0, <2>1
    <2> QED
        BY <1>1, <2>1, <2>2
<1>7. ASSUME NEW o \in Obj, NEW p \in Obj, NEW n \in 1 .. Size(o), RemoveInto(o, p, n)
      PROVE  Contents'
    <2>1. /\ handle[o] \in live /\ handle[p] \in live /\ handle[o] # handle[p]
          /\ Carried(handle[o], handle[p], n) /\ UNCHANGED live
        BY <1>7 DEF RemoveInto, Usable, Moved, Carried
    <2>2. n \in 0 .. Len(data[handle[o]])
        BY <1>0, <2>1
    <2> QED
        <3> DEFINE e == handle[o]  f == handle[p]
        <3>1. e \in AnyEvb /\ f \in AnyEvb /\ e # f
            BY <1>0, <2>1
        <3> HIDE DEF e, f
        <3>2. /\ data' \in [AnyEvb -> Seq(Byte)]
              /\ \A g \in AnyEvb : g # e /\ g # f => data'[g] = data[g]
            BY <2>1, <2>2, <3>1, CarriedAt DEF e, f
        <3> QED
            BY <2>1, <3>2 DEF Contents, e, f
<1>8. ASSUME NEW t \in Thread, DrainCopied(t) PROVE Contents'
    <2>1. /\ At(t) \in live /\ job[t].n \in Nat
          /\ Taken(At(t), job[t].n) /\ UNCHANGED live
        BY <1>8 DEF DrainCopied, Jobs, Job, Taken, At
    <2> QED
        BY <1>1, <2>1
<1>9. ASSUME NEW o \in Obj, Destruct(o) PROVE Contents'
    <2>1. CASE o \in Own
        <3>1. handle[o] \in live /\ live' = live \ {handle[o]}
            BY <1>9, <2>1, Known DEF Destruct, Movable
        <3> QED
            BY <1>3, <1>9, <2>1, <3>1, DestructData
    <2>2. CASE o \notin Own
        BY <1>4, <1>9, <2>2 DEF Destruct
    <2> QED
        BY <2>1, <2>2
<1>10. ASSUME NEW o \in Obj, NEW b \in Own, Reset(o, b) PROVE Contents'
    <2>1. handle[b] \in live /\ (o \in Own => handle[o] \in live)
        BY <1>10, Known DEF Reset, Movable
    <2>2. PICK e \in Evb :
            /\ e \notin live
            /\ live' = IF o \in Own
                       THEN (live \cup {e}) \ {IF o = b THEN e ELSE handle[o]}
                       ELSE (live \cup {e}) \ {handle[b]}
        BY <1>10 DEF Reset, New
    <2>3. CASE o = b
        BY <1>4, <1>10, <2>2, <2>3, ResetData
    <2>4. CASE o \in Own /\ o # b
        BY <1>3, <1>10, <2>1, <2>2, <2>4, ResetData
    <2>5. CASE o \notin Own
        BY <1>3, <1>10, <2>1, <2>2, <2>5, ResetData
    <2> QED
        BY <2>3, <2>4, <2>5
<1>11. ASSUME NEW o \in Obj, NEW b \in Own, NEW front \in BOOLEAN,
              AddBuffer(o, b, front)
       PROVE  Contents'
    <2> DEFINE h == handle[b]
    <2>1. PICK e \in Evb :
             /\ e \notin live /\ handle' = [handle EXCEPT ![b] = e]
             /\ h \in live
             /\ LET to == IF o = b THEN e ELSE handle[o]
                IN  \/ o # b /\ Emptied(h)
                    \/ to # h /\ Carried(h, to, Len(data[h]))
        BY <1>11, AddBufferData
    <2> DEFINE to == IF o = b THEN e ELSE handle[o]
    <2>2. live' = (live \cup {e}) \ {h}
        <3>1. handle'[b] = e
            BY <2>1, Known DEF Obj
        <3> QED
            BY <1>11, <2>1, <3>1, Known DEF AddBuffer, Obj
    <2>3. CASE Emptied(h)
        BY <1>3, <2>1, <2>2, <2>3
    <2>4. CASE to # h /\ Carried(h, to, Len(data[h]))
        <3>1. to \in AnyEvb /\ to \in live' /\ h \in AnyEvb
            BY <1>0, <1>11, <2>1, <2>2, <2>4 DEF AddBuffer, Usable, AnyEvb
        <3>2. Rest(h, Len(data[h])) = <<>> /\ Len(data[h]) \in 0 .. Len(data[h])
            BY <3>1, AllOf
        <3>3. /\ data' \in [AnyEvb -> Seq(Byte)]
              /\ \A g \in AnyEvb : g # h /\ g # to => data'[g] = data[g]
              /\ data'[h] = <<>>
            BY <2>4, <3>1, <3>2, CarriedAt
        <3> QED
            BY <2>2, <3>1, <3>3 DEF Contents
    <2> QED
        BY <2>1, <2>3, <2>4
<1>12. ASSUME NEW o \in Obj,
              \/ Construct(o) \/ UseDead(o) \/ Race(o) \/ EnableLocking(o)
              \/ \E b \in Own : WriteBuffer(o, b)
              \/ \E p \in Obj : MoveAssign(o, p) \/ MoveConstruct(o, p)
       PROVE  UNCHANGED data /\ live \subseteq live'
    BY <1>12 DEF Construct, UseDead, Race, EnableLocking, WriteBuffer, MoveAssign, MoveConstruct
<1>13. ASSUME \/ \E r \in Ref : \/ \E o \in Obj : TakeRef(r, o)
                                \/ \E e \in Ext : TakeEnd(r, e)
              \/ \E b \in Own : MoveTerminates(b)
              \/ \E t \in Thread :
                    \/ \E o \in Obj, op \in {"drain", "str"}, sync \in BOOLEAN :
                           \E n \in 1 .. Size(o) : Begin(t, o, op, n, sync)
                    \/ \E o \in Own : \E n \in 1 .. Size(o) : CopyFirst(t, o, n)
                    \/ CopyOut(t)
              \/ UNCHANGED vars
       PROVE  UNCHANGED data /\ live \subseteq live'
    BY <1>13 DEF TakeRef, TakeEnd, MoveTerminates, Begin, CopyFirst, CopyOut, vars
<1>14. Own \subseteq Obj /\ Ref \subseteq Obj
    BY DEF Obj
<1> QED
    BY <1>4, <1>5, <1>6, <1>7, <1>8, <1>9, <1>10, <1>11, <1>12, <1>13, <1>14 DEF Next

\* A freed evbuffer takes its lock along.
LEMMA OthersInductive == IInv /\ Others /\ [Next]_vars => Others'
<1> SUFFICES ASSUME IInv, Others, [Next]_vars PROVE Others'
    OBVIOUS
<1>1. CASE /\ crash' = crash
           /\ \/ locks' = locks /\ live \subseteq live'
              \/ locks' \subseteq live'
    BY <1>1 DEF Others
<1>2. ASSUME \/ \E b \in Own : MoveTerminates(b)
             \/ \E o \in Obj : \/ UseDead(o) \/ Race(o)
                              \/ \E b \in Own : WriteBuffer(o, b)
      PROVE  Others'
    BY <1>2 DEF MoveTerminates, UseDead, Race, WriteBuffer, Others
<1>3. ASSUME NEW o \in Obj,
             \/ Construct(o)
             \/ \E b \in Byte : Add(o, b) \/ Prepend(o, b)
             \/ \E n \in 1 .. Size(o) : Drain(o, n)
             \/ \E p \in Obj : \/ MoveAssign(o, p) \/ MoveConstruct(o, p)
                               \/ \E n \in 1 .. Size(o) : RemoveInto(o, p, n)
      PROVE  crash' = crash /\ locks' = locks /\ live \subseteq live'
    BY <1>3 DEF Construct, Add, Prepend, Drain, MoveAssign, MoveConstruct, RemoveInto
<1>4. ASSUME NEW o \in Obj, EnableLocking(o)
      PROVE  crash' = crash /\ locks' \subseteq live'
    BY <1>4 DEF EnableLocking, Usable, Others
<1>5. ASSUME NEW o \in Obj,
             \/ Destruct(o)
             \/ \E b \in Own : \/ Reset(o, b)
                               \/ \E front \in BOOLEAN : AddBuffer(o, b, front)
      PROVE  crash' = crash /\ locks' \subseteq live'
    BY <1>5 DEF Destruct, Reset, AddBuffer
<1>6. ASSUME \/ \E r \in Ref : \/ \E o \in Obj : TakeRef(r, o)
                               \/ \E e \in Ext : TakeEnd(r, e)
             \/ \E t \in Thread :
                    \/ \E o \in Obj, op \in {"drain", "str"}, sync \in BOOLEAN :
                           \E n \in 1 .. Size(o) : Begin(t, o, op, n, sync)
                    \/ \E o \in Own : \E n \in 1 .. Size(o) : CopyFirst(t, o, n)
                    \/ CopyOut(t) \/ DrainCopied(t)
             \/ UNCHANGED vars
      PROVE  crash' = crash /\ locks' = locks /\ live \subseteq live'
    BY <1>6 DEF TakeRef, TakeEnd, Begin, CopyFirst, CopyOut, DrainCopied, vars
<1>7. Own \subseteq Obj /\ Ref \subseteq Obj
    BY DEF Obj
<1> QED
    BY <1>1, <1>2, <1>3, <1>4, <1>5, <1>6, <1>7 DEF Next

LEMMA BInvariance == Spec => []BInv
<1>1. Init => BInv
    <2> SUFFICES ASSUME Init PROVE BInv
        OBVIOUS
    <2>1. Jobs
        BY DEF Init, Jobs, Busy
    <2>2. Contents
        <3>1. <<>> \in Seq(Byte)
            OBVIOUS
        <3> QED
            BY <3>1 DEF Init, Contents
    <2>3. Others
        BY DEF Init, Others
    <2> QED
        BY <2>1, <2>2, <2>3, Initially DEF BInv
<1>2. BInv /\ [Next]_vars => BInv'
    BY IInvInductive, JobsInductive, ContentsInductive, OthersInductive DEF BInv
<1> QED
    BY <1>1, <1>2, PTL DEF Spec

\* Every variable of the buffer model keeps its type: what a thread reads from
\* in several calls is always an object, and no buffer holds anything but bytes.
THEOREM BufferTypeCorrect == Spec => []TypeOK
<1>1. BInv => TypeOK
    <2> SUFFICES ASSUME BInv PROVE TypeOK
        OBVIOUS
    <2>1. /\ \A o \in Own : handle[o] \in Evb \cup {"raw"}
          /\ \A r \in Ref : handle[r] \in AnyEvb \cup {None, "raw"}
          /\ live \in SUBSET AnyEvb
          /\ same \in [Ref -> Own \cup {None}]
        BY Known DEF BInv, Obj
    <2>2. DOMAIN data = AnyEvb /\ \A e \in AnyEvb : ToSet(data[e]) \subseteq Byte
        BY DEF BInv, Contents, ToSet
    <2>3. DOMAIN job = Thread /\ \A t \in Thread : Busy(t) => job[t].obj \in Obj
        BY DEF BInv, Jobs, Job
    <2> QED
        BY <2>1, <2>2, <2>3 DEF BInv, Others, TypeOK
<1> QED
    BY <1>1, BInvariance, PTL

-----------------------------------------------------------------------------
(* Buffer implements ByteStrings.  A place of ByteStrings is a buffer or an  *)
(* end of a bufferevent, and its string what its evbuffer holds.             *)

Bytes(p) ==
    IF p \in Ext THEN data[p] ELSE IF handle[p] = "raw" THEN <<>> ELSE data[handle[p]]

bytes == [p \in Place |-> Bytes(p)]

\* The evbuffer of a place.
Held(p) == IF p \in Ext THEN p ELSE handle[p]

\* Each step of ByteStrings, from what it does to every place.
LEMMA AbstractSame ==
    ASSUME \A p \in Place : Bytes(p)' = Bytes(p)
    PROVE  [Strings!Next]_bytes
BY DEF bytes

LEMMA AbstractTake ==
    ASSUME NEW p \in Place, NEW n \in 1 .. Len(Bytes(p)),
           Bytes(p)' = SubSeq(Bytes(p), n + 1, Len(Bytes(p))),
           \A q \in Place : q # p => Bytes(q)' = Bytes(q)
    PROVE  [Strings!Next]_bytes
<1>1. bytes[p] = Bytes(p)
    BY DEF bytes
<1>2. bytes' = [bytes EXCEPT ![p] = SubSeq(bytes[p], n + 1, Len(bytes[p]))]
    BY <1>1 DEF bytes
<1>3. Strings!Take(p, n)
    BY <1>2 DEF Strings!Take, bytes, Bytes
<1> QED
    BY <1>1, <1>3 DEF Strings!Next, bytes, Bytes

LEMMA AbstractPut ==
    ASSUME NEW p \in Place, NEW b \in Byte,
           \A q \in Place : \A i \in 1 .. Len(Bytes(q)) : Bytes(q)[i] # b,
           Bytes(p)' \in {Append(Bytes(p), b), <<b>> \o Bytes(p)},
           \A q \in Place : q # p => Bytes(q)' = Bytes(q)
    PROVE  [Strings!Next]_bytes
<1>1. \A q \in Place : bytes[q] = Bytes(q)
    BY DEF bytes
<1>2. \/ bytes' = [bytes EXCEPT ![p] = Append(bytes[p], b)]
      \/ bytes' = [bytes EXCEPT ![p] = <<b>> \o bytes[p]]
    BY <1>1 DEF bytes
<1>3. \A q \in Place : b \notin Strings!In(q)
    BY <1>1 DEF Strings!In, bytes, Bytes
<1>4. Strings!Put(p, b)
    BY <1>2, <1>3 DEF Strings!Put, bytes, Bytes
<1> QED
    BY <1>4 DEF Strings!Next

LEMMA AbstractCarry ==
    ASSUME NEW p \in Place, NEW q \in Place, p # q, NEW n \in 1 .. Len(Bytes(q)),
           Bytes(p)' \in {Bytes(p) \o SubSeq(Bytes(q), 1, n),
                          SubSeq(Bytes(q), 1, n) \o Bytes(p)},
           Bytes(q)' = SubSeq(Bytes(q), n + 1, Len(Bytes(q))),
           \A r \in Place : r # p /\ r # q => Bytes(r)' = Bytes(r)
    PROVE  [Strings!Next]_bytes
<1>1. bytes[p] = Bytes(p) /\ bytes[q] = Bytes(q)
    BY DEF bytes
<1> DEFINE part == SubSeq(bytes[q], 1, n)
           rest == SubSeq(bytes[q], n + 1, Len(bytes[q]))
<1>2. \/ bytes' = [bytes EXCEPT ![p] = bytes[p] \o part, ![q] = rest]
      \/ bytes' = [bytes EXCEPT ![p] = part \o bytes[p], ![q] = rest]
    BY <1>1 DEF bytes
<1>3. Strings!Carry(p, q, n)
    BY <1>2 DEF Strings!Carry, bytes, Bytes
<1> QED
    BY <1>1, <1>3 DEF Strings!Next, bytes, Bytes

LEMMA AbstractExchange ==
    ASSUME NEW p \in Place, NEW q \in Place,
           Bytes(p)' = Bytes(q), Bytes(q)' = Bytes(p),
           \A r \in Place : r # p /\ r # q => Bytes(r)' = Bytes(r)
    PROVE  [Strings!Next]_bytes
<1>1. bytes[p] = Bytes(p) /\ bytes[q] = Bytes(q)
    BY DEF bytes
<1>2. bytes' = [bytes EXCEPT ![p] = bytes[q], ![q] = bytes[p]]
    BY <1>1 DEF bytes
<1>3. Strings!Exchange(p, q)
    BY <1>2 DEF Strings!Exchange, bytes, Bytes
<1> QED
    BY <1>3 DEF Strings!Next

LEMMA AbstractReplace ==
    ASSUME NEW p \in Place, NEW q \in Place, p # q,
           Bytes(p)' = Bytes(q), Bytes(q)' = <<>>,
           \A r \in Place : r # p /\ r # q => Bytes(r)' = Bytes(r)
    PROVE  [Strings!Next]_bytes
<1>1. bytes[p] = Bytes(p) /\ bytes[q] = Bytes(q)
    BY DEF bytes
<1>2. bytes' = [bytes EXCEPT ![p] = bytes[q], ![q] = <<>>]
    BY <1>1 DEF bytes
<1>3. Strings!Replace(p, q)
    BY <1>2 DEF Strings!Replace, bytes, Bytes
<1> QED
    BY <1>3 DEF Strings!Next

\* A place loses all it had.
LEMMA AbstractEmpty ==
    ASSUME NEW p \in Place, Bytes(p) \in Seq(Byte), Bytes(p)' = <<>>,
           \A q \in Place : q # p => Bytes(q)' = Bytes(q)
    PROVE  [Strings!Next]_bytes
<1>1. CASE Len(Bytes(p)) = 0
    BY <1>1, AbstractSame
<1>2. CASE Len(Bytes(p)) # 0
    <2>1. /\ Len(Bytes(p)) \in 1 .. Len(Bytes(p))
          /\ SubSeq(Bytes(p), Len(Bytes(p)) + 1, Len(Bytes(p))) = <<>>
        BY <1>2
    <2> QED
        BY <2>1, AbstractTake
<1> QED
    BY <1>1, <1>2

\* What is held where.
LEMMA Places ==
    ASSUME BInv
    PROVE  /\ \A p \in Place :
                /\ Bytes(p) = IF Held(p) = "raw" THEN <<>> ELSE data[Held(p)]
                /\ Bytes(p) \in Seq(Byte)
                /\ Held(p) \in live \cup {"raw"}
           /\ \A p, q \in Place : Held(p) = Held(q) /\ Held(p) # "raw" => p = q
           /\ \A e \in live : \E p \in Place : Held(p) = e
           /\ Own \subseteq Place /\ Own \subseteq Obj
           /\ \A o \in Own : Held(o) = handle[o]
<1> USE Known, Apart DEF BInv, Place, Obj
<1>1. \A p \in Place :
        /\ Bytes(p) = IF Held(p) = "raw" THEN <<>> ELSE data[Held(p)]
        /\ Held(p) \in live \cup {"raw"}
    BY DEF Bytes, Held, AnyEvb
<1>2. ASSUME NEW p \in Place PROVE Bytes(p) \in Seq(Byte)
    <2>1. <<>> \in Seq(Byte) /\ \A e \in live : data[e] \in Seq(Byte)
        BY DEF Contents
    <2>2. Held(p) = "raw" => Bytes(p) = <<>>
        BY <1>1
    <2>3. Held(p) # "raw" => Bytes(p) = data[Held(p)] /\ Held(p) \in live
        BY <1>1
    <2> HIDE DEF Contents, BInv, Obj, Place
    <2> QED
        BY ONLY <2>1, <2>2, <2>3
<1>3. \A p, q \in Place : Held(p) = Held(q) /\ Held(p) # "raw" => p = q
    BY DEF Held, AnyEvb
<1>4. \A e \in live : \E p \in Place : Held(p) = e
    BY DEF Held, AnyEvb
<1>5. \A o \in Own : Held(o) = handle[o]
    BY DEF Held, AnyEvb
<1> QED
    BY <1>1, <1>2, <1>3, <1>4, <1>5

\* After a step that leaves the buffers their evbuffers.
LEMMA BytesThere ==
    ASSUME BInv, \A o \in Own : handle'[o] = handle[o], NEW p \in Place
    PROVE  Bytes(p)' = IF Held(p) = "raw" THEN <<>> ELSE data'[Held(p)]
BY Apart DEF Bytes, Held, Place, AnyEvb

LEMMA TakenRefines ==
    ASSUME BInv, UNCHANGED handle, NEW e \in live, NEW n \in Nat, Taken(e, n)
    PROVE  [Strings!Next]_bytes
<1>1. PICK p \in Place : Held(p) = e
    BY Places
<1>2. e \in AnyEvb /\ e # "raw" /\ data[e] \in Seq(Byte) /\ Len(data[e]) \in Nat
    BY Known, Apart DEF BInv, Contents
<1>3. Bytes(p) = data[e] /\ Bytes(p)' = Rest(e, n)
    BY <1>1, <1>2, Places, BytesThere, TakenAt DEF BInv
<1>4. \A q \in Place : q # p => Bytes(q)' = Bytes(q)
    <2> SUFFICES ASSUME NEW q \in Place, q # p PROVE Bytes(q)' = Bytes(q)
        OBVIOUS
    <2>1. Held(q) # e /\ Held(q) \in AnyEvb \cup {"raw"}
        BY <1>1, <1>2, Places, Known DEF BInv
    <2>2. Held(q) # "raw" => data'[Held(q)] = data[Held(q)]
        BY <1>2, <2>1, TakenAt DEF BInv
    <2> QED
        BY <2>2, Places, BytesThere
<1>5. CASE n = 0
    <2>1. Rest(e, n) = data[e]
        BY <1>2, <1>5 DEF Rest
    <2> QED
        BY <1>3, <1>4, <2>1, AbstractSame
<1>6. CASE n \in 1 .. Len(data[e])
    BY <1>3, <1>4, <1>6, AbstractTake DEF Rest
<1>7. CASE n > Len(data[e])
    <2>1. Rest(e, n) = <<>>
        BY <1>2, <1>7 DEF Rest
    <2> QED
        BY <1>2, <1>3, <1>4, <2>1, AbstractEmpty
<1> QED
    BY <1>2, <1>5, <1>6, <1>7

LEMMA PutRefines ==
    ASSUME BInv, UNCHANGED handle, NEW e \in live, NEW b \in Byte,
           ~Present(b), PutIn(e, b)
    PROVE  [Strings!Next]_bytes
<1>1. PICK p \in Place : Held(p) = e
    BY Places
<1>2. e \in AnyEvb /\ e # "raw"
    BY Known, Apart DEF BInv
<1>3. Bytes(p) = data[e] /\ Bytes(p)' \in {Append(Bytes(p), b), <<b>> \o Bytes(p)}
    BY <1>1, <1>2, Places, BytesThere, PutAt DEF BInv
<1>4. \A q \in Place : q # p => Bytes(q)' = Bytes(q)
    <2> SUFFICES ASSUME NEW q \in Place, q # p PROVE Bytes(q)' = Bytes(q)
        OBVIOUS
    <2>1. Held(q) # e /\ Held(q) \in AnyEvb \cup {"raw"}
        BY <1>1, <1>2, Places, Known DEF BInv
    <2>2. Held(q) # "raw" => data'[Held(q)] = data[Held(q)]
        BY <1>2, <2>1, PutAt DEF BInv
    <2> QED
        BY <2>2, Places, BytesThere
<1>5. ASSUME NEW q \in Place, NEW i \in 1 .. Len(Bytes(q)) PROVE Bytes(q)[i] # b
    <2>1. Bytes(q) # <<>> /\ i \in DOMAIN Bytes(q)
        BY <1>5, Places
    <2>2. Held(q) \in live /\ Bytes(q) = data[Held(q)]
        BY <2>1, Places
    <2> QED
        BY <2>1, <2>2 DEF Present, ToSet
<1> QED
    BY <1>3, <1>4, <1>5, AbstractPut

LEMMA CarriedRefines ==
    ASSUME BInv, UNCHANGED handle, NEW e \in live, NEW f \in live, e # f,
           NEW n \in 1 .. Len(data[e]), Carried(e, f, n)
    PROVE  [Strings!Next]_bytes
<1>1. PICK q \in Place : Held(q) = e
    BY Places
<1>2. PICK p \in Place : Held(p) = f
    BY Places
<1>3. /\ e \in AnyEvb /\ e # "raw" /\ f \in AnyEvb /\ f # "raw"
      /\ n \in 0 .. Len(data[e])
    BY Known, Apart DEF BInv, Contents
<1>4. Bytes(q) = data[e] /\ Bytes(p) = data[f] /\ p # q
    BY <1>1, <1>2, <1>3, Places
<1>5. /\ Bytes(q)' = data'[e] /\ Bytes(p)' = data'[f]
    BY <1>1, <1>2, <1>3, BytesThere
<1>6. /\ data'[e] = Rest(e, n)
      /\ data'[f] \in {data[f] \o First(e, n), First(e, n) \o data[f]}
    BY <1>3, CarriedAt DEF BInv
<1>7. ASSUME NEW r \in Place, r # p, r # q PROVE Bytes(r)' = Bytes(r)
    <2>1. Held(r) # e /\ Held(r) # f /\ Held(r) \in AnyEvb \cup {"raw"}
        BY <1>1, <1>2, <1>3, <1>7, Places, Known DEF BInv
    <2>2. Held(r) # "raw" => data'[Held(r)] = data[Held(r)]
        BY <1>3, <2>1, CarriedAt DEF BInv
    <2> QED
        BY <2>2, Places, BytesThere
<1> QED
    BY <1>4, <1>5, <1>6, <1>7, AbstractCarry DEF First, Rest

\* The string of a buffer, and of an end of a bufferevent, after any step.
LEMMA BytesAfter ==
    /\ \A o \in Own : Bytes(o)' = IF handle'[o] = "raw" THEN <<>> ELSE data'[handle'[o]]
    /\ \A x \in Ext : Bytes(x)' = data'[x]
BY Apart DEF Bytes, AnyEvb

LEMMA BytesBefore ==
    /\ \A o \in Own : Bytes(o) = IF handle[o] = "raw" THEN <<>> ELSE data[handle[o]]
    /\ \A x \in Ext : Bytes(x) = data[x]
BY Apart DEF Bytes, AnyEvb

LEMMA QuietRefines ==
    ASSUME BInv, \A o \in Own : handle'[o] = handle[o], UNCHANGED data
    PROVE  [Strings!Next]_bytes
BY BytesThere, Places, AbstractSame

LEMMA ConstructRefines ==
    ASSUME BInv, NEW o \in Obj, Construct(o)
    PROVE  [Strings!Next]_bytes
<1> USE Known, Apart DEF BInv
<1>1. CASE o \in Own
    <2>1. PICK e \in Evb : e \notin live /\ handle' = [handle EXCEPT ![o] = e]
        BY <1>1 DEF Construct, New
    <2>2. /\ handle[o] = "raw" /\ handle'[o] = e /\ UNCHANGED data
          /\ \A q \in Own : q # o => handle'[q] = handle[q]
        BY <2>1 DEF Construct, Obj
    <2>3. data[e] = <<>> /\ e # "raw"
        BY <2>1 DEF Contents, AnyEvb
    <2>4. \A p \in Place : Bytes(p)' = Bytes(p)
        BY <2>2, <2>3, BytesAfter, BytesBefore DEF Place
    <2> QED
        BY <2>4, AbstractSame
<1>2. CASE o \notin Own
    <2>1. /\ handle' = [handle EXCEPT ![o] = None] /\ UNCHANGED data
        BY <1>2 DEF Construct
    <2> QED
        BY <1>2, <2>1, QuietRefines DEF Obj
<1> QED
    BY <1>1, <1>2

LEMMA MoveRefines ==
    ASSUME BInv, NEW o \in Obj, NEW p \in Obj, (o \in Own) = (p \in Own),
           MoveAssign(o, p) \/ MoveConstruct(o, p)
    PROVE  [Strings!Next]_bytes
<1> USE Known, Apart DEF BInv
<1>1. CASE o \notin Own
    <2>1. UNCHANGED data /\ \A q \in Own : handle'[q] = handle[q]
        BY <1>1 DEF MoveAssign, Swap, MoveConstruct, Obj
    <2> QED
        BY <2>1, QuietRefines
<1>2. CASE o \in Own /\ MoveAssign(o, p)
    <2>1. /\ handle'[o] = handle[p] /\ handle'[p] = handle[o] /\ UNCHANGED data
          /\ \A q \in Own : q # o /\ q # p => handle'[q] = handle[q]
        BY <1>2 DEF MoveAssign, Swap, Obj
    <2>2. /\ Bytes(o)' = Bytes(p) /\ Bytes(p)' = Bytes(o)
          /\ \A q \in Place : q # o /\ q # p => Bytes(q)' = Bytes(q)
        BY <1>2, <2>1, BytesAfter, BytesBefore DEF Place
    <2>3. o \in Place /\ p \in Place
        BY <1>2 DEF Place
    <2> QED
        BY <2>2, <2>3, AbstractExchange
<1>3. CASE o \in Own /\ MoveConstruct(o, p)
    <2>1. PICK e \in Evb :
            e \notin live /\ handle' = [handle EXCEPT ![o] = handle[p], ![p] = e]
        BY <1>3 DEF MoveConstruct, New
    <2>2. /\ handle[o] = "raw" /\ handle[p] # "raw" /\ UNCHANGED data
        BY <1>3 DEF MoveConstruct, Movable
    <2>3. /\ handle'[o] = handle[p] /\ handle'[p] = e
          /\ \A q \in Own : q # o /\ q # p => handle'[q] = handle[q]
        BY <2>1, <2>2 DEF Obj
    <2>4. data[e] = <<>> /\ e # "raw"
        BY <2>1 DEF Contents, AnyEvb
    <2>5. /\ Bytes(o)' = Bytes(p) /\ Bytes(p)' = <<>>
          /\ \A q \in Place : q # o /\ q # p => Bytes(q)' = Bytes(q)
        BY <1>3, <2>2, <2>3, <2>4, BytesAfter, BytesBefore DEF Place
    <2>6. o \in Place /\ p \in Place /\ o # p
        BY <1>3, <2>2 DEF Place
    <2> QED
        BY <2>5, <2>6, AbstractReplace
<1> QED
    BY <1>1, <1>2, <1>3

LEMMA DestructRefines ==
    ASSUME BInv, NEW o \in Obj, Destruct(o)
    PROVE  [Strings!Next]_bytes
<1> USE Known, Apart DEF BInv
<1>1. handle[o] # "raw" /\ handle' = [handle EXCEPT ![o] = "raw"]
    BY DEF Destruct, Movable
<1>2. CASE o \in Own
    <2>1. handle[o] \in AnyEvb /\ Emptied(handle[o])
        BY <1>1, <1>2, DestructData
    <2>2. \A e \in AnyEvb : data'[e] = IF e = handle[o] THEN <<>> ELSE data[e]
        BY <2>1, EmptiedAt
    <2>3. /\ handle'[o] = "raw"
          /\ \A q \in Own : q # o => handle'[q] = handle[q] /\ handle'[q] # handle[o]
          /\ handle[o] \notin Ext
        BY <1>1, <1>2 DEF Obj
    <2>4. Bytes(o)' = <<>> /\ \A q \in Place : q # o => Bytes(q)' = Bytes(q)
        BY <1>2, <2>2, <2>3, BytesAfter, BytesBefore DEF Place, AnyEvb
    <2> QED
        BY <1>2, <2>4, Places, AbstractEmpty
<1>3. CASE o \notin Own
    <2>1. UNCHANGED data /\ \A q \in Own : handle'[q] = handle[q]
        BY <1>1, <1>3 DEF Destruct, Obj
    <2> QED
        BY <2>1, QuietRefines
<1> QED
    BY <1>2, <1>3

LEMMA ResetRefines ==
    ASSUME BInv, NEW o \in Obj, NEW b \in Own, Reset(o, b)
    PROVE  [Strings!Next]_bytes
<1> USE Known, Apart DEF BInv
<1>1. PICK e \in Evb :
        e \notin live /\ handle' = [handle EXCEPT ![b] = e, ![o] = handle[b]]
    BY DEF Reset, New
<1>2. /\ data[e] = <<>> /\ e # "raw" /\ e \notin Ext /\ e \in AnyEvb
      /\ handle[b] # "raw" /\ handle[b] \in AnyEvb /\ handle[b] \notin Ext
      /\ handle[o] # "raw" /\ handle[b] # e
    BY <1>1 DEF Contents, AnyEvb, Reset, Movable
<1>3. CASE o = b
    <2>1. \A q \in Own : handle'[q] = handle[q]
        BY <1>1, <1>3 DEF Obj
    <2> QED
        BY <1>3, <2>1, ResetData, QuietRefines
<1>4. CASE o \in Own /\ o # b
    <2>1. /\ handle'[o] = handle[b] /\ handle'[b] = e
          /\ \A q \in Own : q # o /\ q # b => handle'[q] = handle[q]
        BY <1>1, <1>4 DEF Obj
    <2>2. handle[o] \in AnyEvb /\ handle[o] \notin Ext /\ handle[o] # handle[b]
          /\ handle[o] # e
        BY <1>1, <1>2, <1>4
    <2>3. \A d \in AnyEvb : data'[d] = IF d = handle[o] THEN <<>> ELSE data[d]
        BY <1>4, <2>2, ResetData, EmptiedAt
    <2>4. \A q \in Own : q # o => handle[q] # handle[o] /\ handle[q] \in AnyEvb \cup {"raw"}
        BY <1>2, <1>4 DEF AnyEvb
    <2>5. /\ Bytes(o)' = Bytes(b) /\ Bytes(b)' = <<>>
        BY <1>2, <1>4, <2>1, <2>2, <2>3, BytesAfter, BytesBefore
    <2>6. \A q \in Place : q # o /\ q # b => Bytes(q)' = Bytes(q)
        BY <2>1, <2>2, <2>3, <2>4, BytesAfter, BytesBefore DEF Place, AnyEvb
    <2> QED
        BY <1>4, <2>5, <2>6, Places, AbstractReplace
<1>5. CASE o \notin Own
    <2>1. handle'[b] = e /\ \A q \in Own : q # b => handle'[q] = handle[q]
        BY <1>1, <1>5 DEF Obj
    <2>2. \A d \in AnyEvb : data'[d] = IF d = handle[b] THEN <<>> ELSE data[d]
        BY <1>2, <1>5, ResetData, EmptiedAt
    <2>3. \A q \in Own : q # b => handle[q] # handle[b] /\ handle[q] \in AnyEvb \cup {"raw"}
        BY <1>2 DEF AnyEvb
    <2>4. Bytes(b)' = <<>>
        BY <1>2, <2>1, <2>2, BytesAfter
    <2>5. \A q \in Place : q # b => Bytes(q)' = Bytes(q)
        BY <1>2, <2>1, <2>2, <2>3, BytesAfter, BytesBefore DEF Place, AnyEvb
    <2> QED
        BY <2>4, <2>5, Places, AbstractEmpty
<1> QED
    BY <1>3, <1>4, <1>5

LEMMA AddBufferRefines ==
    ASSUME BInv, NEW o \in Obj, NEW b \in Own, NEW front \in BOOLEAN,
           AddBuffer(o, b, front)
    PROVE  [Strings!Next]_bytes
<1> USE Known, Apart DEF BInv
<1> DEFINE h == handle[b]  n == Len(data[h])
<1>1. PICK e \in Evb :
         /\ e \notin live /\ handle' = [handle EXCEPT ![b] = e]
         /\ h \in live
         /\ LET to == IF o = b THEN e ELSE handle[o]
            IN  \/ o # b /\ Emptied(h)
                \/ to # h /\ Carried(h, to, n)
    BY AddBufferData
<1>2. /\ data[e] = <<>> /\ e # "raw" /\ e \notin Ext /\ e \in AnyEvb
      /\ h # "raw" /\ h \in AnyEvb /\ h \notin Ext /\ h # e
      /\ data[h] \in Seq(Byte) /\ n \in 0 .. Len(data[h])
      /\ First(h, n) = data[h] /\ Rest(h, n) = <<>>
    BY <1>1, AllOf DEF Contents, AnyEvb
<1>3. /\ handle'[b] = e
      /\ \A q \in Own : q # b => /\ handle'[q] = handle[q] /\ handle[q] # h
                                 /\ handle[q] # e
                                 /\ handle[q] \in AnyEvb \cup {"raw"}
    BY <1>1, <1>2 DEF Obj, AnyEvb
<1>4. Bytes(b) = data[h] /\ Bytes(b)' = data'[e] /\ b \in Place
    BY <1>2, <1>3, BytesAfter, BytesBefore, Places
<1> HIDE DEF h, n
<1>5. CASE Emptied(h)
    <2>1. \A d \in AnyEvb : data'[d] = IF d = h THEN <<>> ELSE data[d]
        BY <1>2, <1>5, EmptiedAt
    <2>2. \A q \in Place : q # b => Bytes(q)' = Bytes(q)
        BY <1>2, <1>3, <2>1, BytesAfter, BytesBefore DEF Place, AnyEvb
    <2> QED
        BY <1>2, <1>4, <2>1, <2>2, AbstractEmpty
<1>6. CASE o = b /\ Carried(h, e, n)
    <2>1. /\ \A d \in AnyEvb : d # h /\ d # e => data'[d] = data[d]
          /\ data'[e] \in {data[e] \o First(h, n), First(h, n) \o data[e]}
        <3>1. /\ Contents /\ Carried(h, e, n)
              /\ h \in AnyEvb /\ e \in AnyEvb /\ h # e /\ n \in 0 .. Len(data[h])
            BY <1>2, <1>6
        <3> QED
            BY ONLY <3>1, CarriedAt
    <2>2. data'[e] = data[h]
        BY <1>2, <2>1
    <2>3. \A q \in Place : q # b => Bytes(q)' = Bytes(q)
        BY <1>2, <1>3, <2>1, BytesAfter, BytesBefore DEF Place, AnyEvb
    <2> QED
        BY <1>4, <2>2, <2>3, AbstractSame
<1>7. CASE o # b /\ handle[o] # h /\ Carried(h, handle[o], n)
    <2> DEFINE f == handle[o]
    <2>1. f \in live
        BY DEF AddBuffer, Usable
    <2>2. /\ \A d \in AnyEvb : d # h /\ d # f => data'[d] = data[d]
          /\ data'[h] = Rest(h, n)
          /\ data'[f] \in {data[f] \o First(h, n), First(h, n) \o data[f]}
        <3>1. /\ Contents /\ Carried(h, f, n)
              /\ h \in AnyEvb /\ f \in AnyEvb /\ h # f /\ n \in 0 .. Len(data[h])
            BY <1>2, <1>7, <2>1 DEF AnyEvb
        <3> QED
            BY ONLY <3>1, CarriedAt
    <2>3. PICK p \in Place : Held(p) = f
        BY <2>1, Places
    <2>4. f \in AnyEvb /\ f # "raw" /\ f # e /\ data[f] \in Seq(Byte)
        BY <1>1, <2>1 DEF Contents
    <2> HIDE DEF f
    <2>5. p # b /\ Bytes(p) = data[f] /\ Bytes(p)' = data'[f]
        <3>1. p # b
            BY <1>4, <1>7, <2>3, Places DEF f, h
        <3> QED
            BY <1>3, <2>3, <2>4, <3>1, BytesAfter, BytesBefore DEF Held, Place
    <2>6. ASSUME NEW q \in Place, q # b, q # p PROVE Bytes(q)' = Bytes(q)
        <3>1. Held(q) # f
            BY <2>3, <2>4, <2>6, Places
        <3>2. q \in Own => handle[q] # f
            BY <3>1, Places
        <3>3. q \in Ext => q # f /\ q # h /\ q \in AnyEvb
            BY <1>2, <3>1 DEF Held, AnyEvb
        <3> QED
            BY <1>3, <2>2, <2>6, <3>2, <3>3, BytesAfter, BytesBefore DEF Place
    <2>7. data'[e] = <<>>
        BY <1>2, <2>2, <2>4
    <2>8. CASE n = 0
        <3>1. data[h] = <<>>
            BY <1>2, <2>8 DEF n
        <3>2. data'[f] = data[f]
            BY <1>2, <2>2, <2>4, <3>1
        <3> QED
            BY <1>4, <2>5, <2>6, <2>7, <3>1, <3>2, AbstractSame
    <2>9. CASE n # 0
        <3>1. n \in 1 .. Len(Bytes(b))
            BY <1>2, <1>4, <2>9 DEF n
        <3>2. Bytes(b)' = SubSeq(Bytes(b), n + 1, Len(Bytes(b)))
            BY <1>2, <1>4, <2>7 DEF Rest
        <3>3. Bytes(p)' \in {Bytes(p) \o SubSeq(Bytes(b), 1, n),
                             SubSeq(Bytes(b), 1, n) \o Bytes(p)}
            BY <1>4, <2>2, <2>5 DEF First
        <3>4. \A q \in Place : q # b /\ q # p => Bytes(q)' = Bytes(q)
            BY <2>6
        <3> QED
            BY ONLY <1>4, <2>3, <2>5, <3>1, <3>2, <3>3, <3>4, AbstractCarry
    <2> QED
        BY <2>8, <2>9
<1> QED
    BY <1>1, <1>5, <1>6, <1>7

\* Every step of a buffer is one of a string of bytes, or changes no string.
LEMMA StepRefines == BInv /\ [Next]_vars => [Strings!Next]_bytes
<1> SUFFICES ASSUME BInv, [Next]_vars PROVE [Strings!Next]_bytes
    OBVIOUS
<1>0. /\ \A o \in Obj : handle[o] \in live =>
            Size(o) = Len(data[handle[o]]) /\ Size(o) \in Nat
      /\ Own \subseteq Obj /\ Ref \subseteq Obj /\ Own \cap Ref = {}
    BY Known, Apart DEF BInv, Contents, Size, Obj
<1>1. ASSUME NEW o \in Obj, NEW b \in Byte, Add(o, b) \/ Prepend(o, b)
      PROVE  [Strings!Next]_bytes
    <2>1. /\ handle[o] \in live /\ PutIn(handle[o], b) /\ ~Present(b)
          /\ UNCHANGED handle
        BY <1>1 DEF Add, Prepend, Usable, PutIn
    <2> QED
        BY <2>1, PutRefines
<1>2. ASSUME NEW o \in Obj, NEW n \in 1 .. Size(o), Drain(o, n)
      PROVE  [Strings!Next]_bytes
    <2>1. handle[o] \in live /\ Taken(handle[o], n) /\ UNCHANGED handle
        BY <1>2 DEF Drain, Usable, Taken
    <2>2. n \in Nat
        BY <1>0, <2>1
    <2> QED
        BY <2>1, <2>2, TakenRefines
<1>3. ASSUME NEW o \in Obj, NEW p \in Obj, NEW n \in 1 .. Size(o), RemoveInto(o, p, n)
      PROVE  [Strings!Next]_bytes
    <2>1. /\ handle[o] \in live /\ handle[p] \in live /\ handle[o] # handle[p]
          /\ Carried(handle[o], handle[p], n) /\ UNCHANGED handle
        BY <1>3 DEF RemoveInto, Usable, Moved, Carried
    <2>2. n \in 1 .. Len(data[handle[o]])
        BY <1>0, <2>1
    <2> QED
        BY <2>1, <2>2, CarriedRefines
<1>4. ASSUME NEW t \in Thread, DrainCopied(t) PROVE [Strings!Next]_bytes
    <2>1. /\ At(t) \in live /\ job[t].n \in Nat
          /\ Taken(At(t), job[t].n) /\ UNCHANGED handle
        BY <1>4 DEF DrainCopied, BInv, Jobs, Job, Taken, At
    <2> QED
        BY <2>1, TakenRefines
<1>5. ASSUME NEW o \in Obj,
             \/ UseDead(o) \/ Race(o) \/ EnableLocking(o)
             \/ \E b \in Own : WriteBuffer(o, b)
      PROVE  UNCHANGED <<handle, data>>
    BY <1>5 DEF UseDead, Race, EnableLocking, WriteBuffer
<1>6. ASSUME \/ \E b \in Own : MoveTerminates(b)
             \/ \E t \in Thread :
                   \/ \E o \in Obj, op \in {"drain", "str"}, sync \in BOOLEAN :
                          \E n \in 1 .. Size(o) : Begin(t, o, op, n, sync)
                   \/ \E o \in Own : \E n \in 1 .. Size(o) : CopyFirst(t, o, n)
                   \/ CopyOut(t)
             \/ UNCHANGED vars
      PROVE  UNCHANGED <<handle, data>>
    BY <1>6 DEF MoveTerminates, Begin, CopyFirst, CopyOut, vars
<1>7. ASSUME NEW r \in Ref,
             (\E o \in Obj : TakeRef(r, o)) \/ (\E e \in Ext : TakeEnd(r, e))
      PROVE  [Strings!Next]_bytes
    <2>1. UNCHANGED data /\ \A q \in Own : handle'[q] = handle[q]
        BY <1>0, <1>7, Known DEF TakeRef, TakeEnd, BInv, Obj
    <2> QED
        BY <2>1, QuietRefines
<1>8. CASE UNCHANGED <<handle, data>>
    BY <1>8, QuietRefines
<1>9. ASSUME NEW o \in Own, NEW p \in Own, MoveAssign(o, p) \/ MoveConstruct(o, p)
      PROVE  [Strings!Next]_bytes
    BY <1>0, <1>9, MoveRefines
<1>10. ASSUME NEW o \in Ref, NEW p \in Ref, MoveAssign(o, p) \/ MoveConstruct(o, p)
       PROVE  [Strings!Next]_bytes
    BY <1>0, <1>10, MoveRefines
<1>11. ASSUME NEW o \in Obj,
              \/ Construct(o) \/ Destruct(o)
              \/ \E b \in Own : \/ Reset(o, b)
                                \/ \E front \in BOOLEAN : AddBuffer(o, b, front)
       PROVE  [Strings!Next]_bytes
    BY <1>11, ConstructRefines, DestructRefines, ResetRefines, AddBufferRefines
<1> QED
    BY <1>1, <1>2, <1>3, <1>4, <1>5, <1>6, <1>7, <1>8, <1>9, <1>10, <1>11 DEF Next

\* Buffers behave as strings of bytes that are moved and not shared, through any
\* number of moves, resets, references and appended buffers (buffer.hpp).
THEOREM BuffersAreStrings == Spec => StringsSpec
<1>1. Init => Strings!Init
    <2> SUFFICES ASSUME Init PROVE \A p \in Place : Bytes(p) = <<>>
        BY DEF Strings!Init, Bytes
    <2> QED
        BY DEF Init, Bytes, Place, Obj, AnyEvb
<1> QED
    BY <1>1, StepRefines, BInvariance, PTL DEF Spec, StringsSpec, Strings!StringsSpec, bytes, Bytes

-----------------------------------------------------------------------------
(* Reads of several calls.  While one keeps the others off, no step takes its  *)
(* evbuffer, changes what is in it, or gives it a lock.                       *)


\* A step leaves a read that is alone before it and after it what it reads from.
LEMMA SoleBefore ==
    ASSUME BInv, [Next]_vars, NEW t \in Thread, Busy(t), job'[t] = job[t], Sole(t)'
    PROVE  Sole(t) /\ At(t)' = At(t) /\ At(t) \in live /\ At(t) \in AnyEvb
<1>1. At(t)' = At(t) /\ At(t) \in live' /\ At(t) \in live
    BY ReadersStay DEF BInv, Jobs, At
<1>2. At(t) \in locks => At(t) \in locks'
    <2>1. CASE locks \cap live' \subseteq locks'
        BY <1>1, <2>1
    <2>2. CASE locks' = locks
        BY <2>2
    <2>3. ASSUME NEW o \in Obj,
                 \/ Construct(o) \/ UseDead(o) \/ Race(o)
                 \/ \E b \in Byte : Add(o, b) \/ Prepend(o, b)
                 \/ \E n \in 1 .. Size(o) : Drain(o, n)
                 \/ \E b \in Own : WriteBuffer(o, b)
                 \/ \E p \in Obj : \/ MoveAssign(o, p) \/ MoveConstruct(o, p)
                                   \/ \E n \in 1 .. Size(o) : RemoveInto(o, p, n)
          PROVE  locks' = locks
        BY <2>3 DEF Construct, UseDead, Race, Add, Prepend, Drain, WriteBuffer,
                    MoveAssign, MoveConstruct, RemoveInto
    <2>4. ASSUME NEW o \in Obj,
                 \/ EnableLocking(o) \/ Destruct(o)
                 \/ \E b \in Own : \/ Reset(o, b)
                                   \/ \E front \in BOOLEAN : AddBuffer(o, b, front)
          PROVE  locks \cap live' \subseteq locks'
        BY <2>4 DEF EnableLocking, Destruct, Reset, AddBuffer
    <2>5. ASSUME \/ \E r \in Ref : \/ \E o \in Obj : TakeRef(r, o)
                                   \/ \E e \in Ext : TakeEnd(r, e)
                 \/ \E b \in Own : MoveTerminates(b)
                 \/ \E u \in Thread :
                        \/ \E o \in Obj, op \in {"drain", "str"}, sync \in BOOLEAN :
                               \E n \in 1 .. Size(o) : Begin(u, o, op, n, sync)
                        \/ \E o \in Own : \E n \in 1 .. Size(o) : CopyFirst(u, o, n)
                        \/ CopyOut(u) \/ DrainCopied(u)
                 \/ UNCHANGED vars
          PROVE  locks' = locks
        BY <2>5 DEF TakeRef, TakeEnd, MoveTerminates, Begin, CopyFirst, CopyOut,
                    DrainCopied, vars
    <2>6. Own \subseteq Obj /\ Ref \subseteq Obj
        BY DEF Obj
    <2> QED
        BY <2>1, <2>2, <2>3, <2>4, <2>5, <2>6 DEF Next
<1>3. Sole(t)
    BY <1>1, <1>2 DEF Sole, At
<1> QED
    BY <1>1, <1>3, Known DEF BInv

\* Nobody else gets to its bytes.
LEMMA SoleBytes ==
    ASSUME BInv, [Next]_vars, NEW t \in Thread, Busy(t), job'[t] = job[t], Sole(t)
    PROVE  data'[At(t)] = data[At(t)]
<1> DEFINE e == At(t)
           Same == data'[e] = data[e]
<1>0. /\ e \in live /\ e \in AnyEvb
      /\ \A f \in live : f \in AnyEvb
      /\ \A o \in Obj : /\ Usable(o) => handle[o] \in live /\ handle[o] # e
                        /\ handle[o] \in live =>
                            Size(o) = Len(data[handle[o]]) /\ Size(o) \in Nat
      /\ \A o \in Own : Movable(o) => handle[o] # e /\ handle[o] \in live
      /\ Own \subseteq Obj /\ Ref \subseteq Obj
    <2>1. e \in live
        BY DEF BInv, Jobs, At
    <2>2. \A o \in Obj : /\ Usable(o) => handle[o] \in live /\ handle[o] # e
                         /\ handle[o] \in live =>
                            Size(o) = Len(data[handle[o]]) /\ Size(o) \in Nat
        BY Known DEF BInv, Contents, Usable, LetIn, Size
    <2>3. \A o \in Own : Movable(o) => handle[o] # e /\ handle[o] \in live
        BY Known DEF BInv, Movable
    <2> QED
        BY <2>1, <2>2, <2>3, Known DEF BInv, Obj
<1> HIDE DEF e
<1>1. ASSUME NEW o \in Obj, NEW b \in Byte, Add(o, b) \/ Prepend(o, b) PROVE Same
    <2>1. Usable(o) /\ PutIn(handle[o], b)
        BY <1>1 DEF Add, Prepend, PutIn
    <2> QED
        BY <1>0, <2>1, PutAt DEF BInv
<1>2. ASSUME NEW o \in Obj, NEW n \in 1 .. Size(o), Drain(o, n) PROVE Same
    <2>1. Usable(o) /\ Taken(handle[o], n)
        BY <1>2 DEF Drain, Taken
    <2>2. n \in Nat
        BY <1>0, <2>1
    <2> QED
        BY <1>0, <2>1, <2>2, TakenAt DEF BInv
<1>3. ASSUME NEW o \in Obj, NEW p \in Obj, NEW n \in 1 .. Size(o), RemoveInto(o, p, n)
      PROVE  Same
    <2>1. /\ Usable(o) /\ Usable(p) /\ handle[o] # handle[p]
          /\ Carried(handle[o], handle[p], n)
        BY <1>3 DEF RemoveInto, Moved, Carried
    <2>2. n \in 0 .. Len(data[handle[o]])
        BY <1>0, <2>1
    <2> QED
        BY <1>0, <2>1, <2>2, CarriedAt DEF BInv
<1>4. ASSUME NEW o \in Obj, Destruct(o) PROVE Same
    <2>1. o \in Own => Movable(o)
        BY <1>4 DEF Destruct
    <2> QED
        BY <1>0, <1>4, <2>1, DestructData, EmptiedAt DEF BInv
<1>5. ASSUME NEW o \in Obj, NEW b \in Own, Reset(o, b) PROVE Same
    <2>1. Movable(b) /\ (o \in Own => Movable(o))
        BY <1>5 DEF Reset
    <2> QED
        BY <1>0, <1>5, <2>1, ResetData, EmptiedAt DEF BInv
<1>6. ASSUME NEW o \in Obj, NEW b \in Own, NEW front \in BOOLEAN, AddBuffer(o, b, front)
      PROVE  Same
    <2> DEFINE h == handle[b]
    <2>1. Usable(o) /\ Movable(b)
        BY <1>6 DEF AddBuffer
    <2>2. PICK f \in Evb :
             /\ f \notin live /\ h \in live
             /\ LET to == IF o = b THEN f ELSE handle[o]
                IN  \/ o # b /\ Emptied(h)
                    \/ to # h /\ Carried(h, to, Len(data[h]))
        BY <1>6, AddBufferData DEF BInv
    <2> DEFINE to == IF o = b THEN f ELSE handle[o]
    <2>3. h \in AnyEvb /\ h # e /\ to \in AnyEvb /\ to # e
        BY <1>0, <2>1, <2>2 DEF AnyEvb
    <2>4. CASE Emptied(h)
        BY <1>0, <2>3, <2>4, EmptiedAt DEF BInv
    <2>5. CASE to # h /\ Carried(h, to, Len(data[h]))
        <3>1. Len(data[h]) \in 0 .. Len(data[h])
            BY <2>3, AllOf DEF BInv
        <3> HIDE DEF h, to
        <3> QED
            BY <1>0, <2>3, <2>5, <3>1, CarriedAt DEF BInv
    <2> QED
        BY <2>2, <2>4, <2>5
<1>7. ASSUME NEW u \in Thread, DrainCopied(u) PROVE Same
    <2>1. u # t
        BY <1>7 DEF DrainCopied, Busy, BInv, Jobs
    <2>2. LetIn(Thread \ {u}, At(u)) /\ Taken(At(u), job[u].n)
        BY <1>7 DEF DrainCopied, Taken
    <2>3. At(u) # e
        BY <2>1, <2>2 DEF LetIn, e
    <2>4. At(u) \in AnyEvb /\ job[u].n \in Nat
        BY <1>0, <1>7 DEF DrainCopied, BInv, Jobs, Job, At
    <2> QED
        BY <1>0, <2>2, <2>3, <2>4, TakenAt DEF BInv
<1>8. ASSUME NEW o \in Obj,
             \/ Construct(o) \/ UseDead(o) \/ Race(o) \/ EnableLocking(o)
             \/ \E b \in Own : WriteBuffer(o, b)
             \/ \E p \in Obj : MoveAssign(o, p) \/ MoveConstruct(o, p)
      PROVE  Same
    BY <1>8 DEF Construct, UseDead, Race, EnableLocking, WriteBuffer, MoveAssign,
                MoveConstruct
<1>9. ASSUME \/ \E r \in Ref : \/ \E o \in Obj : TakeRef(r, o)
                               \/ \E x \in Ext : TakeEnd(r, x)
             \/ \E b \in Own : MoveTerminates(b)
             \/ \E u \in Thread :
                    \/ \E o \in Obj, op \in {"drain", "str"}, sync \in BOOLEAN :
                           \E n \in 1 .. Size(o) : Begin(u, o, op, n, sync)
                    \/ \E o \in Own : \E n \in 1 .. Size(o) : CopyFirst(u, o, n)
                    \/ CopyOut(u)
             \/ UNCHANGED vars
      PROVE  Same
    BY <1>9 DEF TakeRef, TakeEnd, MoveTerminates, Begin, CopyFirst, CopyOut, vars
<1>10. Same
    BY <1>0, <1>1, <1>2, <1>3, <1>4, <1>5, <1>6, <1>7, <1>8, <1>9 DEF Next
<1> QED
    BY <1>10 DEF e

\* What the jobs are, at hand.
LEMMA JobAt ==
    ASSUME BInv, NEW t \in Thread, Busy(t)
    PROVE  /\ job[t] \in Job /\ job[t].n \in Nat
           /\ At(t) \in live /\ At(t) \in AnyEvb
           /\ data[At(t)] \in Seq(Byte) /\ Len(data[At(t)]) \in Nat
<1>1. job[t] \in Job /\ At(t) \in live
    BY DEF BInv, Jobs, At
<1>2. job[t].n \in Nat
    BY <1>1 DEF Job
<1>3. At(t) \in AnyEvb
    BY <1>1, Known DEF BInv
<1> QED
    BY <1>1, <1>2, <1>3 DEF BInv, Contents

\* A read that goes on.
LEMMA PromiseStays ==
    ASSUME BInv, Promise, [Next]_vars, NEW t \in Thread, Busy(t)', Sole(t)',
           job'[t] = job[t]
    PROVE  /\ job'[t].n <= Len(data'[At(t)'])
           /\ job'[t].op = "str" => ~job'[t].copied /\ job'[t].n = Len(data'[At(t)'])
           /\ job'[t].copied => job'[t].got = First(At(t), job[t].n)'
<1>1. Busy(t)
    BY DEF Busy
<1>2. Sole(t) /\ At(t)' = At(t)
    BY <1>1, SoleBefore
<1>3. data'[At(t)] = data[At(t)]
    BY <1>1, <1>2, SoleBytes
<1>4. First(At(t), job[t].n)' = First(At(t), job[t].n)
    BY <1>2, <1>3 DEF First
<1> QED
    BY <1>1, <1>2, <1>3, <1>4 DEF Promise

LEMMA PromiseInductive == BInv /\ Promise /\ [Next]_vars => Promise'
<1> SUFFICES ASSUME BInv, Promise, [Next]_vars, NEW t \in Thread, Busy(t)', Sole(t)'
             PROVE  /\ job'[t].n <= Len(data'[At(t)'])
                    /\ job'[t].op = "str" =>
                            ~job'[t].copied /\ job'[t].n = Len(data'[At(t)'])
                    /\ job'[t].copied => job'[t].got = First(At(t), job[t].n)'
    BY DEF Promise
<1> DEFINE Goal == /\ job'[t].n <= Len(data'[At(t)'])
                   /\ job'[t].op = "str" =>
                           ~job'[t].copied /\ job'[t].n = Len(data'[At(t)'])
                   /\ job'[t].copied => job'[t].got = First(At(t), job[t].n)'
<1>1. CASE job'[t] = job[t]
    BY <1>1, PromiseStays
<1>0. /\ DOMAIN job = Thread
      /\ \A o \in Obj : handle[o] \in live =>
            /\ handle[o] \in AnyEvb /\ Size(o) = Len(data[handle[o]])
            /\ Len(data[handle[o]]) \in Nat
    BY Known DEF BInv, Jobs, Contents, Size
<1>2. ASSUME NEW o \in Obj, NEW op \in {"drain", "str"}, NEW sync \in BOOLEAN,
             NEW n \in 1 .. Size(o), Begin(t, o, op, n, sync)
      PROVE  Goal
    <2>1. /\ handle[o] \in live /\ UNCHANGED <<handle, data>>
          /\ job'[t].obj = o /\ job'[t].n = n /\ job'[t].op = op /\ ~job'[t].copied
          /\ op = "str" => n = Len(data[handle[o]])
        BY <1>0, <1>2 DEF Begin, Usable
    <2>2. At(t)' = handle[o]
        BY <2>1 DEF At
    <2>3. n <= Len(data[handle[o]])
        BY <1>0, <2>1
    <2> QED
        BY <2>1, <2>2, <2>3
<1>3. ASSUME NEW o \in Own, NEW n \in 1 .. Size(o), CopyFirst(t, o, n)
      PROVE  Goal
    <2>0. o \in Obj
        BY DEF Obj
    <2>1. /\ handle[o] \in live /\ UNCHANGED <<handle, data>>
          /\ job'[t].obj = o /\ job'[t].n = n /\ job'[t].op = "drain"
          /\ job'[t].got = First(handle[o], n)
        BY <1>0, <1>3 DEF CopyFirst, Usable
    <2>2. At(t)' = handle[o]
        BY <2>1 DEF At
    <2>3. n <= Len(data[handle[o]])
        BY <1>0, <2>0, <2>1
    <2>4. First(At(t), job[t].n)' = First(handle[o], n)
        BY <2>1, <2>2 DEF First
    <2> QED
        BY <2>1, <2>2, <2>3, <2>4
<1>4. ASSUME CopyOut(t) PROVE Goal
    <2>1. job[t].op # "str"
        BY <1>0, <1>4 DEF CopyOut, Busy
    <2>2. /\ Busy(t) /\ UNCHANGED <<handle, data, locks>>
          /\ job' = [job EXCEPT ![t].copied = TRUE,
                                ![t].got = IF job[t].n < Len(data[At(t)])
                                           THEN First(At(t), job[t].n)
                                           ELSE data[At(t)]]
        BY <1>4, <2>1 DEF CopyOut
    <2>3. /\ job'[t].obj = job[t].obj /\ job'[t].n = job[t].n
          /\ job'[t].op = job[t].op /\ job'[t].held = job[t].held
          /\ job'[t].got = IF job[t].n < Len(data[At(t)])
                           THEN First(At(t), job[t].n) ELSE data[At(t)]
        BY <1>0, <2>2, JobAt DEF Job
    <2>4. At(t)' = At(t) /\ Sole(t)
        BY <2>2, <2>3 DEF At, Sole
    <2>5. job[t].n <= Len(data[At(t)])
        BY <2>2, <2>4 DEF Promise
    <2>6. job'[t].got = First(At(t), job[t].n)
        <3>1. CASE job[t].n < Len(data[At(t)])
            BY <2>3, <3>1
        <3>2. CASE job[t].n = Len(data[At(t)])
            BY <2>2, <2>3, <3>2, JobAt, AllOf DEF BInv
        <3> QED
            BY <2>2, <2>5, <3>1, <3>2, JobAt
    <2>7. First(At(t), job[t].n)' = First(At(t), job[t].n)
        BY <2>2, <2>3, <2>4 DEF First
    <2> QED
        BY <2>1, <2>2, <2>3, <2>4, <2>5, <2>6, <2>7
<1>5. ASSUME DrainCopied(t) PROVE Goal
    BY <1>0, <1>5 DEF DrainCopied, Busy
\* What other threads do.
<1>6. ASSUME NEW u \in Thread, u # t,
             \/ \E o \in Obj, op \in {"drain", "str"}, sync \in BOOLEAN :
                    \E n \in 1 .. Size(o) : Begin(u, o, op, n, sync)
             \/ \E o \in Own : \E n \in 1 .. Size(o) : CopyFirst(u, o, n)
             \/ CopyOut(u) \/ DrainCopied(u)
      PROVE  job'[t] = job[t]
    BY <1>0, <1>6 DEF Begin, CopyFirst, CopyOut, DrainCopied
<1>7. ASSUME NEW o \in Obj,
             \/ Construct(o) \/ Destruct(o) \/ UseDead(o) \/ Race(o)
             \/ EnableLocking(o)
             \/ \E b \in Byte : Add(o, b) \/ Prepend(o, b)
             \/ \E n \in 1 .. Size(o) : Drain(o, n)
             \/ \E p \in Obj : \/ MoveAssign(o, p) \/ MoveConstruct(o, p)
                               \/ \E n \in 1 .. Size(o) : RemoveInto(o, p, n)
             \/ \E b \in Own : \/ Reset(o, b) \/ WriteBuffer(o, b)
                               \/ \E front \in BOOLEAN : AddBuffer(o, b, front)
      PROVE  job'[t] = job[t]
    BY <1>7 DEF Construct, Destruct, UseDead, Race, EnableLocking, Add, Prepend,
                Drain, MoveAssign, MoveConstruct, RemoveInto, Reset, WriteBuffer,
                AddBuffer
<1>8. ASSUME \/ \E r \in Ref : \/ \E o \in Obj : TakeRef(r, o)
                               \/ \E e \in Ext : TakeEnd(r, e)
             \/ \E b \in Own : MoveTerminates(b)
             \/ UNCHANGED vars
      PROVE  job'[t] = job[t]
    BY <1>8 DEF TakeRef, TakeEnd, MoveTerminates, vars
<1>9. Own \subseteq Obj /\ Ref \subseteq Obj
    BY DEF Obj
<1>10. Goal
    BY <1>1, <1>2, <1>3, <1>4, <1>5, <1>6, <1>7, <1>8, <1>9 DEF Next
<1> QED
    BY <1>10

LEMMA Together ==
    ASSUME Contents, NEW e \in AnyEvb, NEW n \in 0 .. Len(data[e])
    PROVE  data[e] = First(e, n) \o Rest(e, n)
<1>1. data[e] \in Seq(Byte) /\ Len(data[e]) \in Nat /\ n \in Nat
    BY DEF Contents
<1>2. /\ First(e, n) \in Seq(Byte) /\ Len(First(e, n)) = n
      /\ \A i \in 1 .. n : First(e, n)[i] = data[e][i]
    BY FirstOf
<1>3. /\ Rest(e, n) \in Seq(Byte) /\ Len(Rest(e, n)) = Len(data[e]) - n
      /\ \A i \in 1 .. Len(Rest(e, n)) : Rest(e, n)[i] = data[e][i + n]
    BY <1>1, RestOf
<1> DEFINE s == First(e, n) \o Rest(e, n)
<1>4. /\ s \in Seq(Byte) /\ Len(s) = Len(data[e])
      /\ \A i \in 1 .. Len(s) :
            s[i] = IF i <= n THEN First(e, n)[i] ELSE Rest(e, n)[i - n]
    BY <1>1, <1>2, <1>3
<1>5. \A i \in 1 .. Len(s) : s[i] = data[e][i]
    <2> SUFFICES ASSUME NEW i \in 1 .. Len(s) PROVE s[i] = data[e][i]
        OBVIOUS
    <2>1. CASE i <= n
        <3>1. i \in 1 .. n
            BY <1>1, <1>4, <2>1
        <3> QED
            BY <1>2, <1>4, <2>1, <3>1
    <2>2. CASE ~(i <= n)
        <3>1. i - n \in 1 .. Len(Rest(e, n)) /\ (i - n) + n = i
            BY <1>1, <1>3, <1>4, <2>2
        <3>2. Rest(e, n)[i - n] = data[e][i]
            BY <1>3, <3>1
        <3> QED
            BY <1>4, <2>2, <3>2
    <2> QED
        BY <2>1, <2>2
<1> HIDE DEF s
<1>6. s = data[e]
    BY <1>1, <1>4, <1>5
<1> QED
    BY <1>6 DEF s

\* A read that ends.
LEMMA ReadEnds ==
    ASSUME BInv, Promise, [Next]_vars, NEW t \in Thread,
           Busy(t), Sole(t), job'[t] = Idle
    PROVE  IF job[t].op = "str" THEN job[t].n = Len(data[At(t)])
           ELSE /\ Len(job[t].got) = job[t].n
                /\ data[At(t)] = job[t].got \o data'[At(t)]
<1> DEFINE Whole == IF job[t].op = "str" THEN job[t].n = Len(data[At(t)])
                    ELSE /\ Len(job[t].got) = job[t].n
                         /\ data[At(t)] = job[t].got \o data'[At(t)]
<1>0. DOMAIN job = Thread /\ job'[t] # job[t]
    BY DEF BInv, Jobs, Busy
<1>1. CASE job[t].op = "str"
    BY <1>1 DEF Promise
<1>2. ASSUME DrainCopied(t) PROVE Whole
    <2> DEFINE e == At(t)
               n == job[t].n
    <2>1. job[t].copied /\ data' = [data EXCEPT ![e] = Rest(e, n)]
        BY <1>2 DEF DrainCopied
    <2>2. /\ e \in AnyEvb /\ n \in Nat /\ n <= Len(data[e]) /\ data[e] \in Seq(Byte)
          /\ Len(data[e]) \in Nat
          /\ job[t].got = First(e, n) /\ job[t].op # "str"
        BY <2>1, JobAt DEF Promise
    <2>3. data'[e] = Rest(e, n)
        BY <2>1, <2>2 DEF BInv, Contents
    <2> HIDE DEF e, n
    <2>4. n \in 0 .. Len(data[e])
        BY <2>2
    <2>5. Len(First(e, n)) = n
        BY <2>2, <2>4, FirstOf DEF BInv
    <2>6. data[e] = First(e, n) \o Rest(e, n)
        BY <2>2, <2>4, Together DEF BInv
    <2> QED
        BY <2>2, <2>3, <2>5, <2>6 DEF e, n
<1>3. ASSUME CopyOut(t) PROVE Whole
    <2>1. CASE job[t].op # "str"
        BY <1>0, <1>3, <2>1, JobAt DEF CopyOut, Idle, Job
    <2> QED
        BY <1>1, <2>1
<1>4. ASSUME NEW o \in Obj, NEW n,
             \/ \E op \in {"drain", "str"}, sync \in BOOLEAN : Begin(t, o, op, n, sync)
             \/ CopyFirst(t, o, n)
      PROVE  FALSE
    BY <1>4 DEF Begin, CopyFirst
<1>6. ASSUME NEW u \in Thread, u # t,
             \/ \E o \in Obj, op \in {"drain", "str"}, sync \in BOOLEAN :
                    \E n \in 1 .. Size(o) : Begin(u, o, op, n, sync)
             \/ \E o \in Own : \E n \in 1 .. Size(o) : CopyFirst(u, o, n)
             \/ CopyOut(u) \/ DrainCopied(u)
      PROVE  job'[t] = job[t]
    BY <1>0, <1>6 DEF Begin, CopyFirst, CopyOut, DrainCopied
<1>7. ASSUME NEW o \in Obj,
             \/ Construct(o) \/ Destruct(o) \/ UseDead(o) \/ Race(o)
             \/ EnableLocking(o)
             \/ \E b \in Byte : Add(o, b) \/ Prepend(o, b)
             \/ \E n \in 1 .. Size(o) : Drain(o, n)
             \/ \E p \in Obj : \/ MoveAssign(o, p) \/ MoveConstruct(o, p)
                               \/ \E n \in 1 .. Size(o) : RemoveInto(o, p, n)
             \/ \E b \in Own : \/ Reset(o, b) \/ WriteBuffer(o, b)
                               \/ \E front \in BOOLEAN : AddBuffer(o, b, front)
      PROVE  job'[t] = job[t]
    BY <1>7 DEF Construct, Destruct, UseDead, Race, EnableLocking, Add, Prepend,
                Drain, MoveAssign, MoveConstruct, RemoveInto, Reset, WriteBuffer,
                AddBuffer
<1>8. ASSUME \/ \E r \in Ref : \/ \E o \in Obj : TakeRef(r, o)
                               \/ \E e \in Ext : TakeEnd(r, e)
             \/ \E b \in Own : MoveTerminates(b)
             \/ UNCHANGED vars
      PROVE  job'[t] = job[t]
    BY <1>8 DEF TakeRef, TakeEnd, MoveTerminates, vars
<1>9. Own \subseteq Obj /\ Ref \subseteq Obj
    BY DEF Obj
<1>10. Whole
    BY <1>0, <1>2, <1>3, <1>4, <1>6, <1>7, <1>8, <1>9 DEF Next
<1> QED
    BY <1>10

\* For any number of threads, buffers and references: a read of several calls
\* that keeps the others off - inside sync() on an evbuffer that was given a lock,
\* or on one without a lock that nobody else may use - gets all it was promised,
\* and drops the bytes it copied, all of them and no others
\* (buffer.hpp:271-281, 338-383, curl/io/buffer.hpp:121-129).
THEOREM ReadersGetTheirBytes == Spec => SoleReadsWhole
<1>1. Init => Promise
    BY DEF Init, Promise, Busy
<1>2. BInv /\ Promise /\ [Next]_vars => Promise'
    BY PromiseInductive
<1>3. BInv /\ Promise /\ [Next]_vars =>
        [\A t \in Thread :
            Busy(t) /\ Sole(t) /\ job'[t] = Idle =>
                LET e == At(t) IN
                IF job[t].op = "str" THEN job[t].n = Len(data[e])
                ELSE /\ Len(job[t].got) = job[t].n
                     /\ data[e] = job[t].got \o data'[e]]_vars
    BY ReadEnds
<1> QED
    BY <1>1, <1>2, <1>3, BInvariance, PTL DEF Spec, SoleReadsWhole
=============================================================================
