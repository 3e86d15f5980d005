-------------------------- MODULE BufferEventProofs -------------------------
(* Proofs about BufferEvent: who owns and frees a bufferevent, which bevfn   *)
(* it calls, and how often the function of a write is called, for any number *)
(* of objects, bufferevents, callback objects and writes.                    *)
EXTENDS BufferEvent, TLAPS

Names == {"event", "connect", "send", "recv"}

\* A bufferevent that was not made has no bevfn and no options.
NewUnused == \A b \in Bev : state[b] = "new" => cb[b] = None /\ b \notin closes

\* The bevfn of a live bufferevent is there, but for those nobody could free.
CalledLives ==
    \A b \in Bev : state[b] = "live" /\ cb[b] # None /\ fns[cb[b]] = {} =>
        b \in orphan

\* The inductive invariant of the owners.
Owners ==
    /\ NewUnused
    /\ CalledLives
    /\ OneOwner
    /\ SslFreed
    /\ DeadOnlyOverwritten

\* A write that was not made is nowhere.
NewNowhere ==
    \A w \in Write : kind[w] = "new" =>
        ~Waits(w) /\ w \notin heap \cup mem \cup lost /\ cleaned[w] = 0

\* A write that was refused is in no output.
LostApart == \A w \in lost : ~Waits(w)

\* A write is in one output, and there once.
OutOnce ==
    /\ \A b \in Bev : \A i, j \in DOMAIN out[b] : out[b][i] = out[b][j] => i = j
    /\ \A b, c \in Bev, w \in Write :
        w \in ToSet(out[b]) /\ w \in ToSet(out[c]) => b = c

\* The inductive invariant of the writes.
Writes ==
    /\ NewNowhere
    /\ LostApart
    /\ OutOnce
    /\ CleanupOnce

\* The inductive invariant.
IInv ==
    /\ TypeOK
    /\ Owners
    /\ Writes

\* None is none of the values.
LEMMA NoneApart ==
    /\ None \notin Obj /\ None \notin Bev /\ None \notin Handler
    /\ None \notin Write /\ "raw" \notin Bev
BY BufferEventAssumption DEF BufferEventNames

-----------------------------------------------------------------------------
(* Sequences.                                                               *)

\* What is in a sequence of distinct elements without its head.
LEMMA TailSet ==
    ASSUME NEW S, NEW s \in Seq(S), s # <<>>,
           \A i, j \in DOMAIN s : s[i] = s[j] => i = j
    PROVE  /\ Tail(s) \in Seq(S)
           /\ Head(s) \in ToSet(s)
           /\ ToSet(Tail(s)) = ToSet(s) \ {Head(s)}
           /\ \A i, j \in DOMAIN Tail(s) : Tail(s)[i] = Tail(s)[j] => i = j
<1>1. /\ Tail(s) \in Seq(S) /\ Len(Tail(s)) = Len(s) - 1 /\ Len(s) \in Nat
      /\ Len(s) > 0
      /\ DOMAIN s = 1 .. Len(s) /\ DOMAIN Tail(s) = 1 .. Len(s) - 1
      /\ \A i \in 1 .. Len(s) - 1 : Tail(s)[i] = s[i + 1]
      /\ Head(s) = s[1]
    OBVIOUS
<1>2. \A i \in DOMAIN Tail(s) : i + 1 \in DOMAIN s /\ i + 1 # 1
    BY <1>1
<1>3. ToSet(Tail(s)) \subseteq ToSet(s) \ {Head(s)}
    BY <1>1, <1>2 DEF ToSet
<1>4. \A i \in DOMAIN s : i = 1 \/ i - 1 \in DOMAIN Tail(s)
    BY <1>1
<1>5. ToSet(s) \ {Head(s)} \subseteq ToSet(Tail(s))
    BY <1>1, <1>4 DEF ToSet
<1>6. \A i, j \in DOMAIN Tail(s) : Tail(s)[i] = Tail(s)[j] => i = j
    BY <1>1, <1>2
<1>7. Head(s) \in ToSet(s)
    BY <1>1 DEF ToSet
<1> QED
    BY <1>1, <1>3, <1>5, <1>6, <1>7

\* What is in a sequence after a new element came.
LEMMA AppendSet ==
    ASSUME NEW S, NEW s \in Seq(S), NEW e \in S, e \notin ToSet(s),
           \A i, j \in DOMAIN s : s[i] = s[j] => i = j
    PROVE  /\ Append(s, e) \in Seq(S)
           /\ ToSet(Append(s, e)) = ToSet(s) \cup {e}
           /\ \A i, j \in DOMAIN Append(s, e) :
                Append(s, e)[i] = Append(s, e)[j] => i = j
<1>1. /\ Append(s, e) \in Seq(S) /\ Len(s) \in Nat
      /\ DOMAIN s = 1 .. Len(s) /\ DOMAIN Append(s, e) = 1 .. Len(s) + 1
      /\ \A i \in 1 .. Len(s) : Append(s, e)[i] = s[i]
      /\ Append(s, e)[Len(s) + 1] = e
    OBVIOUS
<1>2. \A i \in DOMAIN Append(s, e) : i \in DOMAIN s \/ i = Len(s) + 1
    BY <1>1
<1>3. \A i \in DOMAIN s : s[i] # e
    BY DEF ToSet
<1>4. ToSet(Append(s, e)) \subseteq ToSet(s) \cup {e}
    BY <1>1, <1>2 DEF ToSet
<1>5. ToSet(s) \cup {e} \subseteq ToSet(Append(s, e))
    BY <1>1 DEF ToSet
<1>6. \A i, j \in DOMAIN Append(s, e) :
        Append(s, e)[i] = Append(s, e)[j] => i = j
    BY <1>1, <1>2, <1>3
<1> QED
    BY <1>1, <1>4, <1>5, <1>6

-----------------------------------------------------------------------------
\* The invariant holds in the initial states.
LEMMA Initially == Init => IInv
<1> SUFFICES ASSUME Init
             PROVE  IInv
    OBVIOUS
<1>1. run \in [bev : Bev \cup {None},
               fn : {"none", "event", "connect", "send", "recv"}]
    BY DEF Init, Idle
<1>2. fns \in [Handler -> SUBSET Names]
    BY DEF Init
<1>3. TypeOK
    BY <1>1, <1>2 DEF Init, TypeOK, Names
<1>4. Owners
    BY NoneApart
    DEF Init, Owners, NewUnused, CalledLives, OneOwner, SslFreed,
        DeadOnlyOverwritten, Held
<1>5. \A b \in Bev : DOMAIN out[b] = {} /\ ToSet(out[b]) = {}
    BY DEF Init, ToSet
<1>6. Writes
    BY <1>5 DEF Init, Writes, NewNowhere, LostApart, OutOnce, CleanupOnce, Waits
<1> QED
    BY <1>3, <1>4, <1>6 DEF IInv

-----------------------------------------------------------------------------
(* Types.                                                                   *)

\* What a callback of the loop leaves is well typed.
LEMMA CallTyped ==
    ASSUME TypeOK, NEW b \in Bev,
           NEW fn \in {"none", "event", "connect", "send", "recv"}, Call(b, fn)
    PROVE  /\ run' \in [bev : Bev \cup {None},
                        fn : {"none", "event", "connect", "send", "recv"}]
           /\ crash' \in {"no", "nullBufferevent", "nullFunction", "deadBevfn"}
<1>1. Idle \in [bev : Bev \cup {None},
                fn : {"none", "event", "connect", "send", "recv"}]
    BY DEF Idle
<1>2. [bev |-> b, fn |-> fn] \in [bev : Bev \cup {None},
                fn : {"none", "event", "connect", "send", "recv"}]
    OBVIOUS
<1>3. run' \in {Idle, [bev |-> b, fn |-> fn]}
    BY DEF Call
<1>4. crash' \in {"no", "deadBevfn", "nullFunction"}
    BY DEF Call
<1> QED
    BY <1>1, <1>2, <1>3, <1>4

\* Freeing what some writes have allocated keeps the types.
LEMMA CleanTyped ==
    ASSUME TypeOK, NEW ws, Clean(ws)
    PROVE  cleaned' \in [Write -> Nat] /\ heap' \subseteq Write /\ mem' \subseteq Write
<1>1. \A w \in Write : cleaned[w] \in Nat
    BY DEF TypeOK
<1> QED
    BY <1>1 DEF TypeOK, Clean

\* Every step keeps the types.
LEMMA TypeStep == TypeOK /\ [Next]_vars => TypeOK'
<1> SUFFICES ASSUME TypeOK, [Next]_vars
             PROVE  TypeOK'
    OBVIOUS
<1> USE DEF TypeOK, vars, objects, bevs, writes, calls
<1>1. ASSUME NEW o \in Obj, Construct(o) PROVE TypeOK'
    BY <1>1 DEF Construct
<1>2. ASSUME NEW o \in Obj, Destroy(o) PROVE TypeOK'
    BY <1>2 DEF Destroy, Free
<1>3. ASSUME NEW o \in Obj, Destruct(o) PROVE TypeOK'
    BY <1>3 DEF Destruct, Free
<1>4. ASSUME NEW o \in Obj, TlsOfNull(o) PROVE TypeOK'
    BY <1>4 DEF TlsOfNull
<1>5. ASSUME NEW o \in Obj, Connect(o) \/ ConnectTls(o) PROVE TypeOK'
    BY <1>5 DEF Connect, ConnectTls
<1>6. ASSUME NEW o \in Obj, NEW p \in Obj, MoveConstruct(o, p) PROVE TypeOK'
    BY <1>6 DEF MoveConstruct, Swap
<1>7. ASSUME NEW o \in Obj, NEW p \in Obj, MoveAssign(o, p) PROVE TypeOK'
    BY <1>7 DEF MoveAssign, Swap
<1>8. ASSUME NEW o \in Obj, NEW b \in Bev, Attach(o, b) PROVE TypeOK'
    BY <1>8 DEF Attach, Overwrite, Held
<1>9. ASSUME NEW o \in Obj, NEW b \in Bev, CreateTlsFails(o, b) PROVE TypeOK'
    BY <1>9 DEF CreateTlsFails
<1>10. ASSUME NEW o \in Obj, NEW b \in Bev, NEW opt \in BOOLEAN,
              NEW sock \in BOOLEAN, Create(o, b, opt, sock)
       PROVE  TypeOK'
    BY <1>10 DEF Create, Overwrite, Held
<1>11. ASSUME NEW o \in Obj, NEW b \in Bev, NEW opt \in BOOLEAN,
              NEW sock \in BOOLEAN, CreateTls(o, b, opt, sock)
       PROVE  TypeOK'
    BY <1>11 DEF CreateTls, Replace
<1>12. ASSUME NEW o \in Obj, NEW h \in Handler, SetCallbacks(o, h) PROVE TypeOK'
    BY <1>12 DEF SetCallbacks
<1>13. ASSUME NEW o \in Obj, NEW w \in Write, NEW k \in {"copy", "ref", "copyfn"},
              WriteOp(o, w, k)
       PROVE  TypeOK'
    <2>1. \A b \in Bev : Append(out[b], w) \in Seq(Write)
        OBVIOUS
    <2>2. out' \in [Bev -> Seq(Write)]
        BY <1>13, <2>1 DEF WriteOp
    <2> QED
        BY <1>13, <2>2 DEF WriteOp
<1>14. ASSUME NEW o \in Obj, NEW w \in Write, NEW k \in {"copy", "ref", "copyfn"},
              WriteRefused(o, w, k)
       PROVE  TypeOK'
    BY <1>14 DEF WriteRefused
<1>15. ASSUME NEW h \in Handler, DropHandler(h) PROVE TypeOK'
    BY <1>15 DEF DropHandler
<1>16. ASSUME NEW h \in Handler, NEW all \in BOOLEAN, MakeHandler(h, all) PROVE TypeOK'
    BY <1>16 DEF MakeHandler
<1>17. ASSUME NEW h \in Handler, NEW fn \in {"connect", "send", "recv"}, On(h, fn)
       PROVE  TypeOK'
    BY <1>17 DEF On
<1>18. ASSUME NEW b \in Bev, Receive(b) PROVE TypeOK'
    BY <1>18, CallTyped DEF Receive
<1>19. ASSUME NEW b \in Bev, Flush(b) PROVE TypeOK'
    <2>1. \A c \in Bev : out[c] # <<>> => Tail(out[c]) \in Seq(Write)
        OBVIOUS
    <2>2. out' \in [Bev -> Seq(Write)]
        BY <1>19, <2>1 DEF Flush
    <2>3. cleaned' \in [Write -> Nat] /\ heap' \subseteq Write /\ mem' \subseteq Write
        BY <1>19, CleanTyped DEF Flush
    <2>4. /\ run' \in [bev : Bev \cup {None},
                       fn : {"none", "event", "connect", "send", "recv"}]
          /\ crash' \in {"no", "nullBufferevent", "nullFunction", "deadBevfn"}
        BY <1>19, CallTyped DEF Flush
    <2> QED
        BY <1>19, <2>2, <2>3, <2>4 DEF Flush
<1>20. ASSUME NEW b \in Bev, Finalize(b) PROVE TypeOK'
    <2>1. <<>> \in Seq(Write)
        OBVIOUS
    <2>2. out' \in [Bev -> Seq(Write)]
        BY <1>20, <2>1 DEF Finalize
    <2>3. cleaned' \in [Write -> Nat] /\ heap' \subseteq Write /\ mem' \subseteq Write
        BY <1>20, CleanTyped DEF Finalize
    <2> QED
        BY <1>20, <2>2, <2>3 DEF Finalize
<1>21. ASSUME NEW b \in Bev, NEW what \in {"connected", "down"}, Event(b, what)
       PROVE  TypeOK'
    <2>1. EventFn(what) \in {"none", "event", "connect", "send", "recv"}
        BY DEF EventFn
    <2> QED
        BY <1>21, <2>1, CallTyped DEF Event
<1>22. ASSUME Leave PROVE TypeOK'
    BY <1>22 DEF Leave, Idle
<1>23. ASSUME UNCHANGED vars PROVE TypeOK'
    BY <1>23
<1> QED
    BY <1>1, <1>2, <1>3, <1>4, <1>5, <1>6, <1>7, <1>8, <1>9, <1>10, <1>11, <1>12,
       <1>13, <1>14, <1>15, <1>16, <1>17, <1>18, <1>19, <1>20, <1>21, <1>22, <1>23
    DEF Next, Loop, User

-----------------------------------------------------------------------------
(* Owners.                                                                  *)

\* What a callback of the loop leaves: it finds no bevfn only where the handle
\* of the bufferevent was overwritten.
LEMMA CallKnows ==
    ASSUME TypeOK, Owners, NEW b \in Bev, state[b] = "live", NEW fn, Call(b, fn)
    PROVE  crash' = "deadBevfn" => run'.bev \in orphan
<1>1. crash' = "deadBevfn" => cb[b] # None /\ fns[cb[b]] = {} /\ run'.bev = b
    BY DEF Call
<1> QED
    BY <1>1 DEF Owners, CalledLives

\* Every step keeps the owners.
LEMMA OwnersStep == TypeOK /\ Owners /\ [Next]_vars => Owners'
<1> SUFFICES ASSUME TypeOK, Owners, [Next]_vars
             PROVE  Owners'
    OBVIOUS
<1> USE NoneApart DEF vars, objects, bevs, writes, calls
<1>0. /\ NewUnused /\ CalledLives /\ OneOwner /\ SslFreed /\ DeadOnlyOverwritten
      /\ handle \in [Obj -> Bev \cup {None, "raw"}]
      /\ state \in [Bev -> {"new", "live", "closing", "gone"}]
      /\ ssl \in [Bev -> {"none", "live", "freed"}]
      /\ cb \in [Bev -> Handler \cup {None}]
      /\ fns \in [Handler -> SUBSET Names]
      /\ closes \subseteq Bev /\ failed \subseteq Bev /\ orphan \subseteq Bev
    BY DEF Owners, TypeOK, Names
<1> DEFINE Same == UNCHANGED <<handle, state, ssl, closes, failed, orphan, cb, fns>>
<1>same. ASSUME Same, DeadOnlyOverwritten' PROVE Owners'
    BY <1>0, <1>same
    DEF Owners, NewUnused, CalledLives, OneOwner, SslFreed, Held
<1>1. ASSUME NEW o \in Obj, Construct(o) PROVE Owners'
    BY <1>0, <1>1
    DEF Construct, Owners, NewUnused, CalledLives, OneOwner, SslFreed,
        DeadOnlyOverwritten, Held
<1>2. ASSUME NEW o \in Obj, Destroy(o) PROVE Owners'
    BY <1>0, <1>2
    DEF Destroy, Free, Owners, NewUnused, CalledLives, OneOwner, SslFreed,
        DeadOnlyOverwritten, Held
<1>3. ASSUME NEW o \in Obj, Destruct(o) PROVE Owners'
    BY <1>0, <1>3
    DEF Destruct, Free, Owners, NewUnused, CalledLives, OneOwner, SslFreed,
        DeadOnlyOverwritten, Held
<1>4. ASSUME NEW o \in Obj, TlsOfNull(o) PROVE Owners'
    BY <1>same, <1>4 DEF TlsOfNull, DeadOnlyOverwritten
<1>5. ASSUME NEW o \in Obj, Connect(o) \/ ConnectTls(o) PROVE Owners'
    BY <1>0, <1>same, <1>5 DEF Connect, ConnectTls, DeadOnlyOverwritten
<1>6. ASSUME NEW o \in Obj, NEW p \in Obj, MoveConstruct(o, p) PROVE Owners'
    <2>1. /\ handle' = [q \in Obj |-> IF q = o THEN handle[p]
                                      ELSE IF q = p THEN None ELSE handle[q]]
          /\ o # p /\ handle[o] = "raw"
        BY <1>0, <1>6 DEF MoveConstruct, Swap
    <2>2. UNCHANGED <<state, ssl, closes, failed, orphan, cb, fns, run, crash>>
        BY <1>6 DEF MoveConstruct
    <2>3. OneOwner'
        BY <1>0, <2>1, <2>2 DEF OneOwner, Held
    <2> QED
        BY <1>0, <2>2, <2>3
        DEF Owners, NewUnused, CalledLives, SslFreed, DeadOnlyOverwritten
<1>7. ASSUME NEW o \in Obj, NEW p \in Obj, MoveAssign(o, p) PROVE Owners'
    <2>1. /\ handle' = [q \in Obj |-> IF q = o THEN handle[p]
                                      ELSE IF q = p THEN handle[o] ELSE handle[q]]
          /\ o # p
        BY <1>0, <1>7 DEF MoveAssign, Swap
    <2>2. UNCHANGED <<state, ssl, closes, failed, orphan, cb, fns, run, crash>>
        BY <1>7 DEF MoveAssign
    <2>3. OneOwner'
        BY <1>0, <2>1, <2>2 DEF OneOwner, Held
    <2> QED
        BY <1>0, <2>2, <2>3
        DEF Owners, NewUnused, CalledLives, SslFreed, DeadOnlyOverwritten
<1>8. ASSUME NEW o \in Obj, NEW b \in Bev, Attach(o, b) PROVE Owners'
    BY <1>0, <1>8
    DEF Attach, Overwrite, Owners, NewUnused, CalledLives, OneOwner, SslFreed,
        DeadOnlyOverwritten, Held
<1>9. ASSUME NEW o \in Obj, NEW b \in Bev, CreateTlsFails(o, b) PROVE Owners'
    BY <1>0, <1>9
    DEF CreateTlsFails, Owners, NewUnused, CalledLives, OneOwner, SslFreed,
        DeadOnlyOverwritten, Held
<1>10. ASSUME NEW o \in Obj, NEW b \in Bev, NEW opt \in BOOLEAN,
              NEW sock \in BOOLEAN, Create(o, b, opt, sock)
       PROVE  Owners'
    BY <1>0, <1>10
    DEF Create, Overwrite, Owners, NewUnused, CalledLives, OneOwner, SslFreed,
        DeadOnlyOverwritten, Held
<1>11. ASSUME NEW o \in Obj, NEW b \in Bev, NEW opt \in BOOLEAN,
              NEW sock \in BOOLEAN, CreateTls(o, b, opt, sock)
       PROVE  Owners'
    <2>1. OneOwner'
        BY <1>0, <1>11 DEF CreateTls, Replace, OneOwner, Held
    <2>2. NewUnused' /\ CalledLives'
        BY <1>0, <1>11 DEF CreateTls, Replace, NewUnused, CalledLives
    <2>3. SslFreed'
        BY <1>0, <1>11 DEF CreateTls, Replace, SslFreed
    <2>4. DeadOnlyOverwritten'
        BY <1>0, <1>11 DEF CreateTls, Replace, DeadOnlyOverwritten
    <2> QED
        BY <2>1, <2>2, <2>3, <2>4 DEF Owners
<1>12. ASSUME NEW o \in Obj, NEW h \in Handler, SetCallbacks(o, h) PROVE Owners'
    BY <1>0, <1>12
    DEF SetCallbacks, Owners, NewUnused, CalledLives, OneOwner, SslFreed,
        DeadOnlyOverwritten, Held
<1>13. ASSUME NEW o \in Obj, NEW w \in Write, NEW k \in {"copy", "ref", "copyfn"},
              WriteOp(o, w, k)
       PROVE  Owners'
    BY <1>0, <1>same, <1>13 DEF WriteOp, DeadOnlyOverwritten
<1>14. ASSUME NEW o \in Obj, NEW w \in Write, NEW k \in {"copy", "ref", "copyfn"},
              WriteRefused(o, w, k)
       PROVE  Owners'
    BY <1>0, <1>same, <1>14 DEF WriteRefused, DeadOnlyOverwritten
<1>15. ASSUME NEW h \in Handler, DropHandler(h) PROVE Owners'
    <2>1. UNCHANGED <<handle, state, ssl, closes, failed, orphan, cb, run, crash>>
        BY <1>15 DEF DropHandler
    <2>2. ASSUME NEW b \in Bev, state[b] = "live", cb[b] = h
          PROVE  b \in orphan
        BY <1>0, <1>15, <2>2 DEF DropHandler, OneOwner, Held
    <2>3. \A g \in Handler : g # h => fns'[g] = fns[g]
        BY <1>0, <1>15 DEF DropHandler
    <2>4. CalledLives'
        BY <1>0, <2>1, <2>2, <2>3 DEF CalledLives
    <2> QED
        BY <1>0, <2>1, <2>4
        DEF Owners, NewUnused, OneOwner, SslFreed, DeadOnlyOverwritten, Held
<1>16. ASSUME NEW h \in Handler, NEW all \in BOOLEAN, MakeHandler(h, all) PROVE Owners'
    <2>1. UNCHANGED <<handle, state, ssl, closes, failed, orphan, cb, run, crash>>
        BY <1>16 DEF MakeHandler
    <2>2. \A g \in Handler : fns'[g] = {} => fns[g] = {}
        BY <1>0, <1>16 DEF MakeHandler
    <2> QED
        BY <1>0, <2>1, <2>2
        DEF Owners, NewUnused, CalledLives, OneOwner, SslFreed,
            DeadOnlyOverwritten, Held
<1>17. ASSUME NEW h \in Handler, NEW fn \in {"connect", "send", "recv"}, On(h, fn)
       PROVE  Owners'
    <2>1. UNCHANGED <<handle, state, ssl, closes, failed, orphan, cb, run, crash>>
        BY <1>17 DEF On
    <2>2. \A g \in Handler : fns'[g] = {} => fns[g] = {}
        BY <1>0, <1>17 DEF On
    <2> QED
        BY <1>0, <2>1, <2>2
        DEF Owners, NewUnused, CalledLives, OneOwner, SslFreed,
            DeadOnlyOverwritten, Held
<1>18. ASSUME NEW b \in Bev, Receive(b) PROVE Owners'
    BY <1>same, <1>18, CallKnows DEF Receive, DeadOnlyOverwritten
<1>19. ASSUME NEW b \in Bev, Flush(b) PROVE Owners'
    BY <1>same, <1>19, CallKnows DEF Flush, DeadOnlyOverwritten
<1>20. ASSUME NEW b \in Bev, Finalize(b) PROVE Owners'
    <2>1. UNCHANGED <<handle, closes, failed, orphan, cb, fns, run, crash>>
        BY <1>20 DEF Finalize
    <2>2. /\ \A c \in Bev : state'[c] = IF c = b THEN "gone" ELSE state[c]
          /\ state[b] = "closing"
          /\ \A c \in Bev : ssl'[c] = "live" => ssl[c] = "live"
          /\ ssl'[b] = "live" => b \notin closes
        BY <1>0, <1>20 DEF Finalize
    <2>3. OneOwner'
        BY <1>0, <2>1, <2>2 DEF OneOwner, Held
    <2>4. NewUnused' /\ CalledLives' /\ DeadOnlyOverwritten'
        BY <1>0, <2>1, <2>2 DEF NewUnused, CalledLives, DeadOnlyOverwritten
    <2>5. SslFreed'
        BY <1>0, <2>1, <2>2 DEF SslFreed
    <2> QED
        BY <2>3, <2>4, <2>5 DEF Owners
<1>21. ASSUME NEW b \in Bev, NEW what \in {"connected", "down"}, Event(b, what)
       PROVE  Owners'
    BY <1>same, <1>21, CallKnows DEF Event, DeadOnlyOverwritten
<1>22. ASSUME crash = "no", Leave PROVE Owners'
    BY <1>0, <1>same, <1>22 DEF Leave, DeadOnlyOverwritten
<1>23. ASSUME UNCHANGED vars PROVE Owners'
    BY <1>0, <1>same, <1>23 DEF DeadOnlyOverwritten
<1> QED
    BY <1>1, <1>2, <1>3, <1>4, <1>5, <1>6, <1>7, <1>8, <1>9, <1>10, <1>11, <1>12,
       <1>13, <1>14, <1>15, <1>16, <1>17, <1>18, <1>19, <1>20, <1>21, <1>22, <1>23
    DEF Next, Loop, User

-----------------------------------------------------------------------------
(* Writes.                                                                  *)

\* Taking some writes out of one output, with what they have allocated, keeps
\* the invariant of the writes.
LEMMA CleanKeepsWrites ==
    ASSUME TypeOK, Writes, NEW b \in Bev, NEW ws,
           ws \subseteq ToSet(out[b]),
           ToSet(out[b])' = ToSet(out[b]) \ ws,
           \A c \in Bev : c # b => out'[c] = out[c],
           \A i, j \in DOMAIN out'[b] : out'[b][i] = out'[b][j] => i = j,
           Clean(ws), UNCHANGED <<kind, lost>>
    PROVE  Writes'
<1>1. /\ NewNowhere /\ LostApart /\ OutOnce /\ CleanupOnce
      /\ cleaned \in [Write -> Nat]
      /\ heap \subseteq Write /\ mem \subseteq Write /\ lost \subseteq Write
    BY DEF Writes, TypeOK
<1>2. \A c \in Bev : c # b => ToSet(out[c])' = ToSet(out[c])
    BY DEF ToSet
<1>3. \A w \in Write : Waits(w)' <=> Waits(w) /\ w \notin ws
    <2> TAKE w \in Write
    <2>1. Waits(w)' <=> \E c \in Bev : w \in ToSet(out[c])'
        BY DEF Waits
    <2>2. ASSUME NEW c \in Bev, w \in ToSet(out[c])'
          PROVE  w \in ToSet(out[c]) /\ w \notin ws
        <3>1. CASE c = b
            BY <2>2, <3>1
        <3>2. CASE c # b
            BY <1>1, <1>2, <2>2, <3>2 DEF OutOnce
        <3> QED
            BY <3>1, <3>2
    <2>3. ASSUME NEW c \in Bev, w \in ToSet(out[c]), w \notin ws
          PROVE  w \in ToSet(out[c])'
        BY <1>2, <2>3
    <2> QED
        BY <2>1, <2>2, <2>3 DEF Waits
<1>4. \A w \in Write : w \in ws => Waits(w)
    BY DEF Waits
<1>5. /\ \A w \in Write : cleaned'[w] = IF w \in ws /\ w \in heap
                                        THEN cleaned[w] + 1 ELSE cleaned[w]
      /\ heap' = heap \ ws /\ mem' = mem \ ws
    BY <1>1 DEF Clean
<1>6. NewNowhere'
    BY <1>1, <1>3, <1>4, <1>5 DEF NewNowhere
<1>7. LostApart'
    BY <1>1, <1>3 DEF LostApart
<1>8. OutOnce'
    <2>1. \A c \in Bev : \A i, j \in DOMAIN out'[c] : out'[c][i] = out'[c][j] => i = j
        BY <1>1 DEF OutOnce
    <2>2. \A c \in Bev : ToSet(out[c])' \subseteq ToSet(out[c])
        BY <1>2
    <2>3. \A c, d \in Bev, w \in Write :
            w \in ToSet(out[c])' /\ w \in ToSet(out[d])' => c = d
        BY <1>1, <2>2 DEF OutOnce
    <2> QED
        BY <2>1, <2>3 DEF OutOnce
<1>9. ASSUME NEW w \in Write
      PROVE  /\ cleaned'[w] <= 1
             /\ Waits(w)' => cleaned'[w] = 0
             /\ w \in heap' <=> kind'[w] \in {"ref", "copyfn"}
                                /\ (Waits(w)' \/ w \in lost')
             /\ w \in mem' => w \in heap'
             /\ Waits(w)' /\ kind'[w] = "copyfn" => w \in mem'
    <2>1. /\ cleaned[w] <= 1 /\ cleaned[w] \in Nat
          /\ Waits(w) => cleaned[w] = 0
          /\ w \in heap <=> kind[w] \in {"ref", "copyfn"} /\ (Waits(w) \/ w \in lost)
          /\ w \in mem => w \in heap
          /\ Waits(w) /\ kind[w] = "copyfn" => w \in mem
        BY <1>1 DEF CleanupOnce
    <2>2. w \in lost => ~Waits(w)
        BY <1>1 DEF LostApart
    <2> QED
        BY <1>3, <1>4, <1>5, <2>1, <2>2
<1>10. CleanupOnce'
    BY <1>9 DEF CleanupOnce
<1> QED
    BY <1>6, <1>7, <1>8, <1>10 DEF Writes

\* Every step keeps the invariant of the writes.
LEMMA WritesStep == TypeOK /\ Writes /\ [Next]_vars => Writes'
<1> SUFFICES ASSUME TypeOK, Writes, [Next]_vars
             PROVE  Writes'
    OBVIOUS
<1>0. /\ NewNowhere /\ LostApart /\ OutOnce /\ CleanupOnce
      /\ handle \in [Obj -> Bev \cup {None, "raw"}]
      /\ out \in [Bev -> Seq(Write)]
      /\ kind \in [Write -> {"new", "copy", "ref", "copyfn"}]
      /\ cleaned \in [Write -> Nat]
      /\ heap \subseteq Write /\ mem \subseteq Write /\ lost \subseteq Write
    BY DEF Writes, TypeOK
<1>same. ASSUME UNCHANGED writes PROVE Writes'
    BY <1>0, <1>same
    DEF writes, Writes, NewNowhere, LostApart, OutOnce, CleanupOnce, Waits, ToSet
<1>1. ASSUME NEW o \in Obj, NEW w \in Write, NEW k \in {"copy", "ref", "copyfn"},
             WriteOp(o, w, k)
      PROVE  Writes'
    <2> PICK h \in Bev : h = handle[o]
        BY <1>0, <1>1 DEF WriteOp, Held
    <2>1. /\ kind[w] = "new"
          /\ out' = [out EXCEPT ![h] = Append(out[h], w)]
          /\ kind' = [kind EXCEPT ![w] = k]
          /\ heap' = IF k = "copy" THEN heap ELSE heap \cup {w}
          /\ mem' = IF k = "copyfn" THEN mem \cup {w} ELSE mem
          /\ UNCHANGED <<lost, cleaned>>
        BY <1>0, <1>1 DEF WriteOp, Held
    <2>2. /\ ~Waits(w) /\ w \notin heap \cup mem \cup lost /\ cleaned[w] = 0
        BY <1>0, <2>1 DEF NewNowhere
    <2>3. \A b \in Bev : w \notin ToSet(out[b])
        BY <2>2 DEF Waits
    <2>4. /\ ToSet(Append(out[h], w)) = ToSet(out[h]) \cup {w}
          /\ \A i, j \in DOMAIN Append(out[h], w) :
                Append(out[h], w)[i] = Append(out[h], w)[j] => i = j
        <3>1. /\ out[h] \in Seq(Write) /\ w \notin ToSet(out[h])
              /\ \A i, j \in DOMAIN out[h] : out[h][i] = out[h][j] => i = j
            BY <1>0, <2>1, <2>3 DEF OutOnce
        <3> QED
            BY <3>1, AppendSet
    <2>5. /\ out'[h] = Append(out[h], w)
          /\ \A c \in Bev : c # h => out'[c] = out[c]
        BY <1>0, <2>1
    <2>6. /\ ToSet(out[h])' = ToSet(out[h]) \cup {w}
          /\ \A c \in Bev : c # h => ToSet(out[c])' = ToSet(out[c])
        <3>1. \A c \in Bev : ToSet(out[c])' = ToSet(out'[c])
            BY DEF ToSet
        <3>2. ToSet(out'[h]) = ToSet(out[h]) \cup {w}
            BY <2>4, <2>5
        <3>3. \A c \in Bev : c # h => ToSet(out'[c]) = ToSet(out[c])
            BY <2>5
        <3> QED
            BY <3>1, <3>2, <3>3
    <2>7. \A v \in Write : Waits(v)' <=> Waits(v) \/ v = w
        BY <2>1, <2>6 DEF Waits
    <2>8. NewNowhere'
        BY <1>0, <2>1, <2>7 DEF NewNowhere
    <2>9. LostApart'
        BY <1>0, <2>1, <2>2, <2>7 DEF LostApart
    <2>10. OutOnce'
        <3>1. \A b \in Bev : \A i, j \in DOMAIN out'[b] :
                out'[b][i] = out'[b][j] => i = j
            BY <1>0, <2>4, <2>5 DEF OutOnce
        <3>2. \A b, c \in Bev, v \in Write :
                v \in ToSet(out[b])' /\ v \in ToSet(out[c])' => b = c
            <4>1. \A b \in Bev, v \in Write :
                    v \in ToSet(out[b])' => v \in ToSet(out[b]) \/ (b = h /\ v = w)
                BY <2>6
            <4>2. \A b, c \in Bev, v \in Write :
                    v \in ToSet(out[b]) /\ v \in ToSet(out[c]) => b = c
                BY <1>0 DEF OutOnce
            <4> QED
                BY <2>3, <4>1, <4>2
        <3> QED
            BY <3>1, <3>2 DEF OutOnce
    <2>11. CleanupOnce'
        BY <1>0, <2>1, <2>2, <2>7 DEF CleanupOnce
    <2> QED
        BY <2>8, <2>9, <2>10, <2>11 DEF Writes
<1>2. ASSUME NEW o \in Obj, NEW w \in Write, NEW k \in {"copy", "ref", "copyfn"},
             WriteRefused(o, w, k)
      PROVE  Writes'
    <2>1. /\ kind[w] = "new" /\ UNCHANGED <<out, cleaned>>
          /\ kind' = [kind EXCEPT ![w] = k]
          /\ heap' = IF k = "copy" THEN heap ELSE heap \cup {w}
          /\ mem' = mem \/ (k = "copyfn" /\ mem' = mem \cup {w})
          /\ lost' = lost \cup {w}
        BY <1>2 DEF WriteRefused
    <2>2. /\ ~Waits(w) /\ w \notin heap \cup mem \cup lost /\ cleaned[w] = 0
        BY <1>0, <2>1 DEF NewNowhere
    <2>3. \A v \in Write : Waits(v)' <=> Waits(v)
        BY <2>1 DEF Waits, ToSet
    <2>4. NewNowhere' /\ LostApart'
        BY <1>0, <2>1, <2>2, <2>3 DEF NewNowhere, LostApart
    <2>5. OutOnce'
        BY <1>0, <2>1 DEF OutOnce, ToSet
    <2>6. CleanupOnce'
        BY <1>0, <2>1, <2>2, <2>3 DEF CleanupOnce
    <2> QED
        BY <2>4, <2>5, <2>6 DEF Writes
<1>3. ASSUME NEW b \in Bev, Flush(b) PROVE Writes'
    <2>1. /\ out[b] # <<>> /\ out[b] \in Seq(Write)
          /\ \A i, j \in DOMAIN out[b] : out[b][i] = out[b][j] => i = j
          /\ out'[b] = Tail(out[b])
          /\ \A c \in Bev : c # b => out'[c] = out[c]
          /\ Clean({Head(out[b])}) /\ UNCHANGED <<kind, lost>>
        BY <1>0, <1>3 DEF Flush, OutOnce
    <2>2. /\ Head(out[b]) \in ToSet(out[b])
          /\ ToSet(Tail(out[b])) = ToSet(out[b]) \ {Head(out[b])}
          /\ \A i, j \in DOMAIN Tail(out[b]) :
                Tail(out[b])[i] = Tail(out[b])[j] => i = j
        BY <2>1, TailSet
    <2>3. ToSet(out[b])' = ToSet(out'[b])
        BY DEF ToSet
    <2>4. ToSet(out[b])' = ToSet(out[b]) \ {Head(out[b])}
        BY <2>1, <2>2, <2>3
    <2>5. {Head(out[b])} \subseteq ToSet(out[b])
        BY <2>2
    <2>6. \A i, j \in DOMAIN out'[b] : out'[b][i] = out'[b][j] => i = j
        BY <2>1, <2>2
    <2> QED
        BY <2>1, <2>4, <2>5, <2>6, CleanKeepsWrites
<1>4. ASSUME NEW b \in Bev, Finalize(b) PROVE Writes'
    <2>1. /\ out'[b] = <<>>
          /\ \A c \in Bev : c # b => out'[c] = out[c]
          /\ Clean(ToSet(out[b])) /\ UNCHANGED <<kind, lost>>
        BY <1>0, <1>4 DEF Finalize
    <2>2. ToSet(out[b])' = {} /\ DOMAIN out'[b] = {}
        BY <2>1 DEF ToSet
    <2>3. ToSet(out[b])' = ToSet(out[b]) \ ToSet(out[b])
        BY <2>2
    <2> QED
        BY <2>1, <2>2, <2>3, CleanKeepsWrites
<1>5. ASSUME NEW b \in Bev, Receive(b) \/ \E what \in {"connected", "down"} : Event(b, what)
      PROVE  Writes'
    BY <1>5, <1>same DEF Receive, Event
<1>6. ASSUME NEW h \in Handler,
             \/ DropHandler(h)
             \/ \E all \in BOOLEAN : MakeHandler(h, all)
             \/ \E fn \in {"connect", "send", "recv"} : On(h, fn)
      PROVE  Writes'
    BY <1>6, <1>same DEF DropHandler, MakeHandler, On
<1>7. ASSUME NEW o \in Obj,
             \/ Construct(o) \/ Destroy(o) \/ Destruct(o) \/ TlsOfNull(o)
             \/ Connect(o) \/ ConnectTls(o)
             \/ \E p \in Obj : MoveConstruct(o, p) \/ MoveAssign(o, p)
             \/ \E h \in Handler : SetCallbacks(o, h)
             \/ \E b \in Bev : \/ Attach(o, b) \/ CreateTlsFails(o, b)
                               \/ \E opt, sock \in BOOLEAN :
                                    \/ Create(o, b, opt, sock)
                                    \/ CreateTls(o, b, opt, sock)
      PROVE  Writes'
    BY <1>7, <1>same
    DEF Construct, Destroy, Destruct, TlsOfNull, Connect, ConnectTls, MoveConstruct, MoveAssign,
        SetCallbacks, Attach, CreateTlsFails, Create, CreateTls
<1>8. ASSUME Leave \/ UNCHANGED vars PROVE Writes'
    BY <1>8, <1>same DEF Leave, vars
<1> QED
    BY <1>1, <1>2, <1>3, <1>4, <1>5, <1>6, <1>7, <1>8 DEF Next, Loop, User

-----------------------------------------------------------------------------
\* The inductive invariant holds in every reachable state.
LEMMA BufferEventInductive == IInv /\ [Next]_vars => IInv'
BY TypeStep, OwnersStep, WritesStep DEF IInv

\* The invariant holds in every state that is reached.
THEOREM BufferEventInvariance == Spec => []IInv
BY Initially, BufferEventInductive, PTL DEF Spec

\* Every variable stays in its type.
THEOREM BufferEventTypeCorrect == Spec => []TypeOK
<1>1. IInv => TypeOK
    BY DEF IInv
<1> QED
    BY <1>1, BufferEventInvariance, PTL

\* A bufferevent is freed once, by the one object that has it, with its SSL, and
\* the loop calls a dead bevfn only for one whose own handle was overwritten
\* (buffer_event.hpp:48-103, bevfn.hpp:113-118, ssl/bevsock.hpp:31-45).
THEOREM BufferEventOwnership == Spec => []OwnedUntilFreed
<1>1. IInv => OwnedUntilFreed
    BY DEF IInv, Owners, OwnedUntilFreed
<1> QED
    BY <1>1, BufferEventInvariance, PTL

\* The function of a write is called at most once, and what it has allocated is
\* freed then and not before (bev.hpp:254-326).
THEOREM WriteCleanup == Spec => []CleanupOnce
<1>1. IInv => CleanupOnce
    BY DEF IInv, Writes
<1> QED
    BY <1>1, BufferEventInvariance, PTL
=============================================================================
