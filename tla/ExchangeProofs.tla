--------------------------- MODULE ExchangeProofs ---------------------------
(* Proofs about the components of MCExchange, for any number of objects,      *)
(* messages, lists, lines and responses.  Framing: which object wslay calls   *)
(* back, who shares an event context and who is left with a freed one.        *)
(* OutHeaders: who has a list of headers, and what a transfer has of it.      *)
(* Response: its invariant (ResponseProofs), in the two instances.            *)
EXTENDS MCExchange, TLAPS

HeadersProofs ==
    INSTANCE ResponseProofs WITH left <- bodyLeft, crash <- respCrash,
                                 Chunks <- 0, Resps <- 1
BodiesProofs ==
    INSTANCE ResponseProofs WITH left <- bodyLeft, crash <- respCrash,
                                 Name <- Name \ Edge, Edge <- {},
                                 Lines <- Lines - 1

-----------------------------------------------------------------------------
(* Framing.                                                                 *)

\* A dead object has nothing, and an event context that was not made is
\* nobody's, has no frames and is not called.
Fresh ==
    /\ \A o \in Obj : life[o] = "raw" => wslay[o] = None
    /\ \A n \in Ctx : ctx[n] = "new" =>
        /\ n \notin closing \cup stopped \cup maskless
        /\ \A o \in Obj : wslay[o] # n
    /\ \A n \in Ctx : ctx[n] # "new" => user[n] \in Obj

\* wslay_event_recv runs on an event context that is there, unless a callback
\* has freed it.
Current ==
    /\ run.at = "idle" <=> run.ctx = None
    /\ run.at \in {"loop", "data"} => ctx[run.ctx] = "live"
    /\ run.at \in Fn => ctx[run.ctx] # "new"

\* While an event context writes, it has sent what it took from its queue, but
\* for the message that it has begun, and takes nothing after a close frame.
Written(n) ==
    /\ n \in begun => n \notin stopped
    /\ n \in maskless => n \in stopped /\ role[n] = "client"
    /\ n \notin stopped =>
        /\ n \notin begun => sent[n] = 1 .. taken[n]
        /\ n \in begun => taken[n] # 0 /\ sent[n] = 1 .. (taken[n] - 1)
        /\ n \in closing => due[n] = taken[n]
    /\ n \in stopped => \E k \in 0 .. MaxMsg : sent[n] = 1 .. k
    /\ n \in stopped /\ n \notin maskless =>
        n \in closing /\ sent[n] = 1 .. due[n]

Sending == \A n \in Ctx : Written(n)

\* The inductive invariant.
IInv ==
    /\ TypeOK
    /\ Fresh
    /\ Current
    /\ KnowsItsObject
    /\ OnlyCopiesShare
    /\ CalledAlive
    /\ Sending

-----------------------------------------------------------------------------
\* The invariant holds in the initial states.
LEMMA FramingInitially == Init => IInv
<1> SUFFICES ASSUME Init
             PROVE  IInv
    OBVIOUS
<1>1. fns \in [Hnd -> SUBSET Fn]
    BY DEF Init
<1>2. run \in [ctx : Ctx \cup {None}, at : {"idle", "loop", "data"} \cup Fn]
    BY DEF Init, Idle
<1>3. TypeOK
    BY <1>1, <1>2, FramingAssumption DEF Init, TypeOK
<1>4. Fresh /\ Current
    BY FramingAssumption DEF Init, Fresh, Current, Idle, Fn
<1>5. KnowsItsObject /\ OnlyCopiesShare /\ CalledAlive /\ Sending
    BY FramingAssumption
    DEF Init, KnowsItsObject, OnlyCopiesShare, CalledAlive, Sending, Written
<1> QED
    BY <1>3, <1>4, <1>5 DEF IInv

\* None is no event context.
LEMMA NoneApart == None \notin Ctx /\ None \notin Obj
BY FramingAssumption

-----------------------------------------------------------------------------
\* Objects begin.
LEMMA Constructs ==
    ASSUME IInv, crash = "no", NEW o \in Obj, NEW h \in Hnd, Construct(o, h)
    PROVE  IInv'
<1>1. UNCHANGED <<wslay, holder, fns, ctx, user, role, accepted, taken, begun,
                  sent, closing, stopped, deaf, due, maskless, run, copied,
                  left, over, crash>>
    BY DEF Construct, natives, frames, messages, history
<1>2. /\ life[o] = "raw" /\ life' = [life EXCEPT ![o] = "live"]
      /\ handler' = [handler EXCEPT ![o] = h] /\ wslay[o] = None
    BY DEF Construct, IInv, Fresh
<1>3. TypeOK' /\ Fresh'
    BY <1>1, <1>2 DEF IInv, TypeOK, Fresh
<1>4. Current' /\ CalledAlive' /\ Sending'
    BY <1>1 DEF IInv, Current, CalledAlive, Sending, Written
<1>5. KnowsItsObject' /\ OnlyCopiesShare'
    BY <1>1, <1>2, NoneApart
    DEF IInv, TypeOK, Fresh, KnowsItsObject, OnlyCopiesShare
<1> QED
    BY <1>3, <1>4, <1>5 DEF IInv

\* Objects are copied.
LEMMA Copies ==
    ASSUME IInv, crash = "no", NEW o \in Obj, NEW that \in Obj, Copy(o, that)
    PROVE  IInv'
<1>1. UNCHANGED <<holder, fns, ctx, user, role, accepted, taken, begun, sent,
                  closing, stopped, deaf, due, maskless, run, left, over,
                  crash>>
    BY DEF Copy, natives, frames, messages
<1>2. /\ life[o] = "raw" /\ life[that] = "live" /\ wslay[o] = None
      /\ life' = [life EXCEPT ![o] = "live"]
      /\ wslay' = [wslay EXCEPT ![o] = wslay[that]]
      /\ handler' = [handler EXCEPT ![o] = handler[that]]
      /\ copied' = copied \cup {o, that}
    BY DEF Copy, IInv, Fresh
<1>3. TypeOK'
    BY <1>1, <1>2 DEF IInv, TypeOK
<1>4. Fresh'
    BY <1>1, <1>2 DEF IInv, TypeOK, Fresh
<1>5. Current' /\ CalledAlive' /\ Sending'
    BY <1>1 DEF IInv, Current, CalledAlive, Sending, Written
<1>6. KnowsItsObject'
    BY <1>1, <1>2 DEF IInv, TypeOK, Fresh, KnowsItsObject
<1>7. ASSUME NEW p \in Obj \ copied', life'[p] = "live", wslay'[p] # None
      PROVE  /\ ctx'[wslay'[p]] = "live"
             /\ \A q \in Obj : life'[q] = "live" /\ wslay'[q] = wslay'[p]
                               => q = p
    <2>1. p # o /\ p # that /\ p \notin copied
        BY <1>2, <1>7
    <2>2. life[p] = "live" /\ wslay'[p] = wslay[p]
        BY <1>2, <1>7, <2>1 DEF IInv, TypeOK
    <2>3. /\ ctx[wslay[p]] = "live"
          /\ \A q \in Obj : life[q] = "live" /\ wslay[q] = wslay[p] => q = p
        BY <1>7, <2>1, <2>2 DEF IInv, OnlyCopiesShare
    <2> QED
        BY <1>1, <1>2, <2>1, <2>2, <2>3 DEF IInv, TypeOK
<1>8. OnlyCopiesShare'
    BY <1>1, <1>7 DEF OnlyCopiesShare
<1> QED
    BY <1>3, <1>4, <1>5, <1>6, <1>8 DEF IInv

\* An object ends.
LEMMA Ends ==
    ASSUME IInv, crash = "no", NEW o \in Obj, Destruct(o)
    PROVE  IInv'
<1>1. UNCHANGED <<holder, fns, ctx, user, role, accepted, taken, begun, sent,
                  closing, stopped, deaf, due, maskless, run, copied, over,
                  crash>>
    BY DEF Destruct, natives, frames, messages
<1>2. TypeOK' /\ Fresh'
    BY <1>1, NoneApart DEF Destruct, IInv, TypeOK, Fresh
<1>3. Current' /\ CalledAlive' /\ Sending'
    BY <1>1 DEF IInv, Current, CalledAlive, Sending, Written
<1>4. ASSUME NEW n \in Ctx, ctx'[n] = "live", n \notin left' \cup over'
      PROVE  life'[user'[n]] = "live" /\ wslay'[user'[n]] = n
    <2>1. n \notin left \cup over /\ (wslay[o] = n => n = None)
        BY <1>1, <1>4 DEF Destruct
    <2>2. life[user[n]] = "live" /\ wslay[user[n]] = n
        BY <1>1, <1>4, <2>1 DEF IInv, KnowsItsObject
    <2>3. user[n] # o
        BY <2>1, <2>2, NoneApart
    <2> QED
        BY <1>1, <1>4, <2>2, <2>3 DEF Destruct, IInv, TypeOK, Fresh
<1>5. OnlyCopiesShare'
    BY <1>1 DEF Destruct, IInv, TypeOK, Fresh, OnlyCopiesShare
<1>6. KnowsItsObject'
    BY <1>4 DEF KnowsItsObject
<1> QED
    BY <1>2, <1>3, <1>5, <1>6 DEF IInv

-----------------------------------------------------------------------------
\* client() and server(), when wslay makes an event context.
LEMMA Makes ==
    ASSUME IInv, crash = "no", UserRuns, NEW o \in Obj, NEW n \in Ctx,
           NEW r \in {"client", "server"}, Make(o, n, r)
    PROVE  IInv'
<1>1. UNCHANGED <<life, handler, holder, fns, accepted, taken, begun, sent,
                  closing, stopped, deaf, due, maskless, run, copied, left,
                  crash>>
    BY DEF Make, frames, messages
<1>2. /\ life[o] = "live" /\ ctx[n] = "new"
      /\ n \notin stopped /\ \A p \in Obj : wslay[p] # n
    BY DEF Make, IInv, Fresh
<1>3. TypeOK' /\ Fresh'
    BY <1>1, <1>2, NoneApart DEF Make, IInv, TypeOK, Fresh
<1>4. Current'
    BY <1>1, <1>2 DEF Make, IInv, TypeOK, Current
<1>5. CalledAlive' /\ Sending'
    BY <1>1, <1>2 DEF Make, IInv, TypeOK, CalledAlive, Sending, Written
<1>6. KnowsItsObject'
    BY <1>1, <1>2, NoneApart DEF Make, IInv, TypeOK, KnowsItsObject
<1>7. OnlyCopiesShare'
    BY <1>1, <1>2 DEF Make, IInv, TypeOK, OnlyCopiesShare
<1> QED
    BY <1>3, <1>4, <1>5, <1>6, <1>7 DEF IInv

\* client() and server() throw.
LEMMA MakesNothing ==
    ASSUME IInv, crash = "no", NEW o \in Obj, MakeFails(o)
    PROVE  IInv'
<1>1. UNCHANGED <<life, handler, holder, fns, ctx, user, role, accepted, taken,
                  begun, sent, closing, stopped, deaf, due, maskless, run,
                  copied, left, crash>>
    BY DEF MakeFails, natives, frames, messages
<1>2. TypeOK' /\ Fresh'
    BY <1>1, NoneApart DEF MakeFails, IInv, TypeOK, Fresh
<1>3. Current' /\ CalledAlive' /\ Sending'
    BY <1>1 DEF IInv, Current, CalledAlive, Sending, Written
<1>4. KnowsItsObject'
    BY <1>1 DEF MakeFails, IInv, TypeOK, Fresh, KnowsItsObject
<1>5. OnlyCopiesShare'
    BY <1>1 DEF MakeFails, IInv, TypeOK, Fresh, OnlyCopiesShare
<1> QED
    BY <1>2, <1>3, <1>4, <1>5 DEF IInv

-----------------------------------------------------------------------------
\* destroy(), called by the user or by a holder.
LEMMA Releases ==
    ASSUME IInv, crash = "no", UserRuns, NEW o \in Obj, life[o] = "live",
           Release(o), holder' \subseteq holder,
           UNCHANGED <<life, handler, fns, user, role, accepted, taken, begun,
                       sent, closing, stopped, deaf, due, maskless, run,
                       copied, left, over>>
    PROVE  IInv'
<1>1. CASE wslay[o] = None
    BY <1>1
    DEF Release, IInv, TypeOK, Fresh, Current, KnowsItsObject, OnlyCopiesShare,
        CalledAlive, Sending, Written
<1>2. CASE wslay[o] # None
    <2>1. PICK n \in Ctx :
            /\ wslay[o] = n /\ ctx[n] # "new"
            /\ ctx' = [ctx EXCEPT ![n] = "freed"]
            /\ wslay' = [wslay EXCEPT ![o] = None]
            /\ crash' = IF ctx[n] = "freed" THEN "freedTwice" ELSE "no"
        BY <1>2 DEF Release, IInv, TypeOK, Fresh
    <2>2. TypeOK' /\ Fresh'
        BY <2>1, NoneApart DEF IInv, TypeOK, Fresh
    <2>3. Current'
        BY <2>1 DEF IInv, TypeOK, Current, UserRuns, Fn
    <2>4. CalledAlive' /\ Sending'
        BY <2>1 DEF IInv, CalledAlive, Sending, Written
    <2>5. KnowsItsObject'
        BY <2>1 DEF IInv, TypeOK, KnowsItsObject
    <2>6. crash' = "freedTwice" => copied # {}
        BY <1>2, <2>1 DEF IInv, OnlyCopiesShare
    <2>7. ASSUME NEW p \in Obj \ copied, life[p] = "live", wslay'[p] # None
          PROVE  /\ ctx'[wslay'[p]] = "live"
                 /\ \A q \in Obj : life[q] = "live" /\ wslay'[q] = wslay'[p]
                                   => q = p
        <3>1. p # o /\ wslay'[p] = wslay[p]
            BY <2>1, <2>7 DEF IInv, TypeOK
        <3>2. /\ ctx[wslay[p]] = "live"
              /\ \A q \in Obj : life[q] = "live" /\ wslay[q] = wslay[p]
                                => q = p
            BY <2>7, <3>1 DEF IInv, OnlyCopiesShare
        <3>3. wslay[p] # n
            BY <2>1, <3>1, <3>2
        <3> QED
            BY <2>1, <2>7, <3>1, <3>2, <3>3 DEF IInv, TypeOK
    <2>8. OnlyCopiesShare'
        BY <2>1, <2>6, <2>7 DEF OnlyCopiesShare
    <2> QED
        BY <2>2, <2>3, <2>4, <2>5, <2>8 DEF IInv
<1> QED
    BY <1>1, <1>2

\* The end of a holder.
LEMMA HolderSteps ==
    ASSUME IInv, crash = "no", UserRuns, NEW o \in Obj,
           Destroy(o) \/ Hold(o) \/ HolderEnds(o)
    PROVE  IInv'
<1>1. CASE Destroy(o)
    BY <1>1, Releases DEF Destroy, frames, messages, history
<1>2. CASE Hold(o)
    BY <1>2
    DEF Hold, IInv, TypeOK, Fresh, Current, KnowsItsObject, OnlyCopiesShare,
        CalledAlive, Sending, Written, natives, frames, messages, history
<1>3. CASE HolderEnds(o) /\ life[o] = "live"
    <2>1. holder' \subseteq holder
        BY <1>3 DEF HolderEnds
    <2> QED
        BY <1>3, <2>1, Releases DEF HolderEnds, frames, messages, history
<1>4. CASE HolderEnds(o) /\ life[o] # "live"
    BY <1>4
    DEF HolderEnds, IInv, TypeOK, Fresh, Current, KnowsItsObject,
        OnlyCopiesShare, CalledAlive, Sending, Written, frames, messages, history
<1> QED
    BY <1>1, <1>2, <1>3, <1>4

-----------------------------------------------------------------------------
\* A handler is given a function.
LEMMA SetSteps ==
    ASSUME IInv, crash = "no", NEW h \in Hnd, NEW f \in Fn, Set(h, f)
    PROVE  IInv'
<1>1. UNCHANGED <<objects, natives, frames, run, history, crash>>
    BY DEF Set
<1>2. fns' \in [Hnd -> SUBSET Fn]
    BY DEF Set, IInv, TypeOK
<1>3. TypeOK'
    BY <1>1, <1>2 DEF IInv, TypeOK, objects, natives, frames, messages, history
<1> QED
    BY <1>1, <1>3
    DEF IInv, Fresh, Current, KnowsItsObject, OnlyCopiesShare, CalledAlive,
        Sending, Written, objects, natives, frames, messages, history

\* Frames are queued and written.
LEMMA FrameSteps ==
    ASSUME IInv, crash = "no", NEW o \in Obj,
           \/ QueueMsg(o)
           \/ QueueClose(o)
           \/ WriteRest(o)
           \/ \E rc \in {1, 0, -1} : WriteClose(o, rc)
           \/ \E rc \in {1, 0, -1}, whole \in BOOLEAN : WriteMsg(o, rc, whole)
    PROVE  IInv'
<1>1. /\ UNCHANGED <<objects, fns, natives, run, history, crash, deaf>>
      /\ Native(o)
    BY DEF QueueMsg, QueueClose, WriteRest, WriteClose, WriteMsg, messages
<1>2. Current' /\ KnowsItsObject' /\ OnlyCopiesShare' /\ CalledAlive'
    BY <1>1
    DEF IInv, Current, KnowsItsObject, OnlyCopiesShare, CalledAlive, objects,
        natives, history
<1>3. PICK n \in Ctx : n = wslay[o] /\ ctx[n] = "live"
    BY <1>1 DEF Native, IInv, TypeOK
<1>4. /\ accepted[n] \in 0 .. MaxMsg /\ taken[n] \in 0 .. MaxMsg
      /\ sent[n] \in SUBSET (1 .. MaxMsg) /\ MaxMsg \in Nat
    BY <1>3, FramingAssumption DEF IInv, TypeOK
<1>5. /\ \A m \in Ctx \ {n} :
            /\ m \in begun' <=> m \in begun
            /\ m \in closing' <=> m \in closing
            /\ m \in stopped' <=> m \in stopped
            /\ m \in maskless' <=> m \in maskless
            /\ taken'[m] = taken[m] /\ sent'[m] = sent[m] /\ due'[m] = due[m]
      /\ /\ accepted' \in [Ctx -> 0 .. MaxMsg] /\ taken' \in [Ctx -> 0 .. MaxMsg]
         /\ due' \in [Ctx -> 0 .. MaxMsg]
         /\ sent' \in [Ctx -> SUBSET (1 .. MaxMsg)]
         /\ begun' \subseteq Ctx /\ closing' \subseteq Ctx
         /\ stopped' \subseteq Ctx /\ maskless' \subseteq Ctx
      /\ Written(n)'
    <2>1. /\ accepted \in [Ctx -> 0 .. MaxMsg] /\ taken \in [Ctx -> 0 .. MaxMsg]
          /\ due \in [Ctx -> 0 .. MaxMsg]
          /\ sent \in [Ctx -> SUBSET (1 .. MaxMsg)]
          /\ begun \subseteq Ctx /\ closing \subseteq Ctx
          /\ stopped \subseteq Ctx /\ maskless \subseteq Ctx
          /\ Written(n)
        BY <1>3 DEF IInv, TypeOK, Sending
    <2>2. CASE QueueMsg(o)
        BY <1>1, <1>3, <1>4, <2>1, <2>2 DEF QueueMsg, Written, natives
    <2>3. CASE QueueClose(o)
        BY <1>1, <1>3, <1>4, <2>1, <2>3
        DEF QueueClose, Close, Open, messages, Written, natives
    <2>4. CASE WriteRest(o)
        <3>1. /\ n \notin stopped /\ n \in begun /\ begun' = begun \ {n}
              /\ sent' = [sent EXCEPT ![n] = @ \cup {taken[n]}]
              /\ UNCHANGED <<accepted, taken, closing, stopped, due, maskless, role>>
            BY <2>4, <1>1, <1>3 DEF WriteRest, natives
        <3>2. /\ taken[n] \in 1 .. MaxMsg /\ n \notin maskless
              /\ sent'[n] = 1 .. taken[n]
            <4>1. taken[n] # 0 /\ sent[n] = 1 .. (taken[n] - 1)
                  /\ n \notin maskless
                BY <2>1, <3>1 DEF Written
            <4>2. sent'[n] = sent[n] \cup {taken[n]}
                BY <1>3, <2>1, <3>1
            <4>3. taken[n] \in 1 .. MaxMsg
                BY <1>4, <4>1
            <4>4. (1 .. (taken[n] - 1)) \cup {taken[n]} = 1 .. taken[n]
                BY <4>3, <1>4
            <4> QED
                BY <4>1, <4>2, <4>3, <4>4
        <3> QED
            BY <1>3, <2>1, <3>1, <3>2, <1>4 DEF Written
    <2>5. ASSUME NEW rc \in {1, 0, -1}, WriteClose(o, rc)
          PROVE  <1>5!1 /\ <1>5!2 /\ <1>5!3
        BY <1>1, <1>3, <1>4, <2>1, <2>5
        DEF WriteClose, NoMask, Masks, messages, Written, natives
    <2>6. ASSUME NEW rc \in {1, 0, -1}, NEW whole \in BOOLEAN,
                 WriteMsg(o, rc, whole)
          PROVE  <1>5!1 /\ <1>5!2 /\ <1>5!3
        <3>1. /\ n \notin stopped \cup begun \cup closing
              /\ taken[n] < accepted[n]
              /\ taken' = [taken EXCEPT ![n] = @ + 1]
              /\ UNCHANGED <<accepted, closing, due, role>>
              /\ \/ /\ stopped' = stopped \cup {n}
                    /\ maskless' = maskless \cup {n} /\ role[n] = "client"
                    /\ UNCHANGED <<begun, sent>>
                 \/ /\ begun' = begun \cup {n}
                    /\ UNCHANGED <<sent, stopped, maskless>>
                 \/ /\ sent' = [sent EXCEPT ![n] = @ \cup {taken[n] + 1}]
                    /\ UNCHANGED <<begun, stopped, maskless>>
            BY <2>6, <1>1, <1>3 DEF WriteMsg, NoMask, Masks, natives
        <3>2. taken[n] + 1 \in 1 .. MaxMsg /\ taken'[n] = taken[n] + 1
            BY <1>3, <1>4, <2>1, <3>1
        <3>3. sent[n] = 1 .. taken[n] /\ n \notin maskless
            BY <2>1, <3>1 DEF Written
        <3>4. sent[n] \cup {taken[n] + 1} = 1 .. taken'[n]
            BY <1>4, <3>2, <3>3
        <3>5. CASE /\ stopped' = stopped \cup {n}
                   /\ maskless' = maskless \cup {n} /\ role[n] = "client"
                   /\ UNCHANGED <<begun, sent>>
            <4>1. Written(n)'
                BY <1>4, <3>1, <3>3, <3>5 DEF Written
            <4> QED
                BY <1>3, <2>1, <3>1, <3>2, <3>5, <4>1
        <3>6. CASE /\ begun' = begun \cup {n}
                   /\ UNCHANGED <<sent, stopped, maskless>>
            <4>1. taken'[n] - 1 = taken[n] /\ taken'[n] # 0
                BY <1>4, <3>2
            <4>2. Written(n)'
                BY <3>1, <3>3, <3>6, <4>1 DEF Written
            <4> QED
                BY <1>3, <2>1, <3>1, <3>2, <3>6, <4>2
        <3>7. CASE /\ sent' = [sent EXCEPT ![n] = @ \cup {taken[n] + 1}]
                   /\ UNCHANGED <<begun, stopped, maskless>>
            <4>1. sent'[n] = 1 .. taken'[n]
                BY <1>3, <2>1, <3>4, <3>7
            <4>2. Written(n)'
                BY <3>1, <3>3, <3>7, <4>1 DEF Written
            <4> QED
                BY <1>3, <1>4, <2>1, <3>1, <3>2, <3>7, <4>2
        <3> QED
            BY <3>1, <3>5, <3>6, <3>7
    <2> QED
        BY <2>2, <2>3, <2>4, <2>5, <2>6
<1>6. Sending'
    <2>1. \A m \in Ctx : Written(m)'
        <3>1. \A m \in Ctx \ {n} : Written(m)'
            BY <1>1, <1>5 DEF IInv, Sending, Written, natives
        <3> QED
            BY <1>5, <3>1
    <2> QED
        BY <2>1 DEF Sending
<1>7. TypeOK' /\ Fresh'
    BY <1>1, <1>3, <1>5
    DEF IInv, TypeOK, Fresh, objects, natives, history
<1> QED
    BY <1>2, <1>6, <1>7 DEF IInv

\* An operation on nothing, or on what a copy has freed.
LEMMA Misuses ==
    ASSUME IInv, crash = "no", NEW o \in Obj, Misuse(o)
    PROVE  IInv'
<1>1. UNCHANGED <<objects, fns, natives, frames, run, history>>
    BY DEF Misuse
<1>2. crash' \in {"assertion", "freedInUse"}
    BY DEF Misuse
<1>3. crash' = "freedInUse" => o \in copied
    BY DEF Misuse, Native, IInv, OnlyCopiesShare
<1>4. TypeOK' /\ Fresh' /\ Current' /\ KnowsItsObject' /\ CalledAlive'
          /\ Sending'
    BY <1>1, <1>2
    DEF IInv, TypeOK, Fresh, Current, KnowsItsObject, CalledAlive,
        Sending, Written, objects, natives, frames, messages, history
<1>5. OnlyCopiesShare'
    BY <1>1, <1>2, <1>3
    DEF IInv, OnlyCopiesShare, objects, natives, history
<1> QED
    BY <1>4, <1>5 DEF IInv

-----------------------------------------------------------------------------
\* wslay calls back the object that it knows.
LEMMA Calls ==
    ASSUME IInv, crash = "no", NEW f \in Fn, run.at \in {"loop", "data"},
           Callback(f)
    PROVE  /\ run' \in [ctx : Ctx, at : Fn] /\ run'.at = f
           /\ run'.ctx = run.ctx
           /\ crash' = "deadContextCalled" => run.ctx \in left \cup over
           /\ crash' \in {"no", "deadContextCalled", "assertion",
                          "nullFunctionCalled"}
<1>1. /\ run \in [ctx : Ctx \cup {None}, at : {"idle", "loop", "data"} \cup Fn]
      /\ run.ctx \in Ctx /\ ctx[run.ctx] = "live"
    BY DEF IInv, TypeOK, Current
<1>2. run' = [run EXCEPT !.at = f]
    BY DEF Callback
<1>3. crash' = "deadContextCalled" => life[user[run.ctx]] = "raw"
    BY DEF Callback
<1>4. life[user[run.ctx]] = "raw" => run.ctx \in left \cup over
    BY <1>1 DEF IInv, KnowsItsObject
<1>5. crash' \in {"no", "deadContextCalled", "assertion",
                  "nullFunctionCalled"}
    BY DEF Callback
<1> QED
    BY <1>1, <1>2, <1>3, <1>4, <1>5 DEF Fn

\* Nothing that is received changes what is written, but for a close frame.
LEMMA FramesKept ==
    ASSUME IInv, UNCHANGED <<messages, stopped, maskless, ctx, role>>,
           deaf' \subseteq Ctx,
           UNCHANGED <<closing, due>> \/ (Close(run.ctx) /\ run.at = "data")
    PROVE  /\ Sending'
           /\ closing' \subseteq Ctx /\ due' \in [Ctx -> 0 .. MaxMsg]
           /\ \A n \in Ctx : ctx[n] = "new" => n \notin closing'
<1>1. /\ due \in [Ctx -> 0 .. MaxMsg] /\ taken \in [Ctx -> 0 .. MaxMsg]
      /\ closing \subseteq Ctx /\ Sending
      /\ \A n \in Ctx : ctx[n] = "new" => n \notin closing
    BY DEF IInv, TypeOK, Fresh
<1>2. CASE UNCHANGED <<closing, due>>
    BY <1>1, <1>2 DEF Sending, Written, messages
<1>3. CASE Close(run.ctx) /\ run.at = "data"
    <2>1. PICK n \in Ctx : n = run.ctx /\ ctx[n] = "live"
        BY <1>3, NoneApart DEF IInv, Current, TypeOK
    <2>2. CASE UNCHANGED <<closing, due>>
        BY <1>1, <2>2 DEF Sending, Written, messages
    <2>3. CASE Open(n) /\ closing' = closing \cup {n}
               /\ due' = [due EXCEPT ![n] = taken[n]]
        <3>1. \A m \in Ctx : Written(m)'
            BY <1>1, <2>1, <2>3 DEF Sending, Written, Open, messages
        <3> QED
            BY <1>1, <2>1, <2>3, <3>1 DEF Sending, Written
    <2> QED
        BY <1>3, <2>1, <2>2, <2>3 DEF Close
<1> QED
    BY <1>2, <1>3

\* receive(), and the steps of wslay_event_recv.
LEMMA ReceiveSteps ==
    ASSUME IInv, crash = "no",
           \/ \E o \in Obj : Receive(o)
           \/ RecvCb
           \/ \E next \in {"data", "loop", "idle", "error"} :
                CallbackReturns(next)
           \/ Partial
           \/ Invalid
           \/ \E close \in BOOLEAN : MsgCb(close)
    PROVE  IInv'
<1>1. UNCHANGED <<life, handler, wslay, holder, fns, ctx, user, role, copied,
                  left, over, messages, stopped, maskless>>
    BY DEF Receive, RecvCb, CallbackReturns, Partial, Invalid, MsgCb, Answer,
           objects, natives, frames, history
<1>2. KnowsItsObject'
    BY <1>1 DEF IInv, KnowsItsObject
<1>3. /\ run \in [ctx : Ctx \cup {None}, at : {"idle", "loop", "data"} \cup Fn]
      /\ run.at # "idle" => run.ctx \in Ctx
      /\ deaf \subseteq Ctx
    BY DEF IInv, TypeOK, Current
<1>4. /\ UNCHANGED <<closing, due>> \/ (Close(run.ctx) /\ run.at = "data")
      /\ deaf' \subseteq Ctx
    <2>1. ASSUME UNCHANGED frames
          PROVE  <1>4!1 /\ <1>4!2
        BY <1>3, <2>1 DEF frames
    <2>2. ASSUME Answer, run.at = "data"
          PROVE  <1>4!1 /\ <1>4!2
        BY <1>3, <2>2 DEF Answer
    <2>3. ASSUME NEW next \in {"data", "loop", "idle", "error"},
                 CallbackReturns(next)
          PROVE  <1>4!1 /\ <1>4!2
        BY <1>3, <2>3 DEF CallbackReturns, Fn
    <2> QED
        BY <2>1, <2>2, <2>3 DEF Receive, RecvCb, Partial, Invalid, MsgCb
<1>5. /\ Sending'
      /\ closing' \subseteq Ctx /\ due' \in [Ctx -> 0 .. MaxMsg]
      /\ \A n \in Ctx : ctx[n] = "new" => n \notin closing'
    BY <1>1, <1>4, FramesKept
<1>6. /\ run' \in [ctx : Ctx \cup {None}, at : {"idle", "loop", "data"} \cup Fn]
      /\ Current'
      /\ crash' \in {"no", "deadContextCalled", "assertion",
                     "nullFunctionCalled", "freedInCallback"}
      /\ crash' = "deadContextCalled" => run'.ctx \in left \cup over
    <2>2. ASSUME NEW o \in Obj, Receive(o)
          PROVE  <1>6!1 /\ <1>6!2 /\ <1>6!3 /\ <1>6!4
        BY <1>1, <1>3, <2>2, NoneApart
        DEF Receive, Native, Current, Fn, IInv, TypeOK
    <2>3. CASE RecvCb
        BY <1>1, <1>3, <2>3, Calls, NoneApart DEF RecvCb, Current, Fn, IInv
    <2>4. ASSUME NEW next \in {"data", "loop", "idle", "error"},
                 CallbackReturns(next)
          PROVE  <1>6!1 /\ <1>6!2 /\ <1>6!3 /\ <1>6!4
        BY <1>1, <1>3, <2>4, NoneApart
        DEF CallbackReturns, Current, Fn, IInv, TypeOK, Idle
    <2>5. CASE Partial
        BY <1>1, <1>3, <2>5, NoneApart DEF Partial, Current, Fn, IInv
    <2>6. ASSUME NEW close \in BOOLEAN, MsgCb(close)
          PROVE  <1>6!1 /\ <1>6!2 /\ <1>6!3 /\ <1>6!4
        <3>1. ctx[run.ctx] = "live"
            BY <2>6 DEF MsgCb, IInv, Current
        <3> QED
            BY <1>1, <1>3, <2>6, <3>1, Calls, NoneApart
            DEF MsgCb, Current, Fn, IInv
    <2>7. CASE Invalid
        BY <1>1, <1>3, <2>7, NoneApart DEF Invalid, Current, Fn, IInv, Idle
    <2> QED
        BY <2>2, <2>3, <2>4, <2>5, <2>6, <2>7
<1>7. TypeOK' /\ Fresh' /\ CalledAlive' /\ OnlyCopiesShare'
    BY <1>1, <1>4, <1>5, <1>6
    DEF IInv, TypeOK, Fresh, CalledAlive, OnlyCopiesShare, messages
<1> QED
    BY <1>2, <1>5, <1>6, <1>7 DEF IInv

-----------------------------------------------------------------------------
\* Every step preserves the invariant.
LEMMA FramingInductive == IInv /\ [Next]_vars => IInv'
<1>1. ASSUME IInv, crash = "no", UserRuns, User
      PROVE  IInv'
    <2>1. ASSUME NEW o \in Obj,
                 \/ Destruct(o) \/ MakeFails(o) \/ Misuse(o)
                 \/ Destroy(o) \/ Hold(o) \/ HolderEnds(o)
                 \/ QueueMsg(o) \/ QueueClose(o)
                 \/ WriteRest(o)
                 \/ \E rc \in {1, 0, -1} : WriteClose(o, rc)
                 \/ \E rc \in {1, 0, -1}, whole \in BOOLEAN :
                        WriteMsg(o, rc, whole)
          PROVE  IInv'
        BY <1>1, <2>1, Ends, MakesNothing, Misuses, HolderSteps, FrameSteps
    <2>2. ASSUME NEW o \in Obj, NEW h \in Hnd, Construct(o, h)
          PROVE  IInv'
        BY <1>1, <2>2, Constructs
    <2>3. ASSUME NEW o \in Obj, NEW that \in Obj, Copy(o, that)
          PROVE  IInv'
        BY <1>1, <2>3, Copies
    <2>4. ASSUME NEW o \in Obj, NEW n \in Ctx,
                 NEW r \in {"client", "server"}, Make(o, n, r)
          PROVE  IInv'
        BY <1>1, <2>4, Makes
    <2>5. ASSUME NEW h \in Hnd, NEW f \in Fn, Set(h, f)
          PROVE  IInv'
        BY <1>1, <2>5, SetSteps
    <2>6. ASSUME NEW o \in Obj, Receive(o)
          PROVE  IInv'
        BY <1>1, <2>6, ReceiveSteps
    <2> QED
        BY <1>1, <2>1, <2>2, <2>3, <2>4, <2>5, <2>6 DEF User
<1>2. ASSUME IInv, UNCHANGED vars
      PROVE  IInv'
    BY <1>2
    DEF IInv, TypeOK, Fresh, Current, KnowsItsObject, OnlyCopiesShare,
        CalledAlive, Sending, Written, vars, objects, natives, frames, messages, history
<1>3. ASSUME IInv, Next
      PROVE  IInv'
    BY <1>1, <1>3, ReceiveSteps DEF Next
<1> QED
    BY <1>2, <1>3

\* The invariant of Framing holds in every state it reaches.
THEOREM FramingInvariance == Spec => []IInv
BY FramingInitially, FramingInductive, PTL DEF Spec

\* Every variable keeps its type.
THEOREM FramingTypeCorrect == Spec => []TypeOK
<1>1. IInv => TypeOK
    BY DEF IInv
<1> QED
    BY <1>1, FramingInvariance, PTL

\* wslay calls back the object that owns the event context, through copies,
\* destroy() in a callback and holders, as long as no object is left or made
\* anew without destroy().
THEOREM CalledBackObject == Spec => []KnowsItsObject
<1>1. IInv => KnowsItsObject
    BY DEF IInv
<1> QED
    BY <1>1, FramingInvariance, PTL

\* Without copies no event context is shared, freed twice or used after it was
\* freed, and a dead object is called only through one that was left without
\* destroy().
THEOREM ContextSafety == Spec => []ContextsApart
<1>1. IInv => ContextsApart
    BY DEF IInv, ContextsApart
<1> QED
    BY <1>1, FramingInvariance, PTL

\* An event context has written, when it writes no more, all it took up before
\* its close frame was queued and nothing after that frame, or is a client whose
\* genmask failed; what it wrote has no gaps.
THEOREM CloseOvertakes == Spec => []OnlyCloseOvertakes
<1>1. ASSUME IInv
      PROVE  OnlyCloseOvertakes
    <2>1. \A n \in Ctx : Written(n)
        BY <1>1 DEF IInv, Sending
    <2>2. /\ stopped \subseteq Ctx /\ maskless \subseteq Ctx
          /\ taken \in [Ctx -> 0 .. MaxMsg] /\ MaxMsg \in Nat
        BY <1>1, FramingAssumption DEF IInv, TypeOK
    <2>3. /\ \A n \in stopped \ maskless : n \in closing \ begun /\ sent[n] = 1 .. due[n]
          /\ \A n \in maskless : role[n] = "client"
        BY <2>1, <2>2 DEF Written
    <2>4. ASSUME NEW n \in Ctx
          PROVE  \A i \in sent[n] : 1 .. i \subseteq sent[n]
        <3>1. PICK k \in Int : sent[n] = 1 .. k
            BY <2>1, <2>2 DEF Written
        <3> QED
            BY <3>1
    <2> QED
        BY <2>3, <2>4 DEF OnlyCloseOvertakes
<1> QED
    BY <1>1, FramingInvariance, PTL

-----------------------------------------------------------------------------
(* OutHeaders.                                                              *)

\* What does not live has no list and no transfer.
Bare ==
    /\ \A o \in Out!Holder \ live : slist[o] = None
    /\ busy \subseteq live

\* A list that was not made is nobody's, and was not lost.
Unmade ==
    \A l \in List : list[l] = "new" =>
        l \notin lost /\ \A o \in Out!Holder : slist[o] # l

\* An easy handle that was given headers of its operation only has its list, or
\* one that a failed append has lost and that nobody will free.
HandleHas(op) ==
    opt[op] # None =>
        /\ list[opt[op]] = "live"
        /\ \/ opt[op] = slist[op]
           \/ opt[op] \in lost /\ \A o \in Out!Holder : slist[o] # opt[op]

Handles == \A op \in (live \cap Op) \ given : HandleHas(op)

\* The inductive invariant.
OutInv ==
    /\ Out!TypeOK
    /\ Bare /\ Unmade /\ Handles
    /\ Out!ListsFreed /\ Out!SentAlive /\ Out!SentIsPushed

\* The constants, at hand.
LEMMA OutConstants ==
    /\ Op \cap Own = {} /\ None \notin Op \cup Own \cup List
    /\ None \notin {"freedInUse", "freedTwice", "freedWhileSent"}
    /\ Out!Holder = Op \cup Own
BY ExchangeAssumption DEF Out!OutHeadersAssumption, Out!Holder

\* The invariant holds in the initial states.
LEMMA OutInitially == Out!Init => OutInv
<1> USE OutConstants
<1> SUFFICES ASSUME Out!Init
             PROVE  OutInv
    OBVIOUS
<1>1. Out!TypeOK
    BY DEF Out!Init, Out!TypeOK
<1>2. Bare /\ Unmade /\ Handles
    BY DEF Out!Init, Bare, Unmade, Handles
<1>3. Out!ListsFreed /\ Out!SentAlive /\ Out!SentIsPushed
    BY DEF Out!Init, Out!ListsFreed, Out!SentAlive, Out!SentIsPushed
<1> QED
    BY <1>1, <1>2, <1>3 DEF OutInv

\* An operation that lives is never a copy, and what is not a copy is alone
\* with its list.
LEMMA Alone ==
    ASSUME OutInv, NEW o \in live \ listCopied, slist[o] # None,
           NEW p \in Out!Holder, p # o
    PROVE  slist[p] # slist[o]
<1>1. CASE p \in live
    BY <1>1 DEF OutInv, Out!ListsFreed
<1>2. CASE p \notin live
    BY <1>2 DEF OutInv, Bare
<1> QED
    BY <1>1, <1>2

LEMMA OpsUncopied == OutInv => Op \cap listCopied = {}
BY OutConstants DEF OutInv, Out!TypeOK

\* A list is given a line, or a failed append takes it away.
LEMMA OutPushes ==
    ASSUME OutInv, outCrash = None, NEW o \in Out!Holder, NEW l \in List,
           Out!Push(o, l)
    PROVE  OutInv'
<1> USE OutConstants
<1>1. /\ o \in live /\ slist' = [slist EXCEPT ![o] = l]
      /\ list' = [list EXCEPT ![l] = IF @ = "new" THEN "live" ELSE @]
      /\ UNCHANGED <<live, opt, busy, lost, listCopied, given>>
      /\ late' = IF o \in busy /\ slist[o] = None THEN late \cup {o} ELSE late
      /\ outCrash' = IF list[l] = "freed" THEN "freedInUse" ELSE None
    BY DEF Out!Push
<1>2. Out!TypeOK'
    BY <1>1 DEF OutInv, Out!TypeOK
<1>3. CASE slist[o] = None
    <2>1. list[l] = "new" /\ l \notin lost /\ \A p \in Out!Holder : slist[p] # l
        BY <1>3 DEF Out!Push, OutInv, Unmade
    <2>2. /\ list' = [list EXCEPT ![l] = "live"] /\ outCrash' = None
          /\ o \in busy => o \in late'
        BY <1>1, <1>3, <2>1 DEF OutInv, Out!TypeOK
    <2>3. Bare' /\ Unmade'
        BY <1>1, <2>1, <2>2 DEF OutInv, Bare, Unmade, Out!TypeOK
    <2>4. Handles'
        <3> SUFFICES ASSUME NEW op \in (live \cap Op) \ given, opt[op] # None
                     PROVE  HandleHas(op)'
            BY <1>1 DEF Handles, HandleHas
        <3>1. HandleHas(op) /\ opt[op] \in List
            BY DEF OutInv, Handles, Out!TypeOK
        <3>2. opt[op] # l /\ list'[opt[op]] = "live"
            BY <2>1, <2>2, <3>1 DEF OutInv, Out!TypeOK, HandleHas
        <3> QED
            BY <1>1, <1>3, <2>2, <3>1, <3>2 DEF OutInv, Out!TypeOK, HandleHas
    <2>5. Out!ListsFreed'
        <3>1. ASSUME NEW k \in List, list'[k] = "live", k \notin lost
              PROVE  \E p \in live : slist'[p] = k
            <4>1. CASE k = l
                BY <1>1, <4>1 DEF OutInv, Out!TypeOK
            <4>2. CASE k # l
                <5>1. PICK p \in live : slist[p] = k
                    BY <2>2, <3>1, <4>2 DEF OutInv, Out!TypeOK, Out!ListsFreed
                <5>2. p # o
                    BY <1>3, <5>1
                <5> QED
                    BY <1>1, <5>1, <5>2 DEF OutInv, Out!TypeOK
            <4> QED
                BY <4>1, <4>2
        <3>2. ASSUME NEW p \in live \ listCopied, slist'[p] # None
              PROVE  /\ list'[slist'[p]] = "live"
                     /\ \A q \in live : slist'[q] = slist'[p] => q = p
            <4>1. CASE p = o
                BY <1>1, <2>1, <2>2, <4>1 DEF OutInv, Out!TypeOK
            <4>2. CASE p # o
                <5>1. slist'[p] = slist[p] /\ slist[p] # l
                    BY <1>1, <2>1, <4>2 DEF OutInv, Out!TypeOK
                <5> QED
                    BY <1>1, <2>2, <3>2, <5>1
                    DEF OutInv, Out!TypeOK, Out!ListsFreed
            <4> QED
                BY <4>1, <4>2
        <3> QED
            BY <1>1, <2>2, <3>1, <3>2 DEF Out!ListsFreed
    <2>6. Out!SentAlive' /\ Out!SentIsPushed'
        BY <1>1, <1>3, <2>2 DEF OutInv, Out!TypeOK, Out!SentAlive, Out!SentIsPushed
    <2> QED
        BY <1>2, <2>3, <2>4, <2>5, <2>6 DEF OutInv
<1>4. CASE slist[o] # None
    <2>1. slist[o] = l /\ list[l] # "new" /\ slist' = slist /\ list' = list /\ late' = late
        BY <1>1, <1>4 DEF Out!Push, OutInv, Unmade, Out!TypeOK
    <2>2. outCrash' = "freedInUse" => o \in listCopied
        BY <1>1, <1>4, <2>1 DEF OutInv, Out!ListsFreed
    <2>3. Bare' /\ Unmade' /\ Handles'
        BY <1>1, <2>1 DEF OutInv, Bare, Unmade, Handles, HandleHas
    <2>4. Out!ListsFreed' /\ Out!SentAlive' /\ Out!SentIsPushed'
        BY <1>1, <2>1, <2>2
        DEF OutInv, Out!ListsFreed, Out!SentAlive, Out!SentIsPushed
    <2> QED
        BY <1>2, <2>3, <2>4 DEF OutInv
<1> QED
    BY <1>3, <1>4

LEMMA OutPushFails ==
    ASSUME OutInv, outCrash = None, NEW o \in Out!Holder, Out!PushFails(o)
    PROVE  OutInv'
<1> USE OutConstants
<1>1. /\ o \in live /\ slist' = [slist EXCEPT ![o] = None]
      /\ lost' = lost \cup ({slist[o]} \ {None})
      /\ UNCHANGED <<live, list, opt, busy, listCopied, given, late, outCrash>>
    BY DEF Out!PushFails
<1>2. Out!TypeOK'
    BY <1>1 DEF OutInv, Out!TypeOK
<1>3. Bare' /\ Unmade'
    BY <1>1 DEF OutInv, Bare, Unmade, Out!TypeOK
<1>4. Handles'
    <2> SUFFICES ASSUME NEW op \in (live \cap Op) \ given, opt[op] # None
                 PROVE  HandleHas(op)'
        BY <1>1 DEF Handles, HandleHas
    <2>1. HandleHas(op) /\ op \notin listCopied
        BY OpsUncopied DEF OutInv, Handles
    <2>2. CASE opt[op] = slist[op] /\ op = o
        <3>1. \A p \in Out!Holder : p # o => slist[p] # slist[o]
            BY <2>1, <2>2, Alone
        <3> QED
            BY <1>1, <2>1, <2>2, <3>1 DEF OutInv, Out!TypeOK, HandleHas
    <2>3. CASE ~(opt[op] = slist[op] /\ op = o)
        BY <1>1, <2>1, <2>3 DEF OutInv, Out!TypeOK, HandleHas
    <2> QED
        BY <2>2, <2>3
<1>5. Out!ListsFreed'
    BY <1>1 DEF OutInv, Out!TypeOK, Out!ListsFreed
<1>6. Out!SentAlive' /\ Out!SentIsPushed'
    BY <1>1 DEF OutInv, Out!TypeOK, Out!SentAlive, Out!SentIsPushed
<1> QED
    BY <1>2, <1>3, <1>4, <1>5, <1>6 DEF OutInv

\* A list of the caller is copied: the copy has the same list as the original.
LEMMA OutCopies ==
    ASSUME OutInv, outCrash = None, NEW o \in Out!Holder, NEW that \in Out!Holder,
           Out!CopyConstruct(o, that) \/ Out!CopyAssign(o, that)
    PROVE  OutInv'
<1> USE OutConstants
<1>1. /\ o \in Own /\ that \in Own \cap live /\ o # that
      /\ live' = live \cup {o} /\ slist' = [slist EXCEPT ![o] = slist[that]]
      /\ listCopied' = listCopied \cup {o, that}
      /\ lost' = lost \cup ({slist[o]} \ {None})
      /\ UNCHANGED <<list, opt, busy, given, late, outCrash>>
    BY DEF Out!CopyConstruct, Out!CopyAssign, OutInv, Bare
<1>2. Out!TypeOK'
    BY <1>1 DEF OutInv, Out!TypeOK
<1>3. Bare' /\ Unmade'
    BY <1>1 DEF OutInv, Bare, Unmade, Out!TypeOK
<1>4. Handles'
    <2> SUFFICES ASSUME NEW op \in (live \cap Op) \ given, opt[op] # None
                 PROVE  HandleHas(op)'
        BY <1>1 DEF Handles, HandleHas
    <2>1. HandleHas(op) /\ op # o
        BY <1>1 DEF OutInv, Handles
    <2> QED
        BY <1>1, <2>1 DEF OutInv, Out!TypeOK, HandleHas
<1>5. Out!ListsFreed'
    <2>1. ASSUME NEW l \in List, list'[l] = "live", l \notin lost'
          PROVE  \E p \in live' : slist'[p] = l
        <3>1. PICK p \in live : slist[p] = l
            BY <1>1, <2>1 DEF OutInv, Out!ListsFreed
        <3>2. p # o
            BY <1>1, <2>1, <3>1
        <3> QED
            BY <1>1, <3>1, <3>2 DEF OutInv, Out!TypeOK
    <2>2. ASSUME NEW p \in live' \ listCopied', slist'[p] # None
          PROVE  /\ list'[slist'[p]] = "live"
                 /\ \A q \in live' : slist'[q] = slist'[p] => q = p
        <3>1. p \in live \ listCopied /\ p # o /\ p # that /\ slist'[p] = slist[p]
            BY <1>1, <2>2 DEF OutInv, Out!TypeOK
        <3>2. /\ list[slist[p]] = "live"
              /\ \A q \in live : slist[q] = slist[p] => q = p
            BY <2>2, <3>1 DEF OutInv, Out!ListsFreed
        <3>3. slist'[o] # slist[p]
            BY <1>1, <3>1, <3>2 DEF OutInv, Out!TypeOK
        <3> QED
            BY <1>1, <3>1, <3>2, <3>3 DEF OutInv, Out!TypeOK
    <2> QED
        BY <1>1, <2>1, <2>2 DEF OutInv, Out!ListsFreed
<1>6. Out!SentAlive' /\ Out!SentIsPushed'
    BY <1>1 DEF OutInv, Out!TypeOK, Out!SentAlive, Out!SentIsPushed
<1> QED
    BY <1>2, <1>3, <1>4, <1>5, <1>6 DEF OutInv

\* reset() and the destructors: a list is freed, which only copies share.
LEMMA OutFrees ==
    ASSUME OutInv, outCrash = None, NEW o \in Out!Holder,
           Out!Reset(o) \/ Out!Destruct(o)
    PROVE  OutInv'
<1> USE OutConstants
<1>1. /\ o \in live /\ o \notin busy
      /\ slist' = [slist EXCEPT ![o] = None]
      /\ list' = [l \in List |-> IF l = slist[o] THEN "freed" ELSE list[l]]
      /\ live' \in {live, live \ {o}} /\ (live' = live => o \notin Op)
      /\ given' \subseteq given /\ given \ given' \subseteq {o}
      /\ late' \subseteq late /\ late \ late' \subseteq {o}
      /\ UNCHANGED <<opt, busy, lost, listCopied>>
      /\ outCrash' = IF slist[o] # None /\ list[slist[o]] = "freed"
                     THEN "freedTwice" ELSE None
    BY DEF Out!Reset, Out!Destruct, Out!Free, Out!history, OutInv, Out!TypeOK
<1>2. Out!TypeOK'
    BY <1>1 DEF OutInv, Out!TypeOK
<1>3. Bare' /\ Unmade'
    BY <1>1 DEF OutInv, Bare, Unmade, Out!TypeOK
<1>4. Handles'
    <2> SUFFICES ASSUME NEW op \in (live' \cap Op) \ given', opt[op] # None
                 PROVE  HandleHas(op)'
        BY <1>1 DEF Handles, HandleHas
    <2>1. op \in live /\ op # o /\ op \notin given
        BY <1>1
    <2>2. HandleHas(op) /\ op \notin listCopied /\ opt[op] \in List
        BY <2>1, OpsUncopied DEF OutInv, Handles, Out!TypeOK
    <2>3. opt[op] # slist[o]
        <3>1. CASE opt[op] = slist[op]
            BY <1>1, <2>1, <2>2, <3>1, Alone
        <3>2. CASE opt[op] # slist[op]
            BY <2>2, <3>2 DEF HandleHas
        <3> QED
            BY <3>1, <3>2
    <2> QED
        BY <1>1, <2>1, <2>2, <2>3 DEF OutInv, Out!TypeOK, HandleHas
<1>5. Out!ListsFreed'
    <2>1. ASSUME NEW l \in List, list'[l] = "live", l \notin lost
          PROVE  \E p \in live' : slist'[p] = l
        <3>1. list[l] = "live" /\ slist[o] # l
            BY <1>1, <2>1
        <3>2. PICK p \in live : slist[p] = l
            BY <2>1, <3>1 DEF OutInv, Out!ListsFreed
        <3> QED
            BY <1>1, <3>1, <3>2 DEF OutInv, Out!TypeOK
    <2>2. ASSUME NEW p \in live' \ listCopied, slist'[p] # None
          PROVE  /\ list'[slist'[p]] = "live"
                 /\ \A q \in live' : slist'[q] = slist'[p] => q = p
        <3>1. p \in live \ listCopied /\ p # o /\ slist'[p] = slist[p]
            BY <1>1, <2>2 DEF OutInv, Out!TypeOK
        <3>2. /\ list[slist[p]] = "live" /\ slist[p] \in List
              /\ \A q \in live : slist[q] = slist[p] => q = p
            BY <2>2, <3>1 DEF OutInv, Out!ListsFreed, Out!TypeOK
        <3>3. slist[o] # slist[p]
            BY <1>1, <3>1, <3>2
        <3> QED
            BY <1>1, <3>1, <3>2, <3>3 DEF OutInv, Out!TypeOK
    <2>3. outCrash' \in {"freedInUse", "freedTwice"} => listCopied # {}
        BY <1>1 DEF OutInv, Out!ListsFreed
    <2> QED
        BY <1>1, <2>1, <2>2, <2>3 DEF Out!ListsFreed
<1>6. Out!SentAlive'
    BY <1>1 DEF Out!SentAlive
<1>7. Out!SentIsPushed'
    BY <1>1 DEF OutInv, Out!TypeOK, Out!SentIsPushed
<1> QED
    BY <1>2, <1>3, <1>4, <1>5, <1>6, <1>7 DEF OutInv

\* Objects are made, and transfers begin, read and end.
LEMMA OutTransfers ==
    ASSUME OutInv, outCrash = None,
           \/ \E o \in Out!Holder : Out!Construct(o)
           \/ \E op \in Op, ok \in BOOLEAN : Out!Perform(op, ok)
           \/ \E op \in Op, o \in Own : Out!Apply(o, op)
           \/ \E op \in Op : Out!Send(op) \/ Out!End(op)
    PROVE  OutInv'
<1> USE OutConstants
<1>1. ASSUME NEW o \in Out!Holder, Out!Construct(o)
      PROVE  OutInv'
    <2>1. /\ o \notin live /\ live' = live \cup {o} /\ o \notin busy
          /\ slist[o] = None
          /\ UNCHANGED <<slist, list, busy, lost, listCopied, given, late, outCrash>>
          /\ opt' = IF o \in Op THEN [opt EXCEPT ![o] = None] ELSE opt
        BY <1>1 DEF Out!Construct, Out!history, OutInv, Bare
    <2>2. Out!TypeOK'
        BY <2>1 DEF OutInv, Out!TypeOK
    <2>3. Bare' /\ Unmade'
        BY <2>1 DEF OutInv, Bare, Unmade
    <2>4. Handles'
        BY <2>1 DEF OutInv, Out!TypeOK, Handles, HandleHas
    <2>5. Out!ListsFreed' /\ Out!SentAlive'
        BY <2>1 DEF OutInv, Out!ListsFreed, Out!SentAlive
    <2>6. Out!SentIsPushed'
        BY <2>1 DEF OutInv, Out!TypeOK, Out!SentIsPushed
    <2> QED
        BY <2>2, <2>3, <2>4, <2>5, <2>6 DEF OutInv
<1>2. ASSUME NEW op \in Op, NEW ok \in BOOLEAN, Out!Perform(op, ok)
      PROVE  OutInv'
    <2>1. /\ op \in live /\ busy \subseteq busy' /\ busy' \subseteq busy \cup {op}
          /\ UNCHANGED <<live, slist, list, lost, listCopied, given, late, outCrash>>
          /\ opt' = IF slist[op] = None THEN opt ELSE [opt EXCEPT ![op] = slist[op]]
        BY <1>2 DEF Out!Perform, Out!history
    <2>2. Out!TypeOK'
        BY <2>1 DEF OutInv, Out!TypeOK
    <2>3. Bare' /\ Unmade' /\ Out!ListsFreed' /\ Out!SentAlive'
        BY <2>1 DEF OutInv, Bare, Unmade, Out!ListsFreed, Out!SentAlive
    <2>4. slist[op] # None => list[slist[op]] = "live"
        BY <2>1, OpsUncopied DEF OutInv, Out!ListsFreed
    <2>5. Handles'
        BY <2>1, <2>4 DEF OutInv, Out!TypeOK, Handles, HandleHas
    <2>6. Out!SentIsPushed'
        BY <2>1 DEF OutInv, Out!TypeOK, Out!SentIsPushed, Handles, HandleHas
    <2> QED
        BY <2>2, <2>3, <2>5, <2>6 DEF OutInv
<1>3. ASSUME NEW op \in Op, NEW o \in Own, Out!Apply(o, op)
      PROVE  OutInv'
    <2>1. /\ opt' = [opt EXCEPT ![op] = slist[o]] /\ given' = given \cup {op}
          /\ UNCHANGED <<live, slist, list, busy, lost, listCopied, late, outCrash>>
        BY <1>3 DEF Out!Apply
    <2>2. Out!TypeOK'
        BY <2>1 DEF OutInv, Out!TypeOK
    <2>3. Bare' /\ Unmade' /\ Out!ListsFreed' /\ Out!SentAlive'
        BY <2>1 DEF OutInv, Bare, Unmade, Out!ListsFreed, Out!SentAlive
    <2>4. Handles' /\ Out!SentIsPushed'
        BY <2>1 DEF OutInv, Out!TypeOK, Handles, HandleHas, Out!SentIsPushed
    <2> QED
        BY <2>2, <2>3, <2>4 DEF OutInv
<1>4. ASSUME NEW op \in Op, Out!Send(op)
      PROVE  OutInv'
    <2>1. /\ op \in busy /\ opt[op] # None /\ list[opt[op]] = "freed"
          /\ outCrash' = "freedWhileSent"
          /\ UNCHANGED <<live, slist, list, opt, busy, lost, listCopied, given, late>>
        BY <1>4 DEF Out!Send, Out!history
    <2>2. op \in given
        BY <2>1 DEF OutInv, Bare, Handles, HandleHas
    <2> QED
        BY <2>1, <2>2
        DEF OutInv, Out!TypeOK, Bare, Unmade, Handles, HandleHas,
            Out!ListsFreed, Out!SentAlive, Out!SentIsPushed
<1>5. ASSUME NEW op \in Op, Out!End(op)
      PROVE  OutInv'
    <2>1. /\ busy' = busy \ {op} /\ late' = late \ {op}
          /\ UNCHANGED <<live, slist, list, opt, lost, listCopied, given, outCrash>>
        BY <1>5 DEF Out!End
    <2> QED
        BY <2>1
        DEF OutInv, Out!TypeOK, Bare, Unmade, Handles, HandleHas,
            Out!ListsFreed, Out!SentAlive, Out!SentIsPushed
<1> QED
    BY <1>1, <1>2, <1>3, <1>4, <1>5

LEMMA OutInductive == OutInv /\ [Out!Next]_outVars => OutInv'
<1>1. ASSUME OutInv, Out!Next
      PROVE  OutInv'
    BY <1>1, OutPushes, OutPushFails, OutCopies, OutFrees, OutTransfers DEF Out!Next
<1>2. ASSUME OutInv, UNCHANGED outVars
      PROVE  OutInv'
    BY <1>2
    DEF outVars, OutInv, Out!TypeOK, Bare, Unmade, Handles, HandleHas,
        Out!ListsFreed, Out!SentAlive, Out!SentIsPushed
<1> QED
    BY <1>1, <1>2

-----------------------------------------------------------------------------
(* Response.                                                                *)

\* HeadersProofs is about Headers.
LEMMA HeadersSame ==
    /\ Headers!ResponseAssumption => HeadersProofs!ResponseAssumption
    /\ Headers!Init => HeadersProofs!Init
    /\ Headers!Next => HeadersProofs!Next
    /\ HeadersProofs!TypeOK => Headers!TypeOK
<1>1. Headers!ResponseAssumption => HeadersProofs!ResponseAssumption
    BY DEF Headers!ResponseAssumption, HeadersProofs!ResponseAssumption
<1>2. Headers!Init => HeadersProofs!Init
    BY DEF Headers!Init, Headers!Hashes, HeadersProofs!Init, HeadersProofs!Hashes
<1>3. Headers!Next => HeadersProofs!Next
    BY
    DEF Headers!Next, HeadersProofs!Next, Headers!Perform,
        HeadersProofs!Perform, Headers!Reset, HeadersProofs!Reset,
        Headers!Assign, HeadersProofs!Assign, Headers!Called,
        HeadersProofs!Called, Headers!DeadCalled, HeadersProofs!DeadCalled,
        Headers!Line, HeadersProofs!Line, Headers!Inserted,
        HeadersProofs!Inserted, Headers!PutAt, HeadersProofs!PutAt,
        Headers!Hash, HeadersProofs!Hash, Headers!Hashes,
        HeadersProofs!Hashes, Headers!Key, HeadersProofs!Key, Headers!Kind,
        HeadersProofs!Kind, Headers!NamelessLine,
        HeadersProofs!NamelessLine, Headers!Fails, HeadersProofs!Fails,
        Headers!EndOfHeaders, HeadersProofs!EndOfHeaders, Headers!Chunk,
        HeadersProofs!Chunk, Headers!End, HeadersProofs!End, Headers!Done,
        HeadersProofs!Done, Headers!Taken, HeadersProofs!Taken,
        Headers!ResetInDone, HeadersProofs!ResetInDone, Headers!ClearValue,
        HeadersProofs!ClearValue, Headers!pointers, HeadersProofs!pointers,
        Headers!data, HeadersProofs!data, Headers!history,
        HeadersProofs!history
<1>4. HeadersProofs!TypeOK => Headers!TypeOK
    BY DEF Headers!TypeOK, HeadersProofs!TypeOK, Headers!Hashes, HeadersProofs!Hashes,
           Headers!Kind, HeadersProofs!Kind
<1> QED
    BY <1>1, <1>2, <1>3, <1>4

\* BodiesProofs is about Bodies.
LEMMA BodiesSame ==
    /\ Bodies!ResponseAssumption => BodiesProofs!ResponseAssumption
    /\ Bodies!Init => BodiesProofs!Init
    /\ Bodies!Next => BodiesProofs!Next
    /\ BodiesProofs!TypeOK => Bodies!TypeOK
<1>1. Bodies!ResponseAssumption => BodiesProofs!ResponseAssumption
    BY DEF Bodies!ResponseAssumption, BodiesProofs!ResponseAssumption
<1>2. Bodies!Init => BodiesProofs!Init
    BY DEF Bodies!Init, Bodies!Hashes, BodiesProofs!Init, BodiesProofs!Hashes
<1>3. Bodies!Next => BodiesProofs!Next
    BY
    DEF Bodies!Next, BodiesProofs!Next, Bodies!Perform,
        BodiesProofs!Perform, Bodies!Reset, BodiesProofs!Reset,
        Bodies!Assign, BodiesProofs!Assign, Bodies!Called,
        BodiesProofs!Called, Bodies!DeadCalled, BodiesProofs!DeadCalled,
        Bodies!Line, BodiesProofs!Line, Bodies!Inserted,
        BodiesProofs!Inserted, Bodies!PutAt, BodiesProofs!PutAt,
        Bodies!Hash, BodiesProofs!Hash, Bodies!Hashes, BodiesProofs!Hashes,
        Bodies!Key, BodiesProofs!Key, Bodies!Kind, BodiesProofs!Kind,
        Bodies!NamelessLine, BodiesProofs!NamelessLine, Bodies!Fails,
        BodiesProofs!Fails, Bodies!EndOfHeaders, BodiesProofs!EndOfHeaders,
        Bodies!Chunk, BodiesProofs!Chunk, Bodies!End, BodiesProofs!End,
        Bodies!Done, BodiesProofs!Done, Bodies!Taken, BodiesProofs!Taken,
        Bodies!ResetInDone, BodiesProofs!ResetInDone, Bodies!ClearValue,
        BodiesProofs!ClearValue, Bodies!pointers, BodiesProofs!pointers,
        Bodies!data, BodiesProofs!data, Bodies!history, BodiesProofs!history
<1>4. BodiesProofs!TypeOK => Bodies!TypeOK
    BY DEF Bodies!TypeOK, BodiesProofs!TypeOK, Bodies!Hashes, BodiesProofs!Hashes,
           Bodies!Kind, BodiesProofs!Kind
<1> QED
    BY <1>1, <1>2, <1>3, <1>4

-----------------------------------------------------------------------------
(* The three of them.                                                       *)

\* A behaviour with header lines has the Response that has no pieces, every
\* other one has the Response with bodies.
ResponseInv ==
    /\ part = "headers" => HeadersProofs!RespInv
    /\ part # "headers" => BodiesProofs!RespInv

ExchangeInv == IInv /\ OutInv /\ ResponseInv

\* The invariant holds in the initial states.
LEMMA ExchangeInitially == PartsInit => ExchangeInv
<1> SUFFICES ASSUME PartsInit
             PROVE  ExchangeInv
    OBVIOUS
<1>1. IInv /\ OutInv
    BY FramingInitially, OutInitially DEF PartsInit
<1>2. part = "headers" => HeadersProofs!RespInv
    BY ExchangeAssumption, HeadersSame, HeadersProofs!RespInitially
    DEF PartsInit, ResponseInit
<1>3. part # "headers" => BodiesProofs!RespInv
    BY ExchangeAssumption, BodiesSame, BodiesProofs!RespInitially
    DEF PartsInit, ResponseInit
<1> QED
    BY <1>1, <1>2, <1>3 DEF ExchangeInv, ResponseInv

\* A step is one of a component and leaves the variables of the others alone.
LEMMA PartsSteps ==
    ASSUME [PartsNext]_<<part, vars, outVars, respVars>>
    PROVE  /\ part' = part
           /\ [Next]_vars
           /\ [Out!Next]_outVars
           /\ part = "headers" => [Headers!Next]_respVars
           /\ part # "headers" => [Bodies!Next]_respVars
<1>1. CASE UNCHANGED <<part, vars, outVars, respVars>>
    BY <1>1
<1>2. CASE PartsNext
    BY <1>2 DEF PartsNext
<1> QED
    BY <1>1, <1>2

\* Every step keeps the invariant of a Response.
LEMMA ResponseStays ==
    ASSUME ResponseInv, part' = part,
           part = "headers" => [Headers!Next]_respVars,
           part # "headers" => [Bodies!Next]_respVars
    PROVE  ResponseInv'
<1>1. CASE part = "headers"
    <2>1. [HeadersProofs!Next]_(HeadersProofs!vars)
        BY <1>1, HeadersSame
        DEF respVars, HeadersProofs!vars, HeadersProofs!pointers,
            HeadersProofs!data, HeadersProofs!history
    <2>2. HeadersProofs!RespInv'
        BY <1>1, <2>1, ExchangeAssumption, HeadersSame,
           HeadersProofs!RespInductive
        DEF ResponseInv
    <2> QED
        BY <1>1, <2>2 DEF ResponseInv
<1>2. CASE part # "headers"
    <2>1. [BodiesProofs!Next]_(BodiesProofs!vars)
        BY <1>2, BodiesSame
        DEF respVars, BodiesProofs!vars, BodiesProofs!pointers,
            BodiesProofs!data, BodiesProofs!history
    <2>2. BodiesProofs!RespInv'
        BY <1>2, <2>1, ExchangeAssumption, BodiesSame,
           BodiesProofs!RespInductive
        DEF ResponseInv
    <2> QED
        BY <1>2, <2>2 DEF ResponseInv
<1> QED
    BY <1>1, <1>2

\* The invariant holds in every state that is reached.
THEOREM ExchangeInvariance == PartsSpec => []ExchangeInv
<1>1. ExchangeInv /\ [PartsNext]_<<part, vars, outVars, respVars>>
        => ExchangeInv'
    BY PartsSteps, FramingInductive, OutInductive, ResponseStays
    DEF ExchangeInv
<1> QED
    BY <1>1, ExchangeInitially, PTL DEF PartsSpec

\* Whatever is called in whatever order, the variables of the three components
\* hold values of their types (Framing, OutHeaders, Response).
THEOREM ExchangeTypesCorrect == PartsSpec => []TypesOK
<1>1. ExchangeInv => TypesOK
    BY HeadersSame, BodiesSame
    DEF ExchangeInv, IInv, OutInv, ResponseInv, HeadersProofs!RespInv,
        BodiesProofs!RespInv, TypesOK
<1> QED
    BY <1>1, ExchangeInvariance, PTL

\* For any number of operations and lists: a list of headers is freed with its
\* object, libcurl reads none that is gone, and a running transfer has what was
\* pushed (slist.hpp:40-67, request.hpp:34-39, 99-105, client.hpp:109-121).
THEOREM HeadersSent == PartsSpec => []HeadersKept
<1>1. ExchangeInv => HeadersKept
    BY DEF ExchangeInv, OutInv, HeadersKept, Out!HeadersKept
<1> QED
    BY <1>1, ExchangeInvariance, PTL

\* For any names, values and number of lines: a line that was sent is found as
\* it was spelled, and the store has its value; what the store has was sent under
\* that name, and as often (store.hpp:101-152, parser.hpp:29-68).
THEOREM StoreAnswers == PartsSpec => []StoreKeepsSent
<1>1. ASSUME ExchangeInv, part = "headers"
      PROVE  Headers!StoreKeepsSent
    <2>1. HeadersProofs!ResponseAssumption /\ HeadersProofs!RespInv
        BY <1>1, ExchangeAssumption, HeadersSame DEF ExchangeInv, ResponseInv
    <2>2. HeadersProofs!StoreKeepsSent
        BY ONLY <2>1, HeadersProofs!RespKeeps
    <2>3. \A S : HeadersProofs!Cardinality(S) = Headers!Cardinality(S)
        BY DEF HeadersProofs!Cardinality, Headers!Cardinality
    <2> QED
        BY <2>2, <2>3
        DEF Headers!StoreKeepsSent, Headers!Times, Headers!Get,
            Headers!Hash, Headers!Key, HeadersProofs!StoreKeepsSent,
            HeadersProofs!Times, HeadersProofs!Get, HeadersProofs!Hash,
            HeadersProofs!Key
<1>2. ExchangeInv => StoreKeepsSent
    BY <1>1 DEF StoreKeepsSent
<1> QED
    BY <1>2, ExchangeInvariance, PTL

\* For any number of transfers, pieces and responses: a body is of its own
\* transfer unless an earlier one was left in its buffer, and libcurl calls a
\* response that was replaced only when a websocket took its place
\* (io/buffer.hpp:20-30, resp.hpp:159-182, 215-218, client.hpp:123-128).
THEOREM TransfersStayApart == PartsSpec => []TransfersApart
<1>1. ExchangeInv => TransfersApart
    BY DEF ExchangeInv, ResponseInv, HeadersProofs!RespInv,
           HeadersProofs!Course, HeadersProofs!BodyOfTransfer,
           HeadersProofs!CallsTheLiving, BodiesProofs!RespInv,
           BodiesProofs!Course, BodiesProofs!BodyOfTransfer,
           BodiesProofs!CallsTheLiving, TransfersApart,
           Bodies!TransfersApart, Bodies!BodyOfTransfer,
           Bodies!CallsTheLiving
<1> QED
    BY <1>1, ExchangeInvariance, PTL
=============================================================================
