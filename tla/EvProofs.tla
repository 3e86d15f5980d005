------------------------------ MODULE EvProofs ------------------------------
(* Proofs about Ev, the component Evs of MCOwners: the safety of moves,       *)
(* destruction and callbacks for any number of objects, events and functions. *)
EXTENDS MCOwners, TLAPS

\* The event in a stack object has the address of no other object's handler.
StackArg == \A o \in EvObj \ Heap : arg[o] \in {None, o}

\* An event belongs to the object whose handler it has the address of, and
\* that handler has the function the event was created for.
Addressed ==
    \A e \in made :
        /\ arg[e] \in EvObj
        /\ arg[e] \notin loose => evHandle[arg[e]] = e /\ hand[arg[e]] = want[e]

\* The event whose callback runs has not been freed.
Current ==
    /\ pc = "loop" <=> evRun = None
    /\ evRun # None =>
           /\ arg[evRun] \in EvObj
           /\ arg[evRun] \notin loose => evRun \in made

\* The inductive invariant.
IInv ==
    /\ Evs!TypeOK
    /\ Evs!OneOwner
    /\ Evs!KnownEventsLive
    /\ StackArg
    /\ Addressed
    /\ Current
    /\ Evs!HandlerOutlivesEvent
    /\ Evs!RightFunction

-----------------------------------------------------------------------------
\* None is neither an event nor an object nor a function.
LEMMA NoneApart ==
    None \notin Evs!AnyEvent /\ None \notin EvObj /\ None \notin Fn
BY EvsAssumption DEF Evs!EvAssumption, Evs!AnyEvent

\* The invariant holds in the initial states.
LEMMA Initially == Evs!Init => IInv
BY EvsAssumption
DEF Evs!EvAssumption, Evs!Init, IInv, Evs!TypeOK, Evs!OneOwner,
    Evs!KnownEventsLive, StackArg, Addressed, Current, Evs!HandlerOutlivesEvent,
    Evs!RightFunction, Evs!AnyEvent

\* An object that is not loose and whose handler runs owns the event.
LEMMA RunsOwner ==
    ASSUME IInv, NEW o \in EvObj, Evs!Runs(o), o \notin loose
    PROVE  evHandle[o] = evRun /\ life[o] = "live"
BY NoneApart DEF IInv, Evs!OneOwner, Current, Addressed, Evs!Runs

\* An object that is not alive, or has no event, is the owner of none.
LEMMA NoEvent ==
    ASSUME IInv, NEW o \in EvObj, life[o] # "live" \/ evHandle[o] = None
    PROVE  /\ evHandle[o] = None
           /\ \A e \in made : arg[e] \notin loose => arg[e] # o
<1>1. evHandle[o] = None
    BY DEF IInv, Evs!OneOwner
<1>2. \A e \in made : e # None
    BY NoneApart DEF IInv, Evs!TypeOK
<1> QED
    BY <1>1, <1>2 DEF IInv, Addressed

-----------------------------------------------------------------------------
\* The loop and event_add, event_del, event_active touch no object.
LEMMA LoopSteps ==
    ASSUME IInv,
           \/ \E o \in EvObj : Evs!Add(o) \/ Evs!Remove(o) \/ Evs!Active(o)
           \/ \E e \in Evs!AnyEvent : Evs!Ready(e) \/ Evs!Fire(e)
           \/ Evs!Return
    PROVE  IInv'
<1>1. UNCHANGED <<life, hand, evHandle, made, arg, want, persist, loose, wrong,
                  evCrash>>
    BY DEF Evs!Add, Evs!Remove, Evs!Active, Evs!Ready, Evs!Fire, Evs!Return,
           Evs!objects, Evs!events, Evs!history
<1>2. Evs!TypeOK' /\ Evs!KnownEventsLive' /\ Current'
    <2>1. ASSUME NEW o \in EvObj, Evs!Add(o) \/ Evs!Remove(o) \/ Evs!Active(o)
          PROVE  Evs!TypeOK' /\ Evs!KnownEventsLive' /\ Current'
        <3>1. evHandle[o] \in made
            BY <2>1 DEF IInv, Evs!OneOwner, Evs!Add, Evs!Remove, Evs!Active
        <3>2. made \subseteq Evs!AnyEvent
            BY DEF IInv, Evs!TypeOK
        <3> QED
            BY <1>1, <2>1, <3>1, <3>2
            DEF IInv, Evs!TypeOK, Evs!KnownEventsLive, Current, Evs!Add,
                Evs!Remove, Evs!Active, Evs!Del, Evs!objects, Evs!events,
                Evs!history
    <2>2. ASSUME NEW e \in Evs!AnyEvent, Evs!Ready(e)
          PROVE  Evs!TypeOK' /\ Evs!KnownEventsLive' /\ Current'
        BY <1>1, <2>2
        DEF IInv, Evs!TypeOK, Evs!KnownEventsLive, Current, Evs!Ready
    <2>3. ASSUME NEW e \in Evs!AnyEvent, Evs!Fire(e)
          PROVE  Evs!TypeOK' /\ Evs!KnownEventsLive' /\ Current'
        <3>1. e \in made /\ e # None /\ arg[e] \in EvObj
            BY <2>3, NoneApart
            DEF IInv, Evs!KnownEventsLive, Addressed, Evs!Fire
        <3> QED
            BY <1>1, <2>3, <3>1
            DEF IInv, Evs!TypeOK, Evs!KnownEventsLive, Current, Evs!Fire
    <2>4. CASE Evs!Return
        BY <1>1, <2>4
        DEF IInv, Evs!TypeOK, Evs!KnownEventsLive, Current, Evs!Return
    <2> QED
        BY <2>1, <2>2, <2>3, <2>4
<1>3. Evs!OneOwner' /\ StackArg' /\ Addressed' /\ Evs!HandlerOutlivesEvent'
          /\ Evs!RightFunction'
    BY <1>1
    DEF IInv, Evs!OneOwner, StackArg, Addressed, Evs!HandlerOutlivesEvent,
        Evs!RightFunction
<1> QED
    BY <1>2, <1>3 DEF IInv

\* A handler is called: by the loop, or by exec().
LEMMA CallSteps ==
    ASSUME IInv, Evs!CallHandler \/ \E o \in EvObj : Evs!Exec(o)
    PROVE  IInv'
<1>1. PICK e \in Evs!AnyEvent :
          Evs!Call(e) /\ arg[e] \in EvObj /\ (arg[e] \notin loose => e \in made)
    <2>1. CASE Evs!CallHandler
        BY <2>1 DEF IInv, Evs!TypeOK, Current, Evs!CallHandler
    <2>2. CASE \E o \in EvObj : Evs!Exec(o)
        BY <2>2 DEF IInv, Evs!TypeOK, Evs!OneOwner, Addressed, Evs!Exec
    <2> QED
        BY <2>1, <2>2
<1>2. /\ UNCHANGED <<life, hand, evHandle, made, arg, want, persist, pend, act,
                     evRun, loose>>
      /\ pc' = pc \/ (pc = "enter" /\ pc' = "user")
    BY DEF Evs!CallHandler, Evs!Exec, Evs!objects, Evs!events, Evs!loop
<1>3. arg[e] \notin loose => life[arg[e]] = "live" /\ hand[arg[e]] = want[e]
    BY <1>1, NoneApart DEF IInv, Addressed, Evs!OneOwner
<1>4. Evs!TypeOK'
    BY <1>1, <1>2 DEF IInv, Evs!TypeOK, Evs!Call
<1>5. Evs!HandlerOutlivesEvent'
    BY <1>1, <1>2, <1>3 DEF IInv, Evs!HandlerOutlivesEvent, Evs!Call
<1>6. Evs!RightFunction'
    BY <1>1, <1>2, <1>3 DEF IInv, Evs!RightFunction, Evs!Call
<1>7. Evs!OneOwner' /\ Evs!KnownEventsLive' /\ StackArg' /\ Addressed'
          /\ Current'
    BY <1>2
    DEF IInv, Evs!OneOwner, Evs!KnownEventsLive, StackArg, Addressed, Current
<1> QED
    BY <1>4, <1>5, <1>6, <1>7 DEF IInv

-----------------------------------------------------------------------------
\* What Construct and Create have in common: an object without an event gets
\* a new one.
LEMMA Creation ==
    ASSUME IInv,
           NEW o \in EvObj, NEW e \in Evs!AnyEvent, NEW f \in Fn,
           NEW p \in BOOLEAN,
           Evs!NewEvent(o, e, f, p),
           life[o] # "live" \/ evHandle[o] = None,
           life' = [life EXCEPT ![o] = "live"],
           pend' \in {pend, pend \cup {e}},
           UNCHANGED <<act, evRun, pc, loose, wrong, evCrash>>
    PROVE  IInv'
<1>1. e \notin made /\ e # None
      /\ (o \in Heap => arg[e] = None /\ e \in HeapEvent)
      /\ (o \notin Heap => e = o)
    BY NoneApart DEF Evs!NewEvent, Evs!Fresh
<1>2. evHandle[o] = None /\ \A b \in made : arg[b] \notin loose => arg[b] # o
    BY NoEvent
<1>3. Evs!TypeOK'
    <2>1. persist' \in SUBSET Evs!AnyEvent /\ pend' \in SUBSET Evs!AnyEvent
        BY DEF IInv, Evs!TypeOK, Evs!NewEvent
    <2>2. life' \in [EvObj -> {"raw", "live", "half", "dead"}]
        BY DEF IInv, Evs!TypeOK
    <2>3. /\ hand' \in [EvObj -> Fn \cup {None}]
          /\ evHandle' \in [EvObj -> Evs!AnyEvent \cup {None}]
          /\ made' \in SUBSET Evs!AnyEvent
        BY DEF IInv, Evs!TypeOK, Evs!NewEvent
    <2>4. /\ arg' \in [Evs!AnyEvent -> EvObj \cup {None}]
          /\ want' \in [Evs!AnyEvent -> Fn \cup {None}]
        BY DEF IInv, Evs!TypeOK, Evs!NewEvent
    <2> QED
        BY <2>1, <2>2, <2>3, <2>4 DEF IInv, Evs!TypeOK
<1>4. Evs!OneOwner'
    <2>1. \A x \in EvObj : evHandle'[x] = IF x = o THEN e ELSE evHandle[x]
        BY DEF IInv, Evs!TypeOK, Evs!NewEvent
    <2>2. \A x \in EvObj : life'[x] = IF x = o THEN "live" ELSE life[x]
        BY DEF IInv, Evs!TypeOK
    <2>3. \A x \in EvObj : evHandle[x] # e
        BY <1>1 DEF IInv, Evs!OneOwner
    <2>4. \A b \in made : \E x \in EvObj : x # o /\ evHandle[x] = b
        BY <1>2, NoneApart DEF IInv, Evs!TypeOK, Evs!OneOwner
    <2> QED
        BY <1>1, <2>1, <2>2, <2>3, <2>4 DEF IInv, Evs!OneOwner, Evs!NewEvent
<1>5. Evs!KnownEventsLive'
    BY DEF IInv, Evs!KnownEventsLive, Evs!NewEvent
<1>6. StackArg'
    BY <1>1, <1>3, EvsAssumption
    DEF Evs!EvAssumption, IInv, StackArg, Evs!TypeOK, Evs!NewEvent
<1>7. Addressed'
    BY <1>1, <1>2 DEF IInv, Evs!TypeOK, Addressed, Evs!NewEvent
<1>8. Current'
    <2>1. evRun = e => arg[evRun] \in {None, o}
        BY <1>1 DEF IInv, StackArg
    <2> QED
        BY <1>1, <2>1, NoneApart DEF IInv, Evs!TypeOK, Current, Evs!NewEvent
<1>9. Evs!HandlerOutlivesEvent' /\ Evs!RightFunction'
    BY DEF IInv, Evs!HandlerOutlivesEvent, Evs!RightFunction
<1> QED
    BY <1>3, <1>4, <1>5, <1>6, <1>7, <1>8, <1>9 DEF IInv

\* The constructors and create() keep the invariant.
LEMMA CreationSteps ==
    ASSUME IInv,
           \/ \E o \in EvObj, e \in Evs!AnyEvent, f \in Fn, p \in BOOLEAN :
                 \/ Evs!Create(o, e, f, p)
                 \/ \E added \in BOOLEAN : Evs!Construct(o, e, f, p, added)
           \/ \E o \in EvObj : Evs!Default(o)
    PROVE  IInv'
<1>1. ASSUME NEW o \in EvObj, NEW e \in Evs!AnyEvent, NEW f \in Fn,
             NEW p \in BOOLEAN, Evs!Create(o, e, f, p)
      PROVE  IInv'
    <2>1. life' = [life EXCEPT ![o] = "live"]
        BY <1>1 DEF IInv, Evs!TypeOK, Evs!Create
    <2> QED
        BY <1>1, <2>1, Creation DEF Evs!Create, Evs!loop, Evs!history
<1>2. ASSUME NEW o \in EvObj, NEW e \in Evs!AnyEvent, NEW f \in Fn,
             NEW p \in BOOLEAN, NEW added \in BOOLEAN,
             Evs!Construct(o, e, f, p, added)
      PROVE  IInv'
    BY <1>2, Creation DEF Evs!Construct, Evs!history
<1>3. ASSUME NEW o \in EvObj, Evs!Default(o)
      PROVE  IInv'
    <2>1. Evs!TypeOK' /\ Evs!OneOwner'
        BY <1>3
        DEF IInv, Evs!TypeOK, Evs!OneOwner, Evs!Default, Evs!events, Evs!loop,
            Evs!history
    <2> QED
        BY <1>3, <2>1
        DEF IInv, Evs!KnownEventsLive, StackArg, Addressed, Current,
            Evs!HandlerOutlivesEvent, Evs!RightFunction, Evs!Default,
            Evs!events, Evs!loop, Evs!history
<1> QED
    BY <1>1, <1>2, <1>3

-----------------------------------------------------------------------------
\* After a move either nothing has changed for an event, or both objects are
\* loose.
LEMMA MoveSteps ==
    ASSUME IInv, NEW o \in EvObj, NEW that \in EvObj,
           \/ Evs!MoveAssign(o, that)
           \/ \E left \in Fn \cup {None} : Evs!MoveConstruct(o, that, left)
    PROVE  IInv'
<1>1. /\ o # that /\ life[that] = "live" /\ life' = [life EXCEPT ![o] = "live"]
      /\ \E left \in Fn \cup {None} :
             hand' = [hand EXCEPT ![o] = hand[that], ![that] = left]
      /\ evHandle' = Evs!Swap(o, that)
      /\ loose' = loose \cup Evs!Loosened(o, that)
      /\ UNCHANGED <<made, arg, want, persist, pend, act, evRun, pc, wrong>>
      /\ evCrash' = evCrash \/ (Evs!Runs(o) /\ evCrash' = o)
    BY DEF IInv, Evs!TypeOK, Evs!MoveAssign, Evs!MoveConstruct, Evs!events,
           Evs!loop
<1>2. ASSUME NEW b \in EvObj, b \notin loose'
      PROVE  /\ b \notin loose
             /\ (b = o \/ b = that) => evHandle[b] = None
             /\ evHandle'[b] = evHandle[b]
             /\ evHandle[b] # None => hand'[b] = hand[b]
    BY <1>1, <1>2 DEF Evs!Loosened, Evs!Swap, IInv, Evs!TypeOK
<1>3. Evs!TypeOK'
    BY <1>1 DEF IInv, Evs!TypeOK, Evs!Swap, Evs!Loosened
<1>4. Evs!OneOwner'
    BY <1>1 DEF IInv, Evs!TypeOK, Evs!OneOwner, Evs!Swap
<1>5. Addressed'
    BY <1>1, <1>2, NoneApart DEF IInv, Evs!TypeOK, Addressed
<1>6. Current'
    BY <1>1, <1>2 DEF IInv, Evs!TypeOK, Current
<1>7. Evs!HandlerOutlivesEvent'
    <2>1. Evs!Runs(o) => o \in loose'
        BY <1>1, <1>2, RunsOwner DEF Evs!Runs
    <2> QED
        BY <1>1, <2>1 DEF IInv, Evs!HandlerOutlivesEvent
<1>8. Evs!KnownEventsLive' /\ StackArg' /\ Evs!RightFunction'
    BY <1>1 DEF IInv, Evs!KnownEventsLive, StackArg, Evs!RightFunction
<1> QED
    BY <1>3, <1>4, <1>5, <1>6, <1>7, <1>8 DEF IInv

-----------------------------------------------------------------------------
\* When an event is freed outside its own callback, or the object is loose,
\* the callback that runs is not touched.
LEMMA Freed ==
    ASSUME IInv, NEW o \in EvObj, life[o] = "live", evHandle[o] # None,
           Evs!Free(o),
           life' = life \/ life' = [life EXCEPT ![o] = "half"],
           loose' = IF evRun = evHandle[o] THEN loose \cup {o} ELSE loose,
           UNCHANGED <<hand, arg, want, persist, evRun, pc, wrong, evCrash>>
    PROVE  IInv'
<1>1. evHandle[o] \in made
    BY DEF IInv, Evs!OneOwner
<1>2. \A b \in made : arg[b] \notin loose /\ arg[b] = o => b = evHandle[o]
    BY DEF IInv, Addressed
<1>3. Evs!TypeOK'
    BY DEF IInv, Evs!TypeOK, Evs!Free, Evs!Del
<1>4. Evs!OneOwner'
    BY <1>1 DEF IInv, Evs!TypeOK, Evs!OneOwner, Evs!Free
<1>5. Evs!KnownEventsLive'
    BY DEF IInv, Evs!KnownEventsLive, Evs!Free, Evs!Del
<1>6. Addressed'
    BY <1>2 DEF IInv, Evs!TypeOK, Addressed, Evs!Free
<1>7. Current'
    <2>1. evRun = evHandle[o] /\ arg[evRun] \notin loose => arg[evRun] = o
        BY <1>1 DEF IInv, Evs!OneOwner, Addressed
    <2> QED
        BY <2>1, NoneApart DEF IInv, Evs!TypeOK, Current, Evs!Free
<1>8. StackArg' /\ Evs!HandlerOutlivesEvent' /\ Evs!RightFunction'
    BY DEF IInv, StackArg, Evs!HandlerOutlivesEvent, Evs!RightFunction
<1> QED
    BY <1>3, <1>4, <1>5, <1>6, <1>7, <1>8 DEF IInv

\* destroy() and the two halves of the destructor.
LEMMA DestructionSteps ==
    ASSUME IInv, NEW o \in EvObj,
           Evs!Destroy(o) \/ Evs!DestructEvent(o) \/ Evs!DestructHandler(o)
    PROVE  IInv'
<1>1. CASE Evs!Destroy(o)
    BY <1>1, Freed DEF Evs!Destroy
<1>2. CASE Evs!DestructEvent(o) /\ evHandle[o] # None
    <2>1. evRun # evHandle[o] /\ Evs!Free(o) /\ loose' = loose
        BY <1>2 DEF Evs!DestructEvent, Evs!history
    <2> QED
        BY <1>2, <2>1, Freed DEF Evs!DestructEvent, Evs!history
<1>3. CASE Evs!DestructEvent(o) /\ evHandle[o] = None
    <2>1. Evs!TypeOK' /\ Evs!OneOwner'
        BY <1>3
        DEF IInv, Evs!TypeOK, Evs!OneOwner, Evs!DestructEvent, Evs!history
    <2> QED
        BY <1>3, <2>1
        DEF IInv, Evs!KnownEventsLive, StackArg, Addressed, Current,
            Evs!HandlerOutlivesEvent, Evs!RightFunction, Evs!DestructEvent,
            Evs!history
<1>4. CASE Evs!DestructHandler(o)
    <2>1. Evs!TypeOK' /\ Evs!OneOwner'
        BY <1>4
        DEF IInv, Evs!TypeOK, Evs!OneOwner, Evs!DestructHandler, Evs!events,
            Evs!loop
    <2>2. Evs!Runs(o) => o \in loose
        BY <1>4, RunsOwner DEF Evs!DestructHandler
    <2> QED
        BY <1>4, <2>1, <2>2
        DEF IInv, Evs!KnownEventsLive, StackArg, Addressed, Current,
            Evs!HandlerOutlivesEvent, Evs!RightFunction, Evs!DestructHandler,
            Evs!events, Evs!loop
<1> QED
    BY <1>1, <1>2, <1>3, <1>4

-----------------------------------------------------------------------------
\* Every step keeps the invariant.
LEMMA Inductive == IInv /\ [Evs!Next]_(Evs!vars) => IInv'
<1> SUFFICES ASSUME IInv, [Evs!Next]_(Evs!vars) PROVE IInv'
    OBVIOUS
<1>1. CASE Evs!Next
    BY <1>1, LoopSteps, CallSteps, CreationSteps, MoveSteps, DestructionSteps
    DEF Evs!Next
<1>2. CASE UNCHANGED Evs!vars
    BY <1>2
    DEF IInv, Evs!TypeOK, Evs!OneOwner, Evs!KnownEventsLive, StackArg,
        Addressed, Current, Evs!HandlerOutlivesEvent, Evs!RightFunction,
        Evs!vars, Evs!objects, Evs!events, Evs!loop, Evs!history
<1> QED
    BY <1>1, <1>2

\* The inductive invariant holds in every state.
THEOREM EvInvariance == Evs!Spec => []IInv
BY Initially, Inductive, PTL DEF Evs!Spec

\* Every variable keeps its type.
THEOREM EvTypeCorrect == Evs!Spec => []EvTypeOK
<1>1. IInv => EvTypeOK
    BY DEF IInv, EvTypeOK
<1> QED
    BY <1>1, EvInvariance, PTL

\* Every event has one owner, which lives, while libevent may know it, and
\* none after: no double free and no leak by a move of heap_event, destroy() or
\* a destructor, and no pending or active event that was freed.
THEOREM EventOwnership == Evs!Spec => []EventsOwned
<1>1. IInv => EventsOwned
    BY DEF IInv, EventsOwned, Evs!EventsOwned
<1> QED
    BY <1>1, EvInvariance, PTL

\* A dead handler is used, and another's function called, only in an object
\* that was moved with an event or destroyed its event from its handler.
THEOREM HandlerSafety == Evs!Spec => []OnlyLooseGoWrong
<1>1. IInv => OnlyLooseGoWrong
    BY DEF IInv, OnlyLooseGoWrong, Evs!OnlyLooseGoWrong
<1> QED
    BY <1>1, EvInvariance, PTL
=============================================================================
