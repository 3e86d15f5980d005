---------------------------- MODULE QueueProofs ----------------------------
(* Proofs about Queue, for every number of queues, bases, posts and functions. *)
EXTENDS QueueRefines, TLAPS

\* Every step keeps every variable in its type.
LEMMA TypeInductive == TypeOK /\ [Next]_vars => TypeOK'
<1> USE ConstantsAssumption
<1> SUFFICES ASSUME TypeOK, [Next]_vars PROVE TypeOK'
  OBVIOUS
<1> USE DEF TypeOK, Cell, Call
<1>1. ASSUME NEW q \in Queue, NEW b \in Base, Create(q, b) \/ Assign(q, b)
      PROVE  TypeOK'
  <2>1. CASE Create(q, b)
    BY <2>1 DEF Create, cbVars, postVars
  <2>2. CASE Assign(q, b)
    BY <2>2 DEF Assign, cbVars, postVars
  <2> QED
    BY <1>1, <2>1, <2>2
<1>2. ASSUME NEW q \in Queue, NEW that \in Queue, NEW b \in Base,
             MoveConstruct(q, that, b)
      PROVE  TypeOK'
  BY <1>2 DEF MoveConstruct, cbVars, postVars
<1>3. ASSUME NEW q \in Queue, NEW that \in Queue, MoveAssign(q, that)
      PROVE  TypeOK'
  BY <1>3 DEF MoveAssign, Swap, baseVars, cbVars, postVars
<1>4. ASSUME NEW q \in Queue, Destroy(q) \/ Destruct(q)
      PROVE  TypeOK'
  <2>1. ASSUME NEW left \in {None, Raw}, FreeHandle(q, left)
        PROVE  TypeOK'
    <3>1. CASE handle[q] = None
      BY <2>1, <3>1 DEF FreeHandle
    <3>2. CASE handle[q] # None
      <4>1. handle[q] \in Base
        BY <2>1, <3>2 DEF FreeHandle
      <4>2. /\ base' = [base EXCEPT ![handle[q]] = "freed"]
            /\ exits' = [exits EXCEPT ![handle[q]] = FALSE]
        BY <2>1, <3>2 DEF FreeHandle
      <4>3. pend' \in [Base -> SUBSET Cell] /\ lost' \in SUBSET Cell
        <5>1. /\ pend' = [pend EXCEPT ![handle[q]] = {}]
              /\ lost' = lost \cup pend[handle[q]]
          BY <2>1, <3>2 DEF FreeHandle
        <5>2. pend[handle[q]] \in SUBSET Cell
          BY <4>1
        <5> QED
          BY <5>1, <5>2
      <4>4. /\ handle' = [handle EXCEPT ![q] = left]
            /\ UNCHANGED <<loop, stop, run, pc, call, ran, heap, obj, crash>>
        BY <2>1 DEF FreeHandle
      <4> HIDE DEF Cell, Call
      <4> QED
        BY <4>2, <4>3, <4>4
    <3> QED
      BY <3>1, <3>2
  <2> QED
    BY <1>4, <2>1 DEF Destroy, Destruct
<1>5. ASSUME NEW q \in Queue,
             Dispatch(q) \/ Loop(q) \/ LoopExit(q) \/ LoopBreak(q)
      PROVE  TypeOK'
  <2>1. CASE Dispatch(q)
    BY <2>1 DEF Dispatch, Enter, cbVars, postVars
  <2>2. CASE Loop(q)
    BY <2>2 DEF Loop, Enter, cbVars, postVars
  <2>3. CASE LoopExit(q)
    BY <2>3 DEF LoopExit, cbVars, postVars
  <2>4. CASE LoopBreak(q)
    BY <2>4 DEF LoopBreak, cbVars, postVars
  <2> QED
    BY <1>5, <2>1, <2>2, <2>3, <2>4
<1>6. ASSUME NEW q \in Queue, NEW p \in Post, NEW f \in Callable,
             NEW ok \in BOOLEAN, Once(q, p, f, ok)
      PROVE  TypeOK'
  <2>1. [fn |-> f, to |-> None, ok |-> ok] \in Call
    OBVIOUS
  <2>2. call' \in [Post -> Call \cup {None}]
    BY <1>6, <2>1 DEF Once
  <2>3. pend' \in [Base -> SUBSET Cell] /\ lost' \in SUBSET Cell
    <3>1. EventBaseOnce(handle[q], <<p, "post">>, ok)
      BY <1>6 DEF Once
    <3>2. <<p, "post">> \in Cell
      OBVIOUS
    <3> HIDE DEF Cell, Call
    <3> QED
      BY <3>1, <3>2 DEF EventBaseOnce
  <2>4. heap' \in [Cell -> {"none", "live", "freed"}]
    <3>1. \/ heap' = heap
          \/ heap' = [heap EXCEPT ![<<p, "post">>] = "live"]
      BY <1>6 DEF Once
    <3> HIDE DEF Cell, Call
    <3> QED
      BY <3>1
  <2>5. obj' \in [Callable -> {"live", "moved", "dead"}]
    BY <1>6 DEF Once
  <2> QED
    BY <1>6, <2>2, <2>3, <2>4, <2>5 DEF Once, baseVars
<1>7. ASSUME NEW q \in Queue, NEW p \in Post, NEW f \in Callable,
             NEW ok \in BOOLEAN, NEW other \in Queue,
             OnceOther(q, other, p, f, ok)
      PROVE  TypeOK'
  <2>1. [fn |-> f, to |-> other, ok |-> ok] \in Call
    OBVIOUS
  <2>2. call' \in [Post -> Call \cup {None}]
    BY <1>7, <2>1 DEF OnceOther
  <2>3. pend' \in [Base -> SUBSET Cell] /\ lost' \in SUBSET Cell
    <3>1. EventBaseOnce(handle[q], <<p, "post">>, ok)
      BY <1>7 DEF OnceOther
    <3>2. <<p, "post">> \in Cell
      OBVIOUS
    <3> HIDE DEF Cell, Call
    <3> QED
      BY <3>1, <3>2 DEF EventBaseOnce
  <2>4. heap' \in [Cell -> {"none", "live", "freed"}]
    <3>1. \/ heap' = heap
          \/ heap' = [heap EXCEPT ![<<p, "post">>] = "live"]
      BY <1>7 DEF OnceOther
    <3> HIDE DEF Cell, Call
    <3> QED
      BY <3>1
  <2> QED
    BY <1>7, <2>2, <2>3, <2>4 DEF OnceOther, baseVars
<1>8. ASSUME NEW f \in Callable, DropCallable(f)
      PROVE  TypeOK'
  BY <1>8 DEF DropCallable, baseVars, cbVars
<1>9. ASSUME NEW b \in Base, ExitFires(b) \/ LoopReturn(b)
      PROVE  TypeOK'
  <2>1. CASE ExitFires(b)
    BY <2>1 DEF ExitFires, cbVars, postVars
  <2>2. CASE LoopReturn(b)
    BY <2>2 DEF LoopReturn, cbVars, postVars
  <2> QED
    BY <1>9, <2>1, <2>2
<1>10. ASSUME NEW b \in Base, CallUser(b)
       PROVE  TypeOK'
  <2>1. CASE Halt(b, "callable")
    BY <2>1 DEF Halt, baseVars, cbVars, postVars
  <2>2. CASE /\ ran' = [ran EXCEPT ![run[b][1]] = @ + 1]
             /\ pc' = [pc EXCEPT ![b] = "leave"]
             /\ UNCHANGED <<handle, baseVars, pend, run, call, lost, heap,
                            obj, crash>>
    <3>1. run[b][1] \in Post
      BY <1>10 DEF CallUser
    <3> QED
      BY <2>2, <3>1 DEF baseVars
  <2> QED
    BY <1>10, <2>1, <2>2 DEF CallUser
<1>11. ASSUME NEW b \in Base, Requeue(b)
       PROVE  TypeOK'
  <2>1. CASE \E why \in {"callable", "queue", "handle"} : Halt(b, why)
    BY <2>1 DEF Halt, baseVars, cbVars, postVars
  <2>2. CASE ~ \E why \in {"callable", "queue", "handle"} : Halt(b, why)
    <3> DEFINE p == run[b][1]
    <3>1. p \in Post /\ <<p, "hop">> \in Cell
      BY <1>11 DEF Requeue
    <3> HIDE DEF p
    <3>2. /\ handle[call[p].to] \in Base
          /\ \E ok \in BOOLEAN :
                EventBaseOnce(handle[call[p].to], <<p, "hop">>, ok)
          /\ heap' = [heap EXCEPT ![<<p, "hop">>] = "live"]
          /\ \/ obj' = [obj EXCEPT ![call[p].fn] = "moved"]
             \/ obj' = obj
          /\ pc' = [pc EXCEPT ![b] = "leave"]
          /\ UNCHANGED <<handle, baseVars, run, call, ran, crash>>
      BY <1>11, <2>2 DEF Requeue, PostedTo, RequeueDone, p
    <3>3. pend' \in [Base -> SUBSET Cell] /\ lost' \in SUBSET Cell
      BY <3>1, <3>2 DEF EventBaseOnce
    <3>4. heap' \in [Cell -> {"none", "live", "freed"}]
      BY <3>1, <3>2
    <3>5. obj' \in [Callable -> {"live", "moved", "dead"}]
      BY <3>2
    <3> QED
      BY <3>2, <3>3, <3>4, <3>5 DEF baseVars
  <2> QED
    BY <2>1, <2>2
<1>12. ASSUME NEW b \in Base, Finish(b)
       PROVE  TypeOK'
  <2>1. heap' \in [Cell -> {"none", "live", "freed"}]
    BY <1>12 DEF Finish, Delete
  <2> QED
    BY <1>12, <2>1 DEF Finish, baseVars
<1>13. ASSUME NEW b \in Base, NEW c \in Cell, Fire(b, c)
       PROVE  TypeOK'
  BY <1>13 DEF Fire, EventTaken, baseVars, postVars
<1>14. CASE UNCHANGED vars
  BY <1>14 DEF vars, baseVars, cbVars, postVars
<1> HIDE DEF TypeOK, Cell, Call
<1> QED
  BY <1>1, <1>2, <1>3, <1>4, <1>5, <1>6, <1>7, <1>8, <1>9, <1>10, <1>11,
     <1>12, <1>13, <1>14 DEF Next

-----------------------------------------------------------------------------
\* Handles are only created, swapped or given up, never copied.
LEMMA OwnerInductive ==
    TypeOK /\ UniqueOwner /\ [Next]_vars => UniqueOwner'
<1> USE ConstantsAssumption
<1> SUFFICES ASSUME TypeOK, UniqueOwner, [Next]_vars PROVE UniqueOwner'
  OBVIOUS
<1>0. /\ handle \in [Queue -> Base \cup {None, Raw}]
      /\ base \in [Base -> {"unborn", "live", "freed"}]
  BY DEF TypeOK
<1> USE DEF UniqueOwner
<1>1. ASSUME NEW q \in Queue, NEW b \in Base, Create(q, b) \/ Assign(q, b)
      PROVE  UniqueOwner'
  <2>1. /\ base[b] = "unborn"
        /\ handle' = [handle EXCEPT ![q] = b]
        /\ base' = [base EXCEPT ![b] = "live"]
    BY <1>1 DEF Create, Assign
  <2> QED
    BY <1>0, <2>1
<1>2. ASSUME NEW q \in Queue, NEW that \in Queue, NEW b \in Base,
             MoveConstruct(q, that, b)
      PROVE  UniqueOwner'
  BY <1>0, <1>2 DEF MoveConstruct
<1>3. ASSUME NEW q \in Queue, NEW that \in Queue, MoveAssign(q, that)
      PROVE  UniqueOwner'
  BY <1>0, <1>3 DEF MoveAssign, Swap, baseVars
<1>4. ASSUME NEW q \in Queue, NEW left \in {None, Raw}, FreeHandle(q, left)
      PROVE  UniqueOwner'
  <2>1. CASE handle[q] = None
    BY <1>0, <1>4, <2>1 DEF FreeHandle
  <2>2. CASE handle[q] # None
    BY <1>0, <1>4, <2>2 DEF FreeHandle
  <2> QED
    BY <2>1, <2>2
<1>5. CASE UNCHANGED <<handle, base>>
  BY <1>5
<1> HIDE DEF UniqueOwner
<1>6. ASSUME NEW q \in Queue,
             Dispatch(q) \/ Loop(q) \/ LoopExit(q) \/ LoopBreak(q)
      PROVE  UNCHANGED <<handle, base>>
  BY <1>6 DEF Dispatch, Loop, Enter, LoopExit, LoopBreak
<1>7. ASSUME NEW q \in Queue, NEW p \in Post, NEW f \in Callable,
             NEW ok \in BOOLEAN,
             Once(q, p, f, ok) \/ \E other \in Queue : OnceOther(q, other, p, f, ok)
      PROVE  UNCHANGED <<handle, base>>
  BY <1>7 DEF Once, OnceOther, baseVars
<1>8. ASSUME NEW f \in Callable, DropCallable(f)
      PROVE  UNCHANGED <<handle, base>>
  BY <1>8 DEF DropCallable, baseVars
<1>9. ASSUME NEW b \in Base,
             \/ ExitFires(b) \/ LoopReturn(b)
             \/ CallUser(b) \/ Requeue(b) \/ Finish(b)
             \/ \E c \in Cell : Fire(b, c)
      PROVE  UNCHANGED <<handle, base>>
  BY <1>9 DEF ExitFires, LoopReturn, CallUser, Requeue, Finish, Fire, Halt,
              baseVars
<1>10. CASE UNCHANGED vars
  BY <1>5, <1>10 DEF vars, baseVars
<1> QED
  BY <1>1, <1>2, <1>3, <1>4, <1>5, <1>6, <1>7, <1>8, <1>9, <1>10
     DEF Next, Destroy, Destruct

-----------------------------------------------------------------------------
(* The cells.  Each lemma first says what the action does to Reached and    *)
(* Waiting, and then takes the parts of the invariant one by one.           *)

CellInv ==
    /\ NoUseAfterFree
    /\ OnePlace
    /\ OnlyLostLeak
    /\ AtMostOnce
    /\ PcMatchesRun
    /\ CellsInOrder
    /\ NotYetCalled
    /\ OnItsWay
    /\ RefOwnsNothing

\* The variables CellInv is about.
cellVars == <<pend, run, pc, call, ran, lost, heap>>

LEMMA CellsUntouched ==
    CellInv /\ UNCHANGED cellVars => CellInv'
<1> SUFFICES ASSUME CellInv, UNCHANGED cellVars PROVE CellInv'
  OBVIOUS
<1>1. UNCHANGED <<pend, run, pc, call, ran, lost, heap>>
  BY DEF cellVars
<1>2. \A c \in Cell : /\ Reached(c)' <=> Reached(c)
                      /\ Waiting(c)' <=> Waiting(c)
                      /\ Unused(c)' <=> Unused(c)
                      /\ Kind(c)' = Kind(c)
  BY <1>1 DEF Reached, Waiting, Unused, Kind
<1>3. \A p \in Post : /\ Awaited(p)' <=> Awaited(p)
                      /\ \A k \in {"post", "hop"} : <<p, k>> \in Cell
  BY <1>1 DEF Awaited, Cell
<1>4. NoUseAfterFree' /\ OnlyLostLeak' /\ NotYetCalled' /\ RefOwnsNothing'
  BY <1>1, <1>2 DEF CellInv, NoUseAfterFree, OnlyLostLeak, NotYetCalled,
                    RefOwnsNothing
<1>5. OnePlace'
  BY <1>1 DEF CellInv, OnePlace, Reached
<1>6. AtMostOnce' /\ PcMatchesRun'
  BY <1>1 DEF CellInv, AtMostOnce, PcMatchesRun
<1>7. CellsInOrder'
  BY <1>1, <1>2, <1>3 DEF CellInv, CellsInOrder
<1>8. OnItsWay'
  BY <1>1, <1>2, <1>3 DEF CellInv, OnItsWay
<1> QED
  BY <1>4, <1>5, <1>6, <1>7, <1>8 DEF CellInv

LEMMA CellsFree ==
    ASSUME TypeOK, CellInv, NEW q \in Queue, NEW left \in {None, Raw},
           FreeHandle(q, left)
    PROVE  CellInv'
<1>1. CASE handle[q] = None
  BY <1>1, CellsUntouched DEF FreeHandle, cellVars
<1>2. CASE handle[q] # None
  <2> DEFINE b0 == handle[q]
  <2>1. /\ b0 \in Base
        /\ pend' = [pend EXCEPT ![b0] = {}]
        /\ lost' = lost \cup pend[b0]
        /\ UNCHANGED <<run, pc, call, ran, heap>>
    BY <1>2 DEF FreeHandle, TypeOK
  <2>2. pend \in [Base -> SUBSET Cell] /\ run \in [Base -> Cell \cup {None}]
    BY DEF TypeOK
  <2> HIDE DEF b0
  <2>3. \A c \in Cell : /\ Reached(c)' <=> Reached(c) /\ c \notin pend[b0]
                        /\ Waiting(c)' <=> Waiting(c) /\ c \notin pend[b0]
                        /\ Kind(c)' = Kind(c)
    BY <2>1, <2>2 DEF Reached, Waiting, Kind, CellInv, OnePlace
  <2>4. \A p \in Post, k \in {"post", "hop"} : <<p, k>> \in Cell
    BY DEF Cell
  <2>5. \A p \in Post : Awaited(p)' <=> Awaited(p)
    BY <2>1 DEF Awaited
  <2>6. \A c \in Cell : c \in pend[b0] => Reached(c)
    BY <2>1 DEF Reached
  <2>7. NoUseAfterFree' /\ NotYetCalled' /\ RefOwnsNothing'
    BY <2>1, <2>3 DEF CellInv, NoUseAfterFree, NotYetCalled, RefOwnsNothing
  <2>8. OnePlace'
    <3>1. \A c \in Cell : c \in lost' => ~Reached(c)'
      BY <2>1, <2>3 DEF CellInv, OnePlace
    <3>2. lost' \subseteq Cell
      BY <2>1, <2>2 DEF TypeOK
    <3> QED
      BY <2>1, <2>2, <3>1, <3>2 DEF CellInv, OnePlace
  <2>9. OnlyLostLeak'
    BY <2>1, <2>3 DEF CellInv, OnlyLostLeak
  <2>10. AtMostOnce' /\ PcMatchesRun'
    BY <2>1 DEF CellInv, AtMostOnce, PcMatchesRun
  <2>11. CellsInOrder'
    <3>1. \A c \in Cell : Unused(c) => Unused(c)'
      BY <2>1, <2>3, <2>6 DEF Unused
    <3>2. ASSUME NEW p \in Post PROVE
             /\ call'[p] = None => Unused(<<p, "post">>)' /\ ran'[p] = 0
             /\ (call'[p] = None \/ call'[p].to = None
                                 \/ Waiting(<<p, "post">>)')
                   => Unused(<<p, "hop">>)'
      BY <2>1, <2>3, <2>4, <3>1 DEF CellInv, CellsInOrder
    <3> QED
      BY <3>2 DEF CellsInOrder
  <2>12. OnItsWay'
    <3> SUFFICES ASSUME NEW p \in Post, Awaited(p)
                 PROVE  \E k \in {"post", "hop"} :
                           Waiting(<<p, k>>)' \/ <<p, k>> \in lost'
      BY <2>5 DEF OnItsWay
    <3>1. PICK k \in {"post", "hop"} : Waiting(<<p, k>>) \/ <<p, k>> \in lost
      BY DEF CellInv, OnItsWay
    <3> QED
      BY <2>1, <2>3, <2>4, <3>1
  <2> QED
    BY <2>7, <2>8, <2>9, <2>10, <2>11, <2>12 DEF CellInv
<1> QED
  BY <1>1, <1>2

LEMMA CellsFire ==
    ASSUME TypeOK, CellInv, NEW b \in Base, NEW c \in Cell, Fire(b, c)
    PROVE  CellInv'
<1> USE ConstantsAssumption
<1>1. /\ run[b] = None /\ c \in pend[b]
      /\ pend' = [pend EXCEPT ![b] = @ \ {c}]
      /\ run' = [run EXCEPT ![b] = c]
      /\ pc' = [pc EXCEPT ![b] = "enter"]
      /\ UNCHANGED <<call, ran, lost, heap>>
  BY DEF Fire, EventTaken, Ready, postVars
<1>2. /\ pend \in [Base -> SUBSET Cell] /\ run \in [Base -> Cell \cup {None}]
      /\ pc \in [Base -> {"loop", "enter", "leave"}]
  BY DEF TypeOK
<1>3. c # None
  BY DEF Cell
<1>4. \A d \in Cell : /\ Reached(d)' <=> Reached(d)
                      /\ Waiting(d)' <=> Waiting(d)
                      /\ Kind(d)' = Kind(d)
                      /\ Unused(d)' <=> Unused(d)
  <2>1. ASSUME NEW d \in Cell PROVE Reached(d)' <=> Reached(d)
    BY <1>1, <1>2, <1>3 DEF Reached, Cell
  <2>2. ASSUME NEW d \in Cell PROVE Waiting(d)' <=> Waiting(d)
    BY <1>1, <1>2, <1>3 DEF Waiting, Cell
  <2> QED
    BY <1>1, <2>1, <2>2 DEF Unused, Kind
<1>5. \A p \in Post, k \in {"post", "hop"} : <<p, k>> \in Cell
  BY DEF Cell
<1>6. /\ NoUseAfterFree' /\ RefOwnsNothing' /\ OnlyLostLeak'
      /\ NotYetCalled' /\ AtMostOnce'
  BY <1>1, <1>4 DEF CellInv, NoUseAfterFree, RefOwnsNothing, OnlyLostLeak,
                    NotYetCalled, AtMostOnce
<1>7. OnePlace'
  <2>1. \A d \in lost' : ~Reached(d)'
    BY <1>1, <1>4 DEF CellInv, OnePlace, TypeOK
  <2>2. \A x, y \in Base : x # y => /\ pend'[x] \cap pend'[y] = {}
                                    /\ run'[x] # None => run'[x] # run'[y]
    BY <1>1, <1>2, <1>3 DEF CellInv, OnePlace
  <2>3. \A x, y \in Base : run'[x] \notin pend'[y]
    BY <1>1, <1>2, <1>3 DEF CellInv, OnePlace
  <2> QED
    BY <2>1, <2>2, <2>3 DEF OnePlace
<1>8. PcMatchesRun'
  BY <1>1, <1>2, <1>3 DEF CellInv, PcMatchesRun
<1>9. CellsInOrder'
  BY <1>1, <1>4, <1>5 DEF CellInv, CellsInOrder
<1>10. OnItsWay'
  BY <1>1, <1>4, <1>5 DEF CellInv, OnItsWay, Awaited
<1> QED
  BY <1>6, <1>7, <1>8, <1>9, <1>10 DEF CellInv

LEMMA CellsCallUser ==
    ASSUME TypeOK, CellInv, NEW b \in Base, CallUser(b)
    PROVE  CellInv'
<1> USE ConstantsAssumption
<1>1. CASE Halt(b, "callable")
  BY <1>1, CellsUntouched DEF Halt, cbVars, postVars, cellVars
<1>2. CASE ~Halt(b, "callable")
  <2> DEFINE c == run[b]  p == c[1]
  <2>1. /\ c # None /\ pc[b] = "enter" /\ Kind(c) # "outer"
        /\ ran' = [ran EXCEPT ![p] = @ + 1]
        /\ pc' = [pc EXCEPT ![b] = "leave"]
        /\ UNCHANGED <<pend, run, call, lost, heap>>
    BY <1>2 DEF CallUser
  <2>2. c \in Cell
    BY <2>1 DEF TypeOK
  <2>3. p \in Post /\ (c = <<p, "post">> \/ c = <<p, "hop">>)
    BY <2>2 DEF Cell
  <2>4. c = run[b]
    OBVIOUS
  <2> HIDE DEF c, p
  <2>5. /\ pend \in [Base -> SUBSET Cell] /\ run \in [Base -> Cell \cup {None}]
        /\ pc \in [Base -> {"loop", "enter", "leave"}]
        /\ ran \in [Post -> Nat]
    BY DEF TypeOK
  <2>6. \A d \in Cell : /\ Reached(d)' <=> Reached(d)
                        /\ Waiting(d)' <=> Waiting(d) /\ d # c
                        /\ Kind(d)' = Kind(d)
                        /\ Unused(d)' <=> Unused(d)
    <3>1. \A d \in Cell : /\ Reached(d)' <=> Reached(d)
                          /\ Kind(d)' = Kind(d)
                          /\ Unused(d)' <=> Unused(d)
      BY <2>1 DEF Reached, Kind, Unused
    <3>2. ASSUME NEW d \in Cell PROVE Waiting(d)' <=> Waiting(d) /\ d # c
      BY <2>1, <2>4, <2>5 DEF Waiting, CellInv, OnePlace
    <3> QED
      BY <3>1, <3>2
  <2>7. \A r \in Post, k \in {"post", "hop"} : <<r, k>> \in Cell
    BY DEF Cell
  <2>8. Waiting(c) /\ Reached(c)
    BY <2>1, <2>4 DEF Waiting, Reached
  <2>9. ran[p] = 0
    BY <2>2, <2>3, <2>8 DEF CellInv, NotYetCalled
  <2>10. ran'[p] = 1 /\ \A r \in Post : r # p => ran'[r] = ran[r]
    BY <2>1, <2>3, <2>5, <2>9
  <2>11. NoUseAfterFree' /\ OnlyLostLeak' /\ RefOwnsNothing'
    BY <2>1, <2>6 DEF CellInv, NoUseAfterFree, OnlyLostLeak, RefOwnsNothing
  <2>12. OnePlace'
    BY <2>1, <2>6 DEF CellInv, OnePlace, TypeOK
  <2>13. AtMostOnce'
    BY <2>5, <2>10 DEF CellInv, AtMostOnce
  <2>14. PcMatchesRun'
    BY <2>1, <2>4, <2>5 DEF CellInv, PcMatchesRun
  <2>15. \A d \in Cell : d # c /\ d[1] = p => ~Waiting(d)
    <3>1. \A d \in Cell : Waiting(d) => ~Unused(d)
      BY DEF Waiting, Unused, Reached
    <3>2. CASE c = <<p, "post">>
      <4>1. Unused(<<p, "hop">>)
        BY <2>3, <2>8, <3>2 DEF CellInv, CellsInOrder
      <4> QED
        BY <2>3, <2>7, <3>1, <3>2, <4>1 DEF Cell
    <3>3. CASE c = <<p, "hop">>
      <4>1. ~Waiting(<<p, "post">>)
        BY <2>3, <2>8, <3>3 DEF CellInv, CellsInOrder, Unused
      <4> QED
        BY <2>3, <3>3, <4>1 DEF Cell
    <3> QED
      BY <2>3, <3>2, <3>3
  <2>16. NotYetCalled'
    <3> SUFFICES ASSUME NEW d \in Cell, Waiting(d)' PROVE ran'[d[1]] = 0
      BY DEF NotYetCalled
    <3>1. Waiting(d) /\ d # c /\ d[1] \in Post
      BY <2>6 DEF Cell
    <3> QED
      BY <2>10, <2>15, <3>1 DEF CellInv, NotYetCalled
  <2>17. CellsInOrder'
    <3>1. call[p] # None
      BY <2>3, <2>7, <2>8 DEF CellInv, CellsInOrder, Unused
    <3> QED
      BY <2>1, <2>6, <2>7, <2>10, <3>1 DEF CellInv, CellsInOrder
  <2>18. OnItsWay'
    <3> SUFFICES ASSUME NEW r \in Post, Awaited(r)'
                 PROVE  \E k \in {"post", "hop"} :
                           Waiting(<<r, k>>)' \/ <<r, k>> \in lost'
      BY DEF OnItsWay
    <3>1. r # p /\ Awaited(r)
      BY <2>1, <2>10 DEF Awaited
    <3>2. PICK k \in {"post", "hop"} : Waiting(<<r, k>>) \/ <<r, k>> \in lost
      BY <3>1 DEF CellInv, OnItsWay
    <3> QED
      BY <2>1, <2>3, <2>6, <2>7, <3>1, <3>2
  <2> QED
    BY <2>11, <2>12, <2>13, <2>14, <2>16, <2>17, <2>18 DEF CellInv
<1> QED
  BY <1>1, <1>2
LEMMA CellsFinish ==
    ASSUME TypeOK, CellInv, NEW b \in Base, Finish(b)
    PROVE  CellInv'
<1> USE ConstantsAssumption
<1> DEFINE c == run[b]
<1>1. /\ c # None /\ pc[b] = "leave"
      /\ heap' = IF Kind(c) = "ref" THEN heap ELSE [heap EXCEPT ![c] = "freed"]
      /\ run' = [run EXCEPT ![b] = None]
      /\ pc' = [pc EXCEPT ![b] = "loop"]
      /\ UNCHANGED <<pend, call, ran, lost>>
  BY DEF Finish, Delete
<1>2. c \in Cell
  BY <1>1 DEF TypeOK
<1>3. c = run[b]
  OBVIOUS
<1> HIDE DEF c
<1>4. /\ pend \in [Base -> SUBSET Cell] /\ run \in [Base -> Cell \cup {None}]
      /\ pc \in [Base -> {"loop", "enter", "leave"}]
      /\ heap \in [Cell -> {"none", "live", "freed"}]
  BY DEF TypeOK
<1>5. Reached(c) /\ ~Waiting(c) /\ c \notin lost
  BY <1>1, <1>2, <1>3, <1>4 DEF Reached, Waiting, CellInv, OnePlace
<1>6. \A d \in Cell : /\ Reached(d)' <=> Reached(d) /\ d # c
                      /\ Waiting(d)' <=> Waiting(d)
                      /\ Kind(d)' = Kind(d)
                      /\ Unused(d) => Unused(d)'
  <2>1. ASSUME NEW d \in Cell PROVE Reached(d)' <=> Reached(d) /\ d # c
    BY <1>1, <1>2, <1>3, <1>4 DEF Reached, CellInv, OnePlace, Cell
  <2>2. ASSUME NEW d \in Cell PROVE Waiting(d)' <=> Waiting(d)
    BY <1>1, <1>3, <1>4, <1>5 DEF Waiting, Cell
  <2>3. ASSUME NEW d \in Cell PROVE Kind(d)' = Kind(d)
    BY <1>1 DEF Kind
  <2>4. ASSUME NEW d \in Cell, Unused(d) PROVE Unused(d)'
    BY <1>1, <1>4, <1>5, <2>1, <2>4 DEF Unused
  <2> QED
    BY <2>1, <2>2, <2>3, <2>4
<1>7. \A p \in Post, k \in {"post", "hop"} : <<p, k>> \in Cell
  BY DEF Cell
<1>8. \A d \in Cell : d # c => heap'[d] = heap[d]
  BY <1>1, <1>4
<1>9. NoUseAfterFree' /\ RefOwnsNothing'
  BY <1>6, <1>8 DEF CellInv, NoUseAfterFree, RefOwnsNothing
<1>10. OnlyLostLeak'
  <2>1. ASSUME heap'[c] = "live" PROVE FALSE
    <3>1. heap[c] = "live" /\ Kind(c) = "ref"
      BY <1>1, <1>2, <1>4, <2>1
    <3> QED
      BY <1>2, <1>5, <3>1 DEF CellInv, RefOwnsNothing
  <2> QED
    BY <1>1, <1>6, <1>8, <2>1 DEF CellInv, OnlyLostLeak
<1>11. OnePlace'
  <2>1. \A d \in lost' : ~Reached(d)'
    BY <1>1, <1>6 DEF CellInv, OnePlace, TypeOK
  <2>2. \A x, y \in Base : x # y => /\ pend'[x] \cap pend'[y] = {}
                                    /\ run'[x] # None => run'[x] # run'[y]
    BY <1>1, <1>4 DEF CellInv, OnePlace
  <2>3. \A x, y \in Base : run'[x] \notin pend'[y]
    BY <1>1, <1>4 DEF CellInv, OnePlace, Cell
  <2> QED
    BY <2>1, <2>2, <2>3 DEF OnePlace
<1>12. AtMostOnce' /\ NotYetCalled'
  BY <1>1, <1>6 DEF CellInv, AtMostOnce, NotYetCalled
<1>13. PcMatchesRun'
  BY <1>1, <1>3, <1>4 DEF CellInv, PcMatchesRun
<1>14. CellsInOrder'
  BY <1>1, <1>6, <1>7 DEF CellInv, CellsInOrder
<1>15. OnItsWay'
  BY <1>1, <1>6, <1>7 DEF CellInv, OnItsWay, Awaited
<1> QED
  BY <1>9, <1>10, <1>11, <1>12, <1>13, <1>14, <1>15 DEF CellInv

\* A new post: both once() and once(other) use a fresh cell.
LEMMA CellsPost ==
    ASSUME TypeOK, CellInv, NEW b \in Base, NEW p \in Post,
           NEW f \in Callable, NEW to \in Queue \cup {None}, NEW ok \in BOOLEAN,
           call[p] = None,
           call' = [call EXCEPT ![p] = [fn |-> f, to |-> to, ok |-> ok]],
           EventBaseOnce(b, <<p, "post">>, ok),
           heap' = IF to = None /\ f \notin Moved THEN heap
                   ELSE [heap EXCEPT ![<<p, "post">>] = "live"],
           UNCHANGED <<run, pc, ran>>
    PROVE  CellInv'
<1> USE ConstantsAssumption
<1> DEFINE c == <<p, "post">>
<1>1. /\ pend' = IF ok THEN [pend EXCEPT ![b] = @ \cup {c}] ELSE pend
      /\ lost' = IF ok THEN lost ELSE lost \cup {c}
      /\ UNCHANGED <<run, pc, ran>>
  BY DEF EventBaseOnce
<1>2. c \in Cell /\ c[1] = p /\ c[2] = "post" /\ <<p, "hop">> \in Cell
      /\ c # <<p, "hop">>
  BY DEF Cell
<1>3. /\ pend \in [Base -> SUBSET Cell] /\ run \in [Base -> Cell \cup {None}]
      /\ heap \in [Cell -> {"none", "live", "freed"}]
      /\ call \in [Post -> Call \cup {None}]
  BY DEF TypeOK
<1>4. Unused(c) /\ Unused(<<p, "hop">>) /\ ran[p] = 0
  BY DEF CellInv, CellsInOrder
<1>5. /\ call'[p] # None
      /\ call'[p].to = to /\ call'[p].fn = f /\ call'[p].ok = ok
      /\ \A r \in Post : r # p => call'[r] = call[r]
  <2>1. [fn |-> f, to |-> to, ok |-> ok] \in Call
    BY DEF Call
  <2> QED
    BY <1>3, <2>1
<1>6. \A d \in Cell : d # c => heap'[d] = heap[d]
  BY <1>2, <1>3
<1>7. /\ Kind(c)' = "ref" => heap'[c] = "none"
      /\ Kind(c)' # "ref" => heap'[c] = "live"
  <2>1. Kind(c)' = "ref" <=> to = None /\ f \notin Moved
    BY <1>2, <1>5 DEF Kind
  <2> QED
    BY <1>2, <1>3, <1>4, <2>1 DEF Unused
<1> HIDE DEF c
<1>8. \A d \in Cell : /\ Reached(d)' <=> Reached(d) \/ (d = c /\ ok)
                      /\ Waiting(d)' <=> Waiting(d) \/ (d = c /\ ok)
  <2>1. ASSUME NEW d \in Cell PROVE Reached(d)' <=> Reached(d) \/ (d = c /\ ok)
    BY <1>1, <1>3 DEF Reached
  <2>2. ASSUME NEW d \in Cell PROVE Waiting(d)' <=> Waiting(d) \/ (d = c /\ ok)
    BY <1>1, <1>3 DEF Waiting
  <2> QED
    BY <2>1, <2>2
<1>9. \A d \in Cell : /\ d[1] # p => Kind(d)' = Kind(d)
                      /\ d # c => (Unused(d)' <=> Unused(d))
  <2>1. ASSUME NEW d \in Cell, d[1] # p PROVE Kind(d)' = Kind(d)
    BY <1>5, <2>1 DEF Kind, Cell
  <2>2. ASSUME NEW d \in Cell, d # c PROVE Unused(d)' <=> Unused(d)
    BY <1>1, <1>6, <1>8, <2>2 DEF Unused
  <2> QED
    BY <2>1, <2>2
<1>10. \A d \in Cell : Reached(d)' => d = c \/ d[1] # p
  BY <1>2, <1>4, <1>8 DEF Unused, Cell
<1>11. \A r \in Post, k \in {"post", "hop"} :
          <<r, k>> \in Cell /\ (r # p => <<r, k>> # c)
  BY <1>2 DEF Cell
<1>12. NoUseAfterFree' /\ RefOwnsNothing'
  BY <1>6, <1>7, <1>8, <1>9, <1>10 DEF CellInv, NoUseAfterFree, RefOwnsNothing
<1>13. OnlyLostLeak'
  BY <1>1, <1>6, <1>8 DEF CellInv, OnlyLostLeak
<1>14. OnePlace'
  <2>1. \A d \in lost' : ~Reached(d)'
    <3>1. \A d \in Cell : d \in lost' => d \in lost \/ (d = c /\ ~ok)
      BY <1>1
    <3>2. lost' \subseteq Cell
      BY <1>1, <1>2 DEF TypeOK
    <3> QED
      BY <1>4, <1>8, <3>1, <3>2 DEF CellInv, OnePlace, Unused
  <2>2. \A x \in Base : c \notin pend[x] /\ run[x] # c
    BY <1>4 DEF Unused, Reached
  <2>3. \A x, y \in Base : x # y => /\ pend'[x] \cap pend'[y] = {}
                                    /\ run'[x] # None => run'[x] # run'[y]
    BY <1>1, <1>3, <2>2 DEF CellInv, OnePlace
  <2>4. \A x, y \in Base : run'[x] \notin pend'[y]
    BY <1>1, <1>3, <2>2 DEF CellInv, OnePlace
  <2> QED
    BY <2>1, <2>3, <2>4 DEF OnePlace
<1>15. AtMostOnce' /\ PcMatchesRun'
  BY <1>1 DEF CellInv, AtMostOnce, PcMatchesRun
<1>16. NotYetCalled'
  BY <1>1, <1>2, <1>4, <1>8 DEF CellInv, NotYetCalled
<1>17. CellsInOrder'
  <2> SUFFICES ASSUME NEW r \in Post
               PROVE  /\ call'[r] = None
                            => Unused(<<r, "post">>)' /\ ran'[r] = 0
                      /\ (call'[r] = None \/ call'[r].to = None
                                          \/ Waiting(<<r, "post">>)')
                            => Unused(<<r, "hop">>)'
    BY DEF CellsInOrder
  <2>1. CASE r = p
    <3>1. call'[p] # None
      BY <1>3, <1>5
    <3> QED
      BY <1>2, <1>4, <1>9, <2>1, <3>1
  <2>2. CASE r # p
    BY <1>1, <1>5, <1>8, <1>9, <1>11, <2>2 DEF CellInv, CellsInOrder
  <2> QED
    BY <2>1, <2>2
<1>18. OnItsWay'
  <2> SUFFICES ASSUME NEW r \in Post, Awaited(r)'
               PROVE  \E k \in {"post", "hop"} :
                         Waiting(<<r, k>>)' \/ <<r, k>> \in lost'
    BY DEF OnItsWay
  <2>1. CASE r = p
    BY <1>1, <1>2, <1>5, <1>8, <2>1 DEF Awaited, c
  <2>2. CASE r # p
    BY <1>1, <1>5, <1>8, <1>11, <2>2 DEF CellInv, OnItsWay, Awaited
  <2> QED
    BY <2>1, <2>2
<1> QED
  BY <1>12, <1>13, <1>14, <1>15, <1>16, <1>17, <1>18 DEF CellInv

LEMMA CellsRequeue ==
    ASSUME TypeOK, CellInv, NEW b \in Base, Requeue(b)
    PROVE  CellInv'
<1> USE ConstantsAssumption
<1>1. CASE \E why \in {"callable", "queue", "handle"} : Halt(b, why)
  BY <1>1, CellsUntouched DEF Halt, cbVars, postVars, cellVars
<1>2. CASE ~ \E why \in {"callable", "queue", "handle"} : Halt(b, why)
  <2> DEFINE c == run[b]  p == c[1]  h == <<p, "hop">>
             other == handle[call[p].to]
  <2>1. /\ c # None /\ pc[b] = "enter" /\ Kind(c) = "outer"
        /\ other \in Base
        /\ \E ok \in BOOLEAN : EventBaseOnce(other, h, ok)
        /\ heap' = [heap EXCEPT ![h] = "live"]
        /\ pc' = [pc EXCEPT ![b] = "leave"]
        /\ UNCHANGED <<run, call, ran>>
    BY <1>2 DEF Requeue, PostedTo, RequeueDone
  <2>2. PICK ok \in BOOLEAN : EventBaseOnce(other, h, ok)
    BY <2>1
  <2>3. c \in Cell
    BY <2>1 DEF TypeOK
  <2>4. p \in Post /\ c = <<p, "post">> /\ h \in Cell /\ h # c /\ h[1] = p
        /\ h[2] = "hop"
    BY <2>1, <2>3 DEF Cell, Kind
  <2>5. c = run[b]
    OBVIOUS
  <2> HIDE DEF c, p, h, other
  <2>6. /\ pend' = IF ok THEN [pend EXCEPT ![other] = @ \cup {h}] ELSE pend
        /\ lost' = IF ok THEN lost ELSE lost \cup {h}
    BY <2>2 DEF EventBaseOnce
  <2>7. /\ pend \in [Base -> SUBSET Cell] /\ run \in [Base -> Cell \cup {None}]
        /\ pc \in [Base -> {"loop", "enter", "leave"}]
        /\ heap \in [Cell -> {"none", "live", "freed"}]
    BY DEF TypeOK
  <2>8. Waiting(c) /\ Reached(c)
    BY <2>1, <2>5 DEF Waiting, Reached
  <2>9. Unused(h) /\ ran[p] = 0 /\ call[p] # None /\ call[p].to # None
    <3>1. Unused(h)
      BY <2>4, <2>8 DEF CellInv, CellsInOrder, h
    <3>2. ran[p] = 0
      BY <2>4, <2>8 DEF CellInv, NotYetCalled, Cell
    <3>3. call[p] # None
      BY <2>4, <2>8 DEF CellInv, CellsInOrder, Unused
    <3> QED
      BY <2>1, <2>4, <3>1, <3>2, <3>3 DEF Kind
  <2>10. heap'[h] = "live" /\ \A d \in Cell : d # h => heap'[d] = heap[d]
    BY <2>1, <2>4, <2>7
  <2>11. \A d \in Cell : /\ Reached(d)' <=> Reached(d) \/ (d = h /\ ok)
                         /\ Waiting(d)' <=> (Waiting(d) /\ d # c)
                                             \/ (d = h /\ ok)
                         /\ Kind(d)' = Kind(d)
                         /\ d # h => (Unused(d)' <=> Unused(d))
    <3>1. ASSUME NEW d \in Cell
          PROVE  Reached(d)' <=> Reached(d) \/ (d = h /\ ok)
      BY <2>1, <2>6, <2>7 DEF Reached
    <3>2. ASSUME NEW d \in Cell
          PROVE  Waiting(d)' <=> (Waiting(d) /\ d # c) \/ (d = h /\ ok)
      <4>1. \A x \in Base : d \in pend'[x]
                <=> d \in pend[x] \/ (d = h /\ ok /\ x = other)
        BY <2>1, <2>6, <2>7
      <4>2. \A x \in Base : run'[x] = d /\ pc'[x] = "enter"
                <=> run[x] = d /\ pc[x] = "enter" /\ x # b
        BY <2>1, <2>7
      <4>3. \A x \in Base : d = c => d \notin pend[x]
                                     /\ (x # b => run[x] # d)
        BY <2>1, <2>5 DEF CellInv, OnePlace
      <4> QED
        BY <2>1, <2>5, <4>1, <4>2, <4>3 DEF Waiting
    <3>3. ASSUME NEW d \in Cell PROVE Kind(d)' = Kind(d)
      BY <2>1 DEF Kind
    <3>4. ASSUME NEW d \in Cell, d # h PROVE Unused(d)' <=> Unused(d)
      BY <2>6, <2>10, <3>1, <3>4 DEF Unused
    <3> QED
      BY <3>1, <3>2, <3>3, <3>4
  <2>12. \A r \in Post, k \in {"post", "hop"} :
            <<r, k>> \in Cell /\ (r # p => <<r, k>> # c /\ <<r, k>> # h)
    BY <2>4 DEF Cell
  <2>13. NoUseAfterFree' /\ RefOwnsNothing'
    <3>1. Kind(h) = "inner"
      BY <2>4 DEF Kind
    <3> QED
      BY <2>10, <2>11, <3>1 DEF CellInv, NoUseAfterFree, RefOwnsNothing
  <2>14. OnlyLostLeak'
    BY <2>6, <2>10, <2>11 DEF CellInv, OnlyLostLeak
  <2>15. OnePlace'
    <3>1. \A d \in lost' : ~Reached(d)'
      <4>1. \A d \in Cell : d \in lost' => d \in lost \/ (d = h /\ ~ok)
        BY <2>6
      <4>2. lost' \subseteq Cell
        BY <2>4, <2>6 DEF TypeOK
      <4> QED
        BY <2>9, <2>11, <4>1, <4>2 DEF CellInv, OnePlace, Unused
    <3>2. \A x \in Base : h \notin pend[x] /\ run[x] # h
      BY <2>9 DEF Unused, Reached
    <3>3. \A x, y \in Base : x # y => /\ pend'[x] \cap pend'[y] = {}
                                      /\ run'[x] # None => run'[x] # run'[y]
      BY <2>1, <2>6, <2>7, <3>2 DEF CellInv, OnePlace
    <3>4. \A x, y \in Base : run'[x] \notin pend'[y]
      BY <2>1, <2>6, <2>7, <3>2 DEF CellInv, OnePlace
    <3> QED
      BY <3>1, <3>3, <3>4 DEF OnePlace
  <2>16. AtMostOnce' /\ PcMatchesRun'
    BY <2>1, <2>5, <2>7 DEF CellInv, AtMostOnce, PcMatchesRun
  <2>17. NotYetCalled'
    BY <2>1, <2>4, <2>9, <2>11 DEF CellInv, NotYetCalled
  <2>18. CellsInOrder'
    <3> SUFFICES ASSUME NEW r \in Post
                 PROVE  /\ call'[r] = None
                              => Unused(<<r, "post">>)' /\ ran'[r] = 0
                        /\ (call'[r] = None \/ call'[r].to = None
                                            \/ Waiting(<<r, "post">>)')
                              => Unused(<<r, "hop">>)'
      BY DEF CellsInOrder
    <3>1. CASE r = p
      BY <2>1, <2>4, <2>9, <2>11, <2>12, <3>1
    <3>2. CASE r # p
      BY <2>1, <2>11, <2>12, <3>2 DEF CellInv, CellsInOrder
    <3> QED
      BY <3>1, <3>2
  <2>19. OnItsWay'
    <3> SUFFICES ASSUME NEW r \in Post, Awaited(r)'
                 PROVE  \E k \in {"post", "hop"} :
                           Waiting(<<r, k>>)' \/ <<r, k>> \in lost'
      BY DEF OnItsWay
    <3>1. CASE r = p
      BY <2>4, <2>6, <2>11, <3>1 DEF h
    <3>2. CASE r # p
      BY <2>1, <2>6, <2>11, <2>12, <3>2 DEF CellInv, OnItsWay, Awaited
    <3> QED
      BY <3>1, <3>2
  <2> QED
    BY <2>13, <2>14, <2>15, <2>16, <2>17, <2>18, <2>19 DEF CellInv
<1> QED
  BY <1>1, <1>2

\* The steps that touch no cell.
LEMMA QuietSteps ==
    ASSUME \/ \E q \in Queue, b \in Base : \/ Create(q, b) \/ Assign(q, b)
                                           \/ \E that \in Queue :
                                                 MoveConstruct(q, that, b)
           \/ \E q, that \in Queue : MoveAssign(q, that)
           \/ \E q \in Queue : \/ Dispatch(q) \/ Loop(q)
                               \/ LoopExit(q) \/ LoopBreak(q)
           \/ \E f \in Callable : DropCallable(f)
           \/ \E b \in Base : ExitFires(b) \/ LoopReturn(b)
           \/ UNCHANGED vars
    PROVE  UNCHANGED cellVars
<1> USE DEF cbVars, postVars, cellVars
<1>1. CASE \E q \in Queue, b \in Base : \/ Create(q, b) \/ Assign(q, b)
                                        \/ \E that \in Queue :
                                              MoveConstruct(q, that, b)
  BY <1>1 DEF Create, Assign, MoveConstruct
<1>2. CASE \E q, that \in Queue : MoveAssign(q, that)
  BY <1>2 DEF MoveAssign
<1>3. CASE \E q \in Queue : \/ Dispatch(q) \/ Loop(q)
                            \/ LoopExit(q) \/ LoopBreak(q)
  BY <1>3 DEF Dispatch, Loop, Enter, LoopExit, LoopBreak
<1>4. CASE \E f \in Callable : DropCallable(f)
  BY <1>4 DEF DropCallable
<1>5. CASE \E b \in Base : ExitFires(b) \/ LoopReturn(b)
  BY <1>5 DEF ExitFires, LoopReturn
<1>6. CASE UNCHANGED vars
  BY <1>6 DEF vars
<1> QED
  BY <1>1, <1>2, <1>3, <1>4, <1>5, <1>6

LEMMA CellsInductive == TypeOK /\ CellInv /\ [Next]_vars => CellInv'
<1> SUFFICES ASSUME TypeOK, CellInv, [Next]_vars PROVE CellInv'
  OBVIOUS
<1>1. ASSUME NEW q \in Queue, NEW p \in Post, NEW f \in Callable,
             NEW ok \in BOOLEAN, Once(q, p, f, ok)
      PROVE  CellInv'
  BY <1>1, CellsPost DEF Once, CanPost
<1>2. ASSUME NEW q \in Queue, NEW p \in Post, NEW f \in Callable,
             NEW ok \in BOOLEAN, NEW other \in Queue,
             OnceOther(q, other, p, f, ok)
      PROVE  CellInv'
  BY <1>2, CellsPost, ConstantsAssumption DEF OnceOther, CanPost
<1>3. ASSUME NEW q \in Queue, Destroy(q) \/ Destruct(q)
      PROVE  CellInv'
  BY <1>3, CellsFree DEF Destroy, Destruct
<1>4. ASSUME NEW b \in Base,
             \/ CallUser(b) \/ Requeue(b) \/ Finish(b)
             \/ \E c \in Cell : Fire(b, c)
      PROVE  CellInv'
  BY <1>4, CellsFire, CellsCallUser, CellsFinish, CellsRequeue
<1>5. CASE UNCHANGED cellVars
  BY <1>5, CellsUntouched
<1> QED
  BY <1>1, <1>2, <1>3, <1>4, <1>5, QuietSteps DEF Next

-----------------------------------------------------------------------------
LEMMA InitInv == Init => IInv
<1> USE ConstantsAssumption
<1> SUFFICES ASSUME Init PROVE IInv
  OBVIOUS
<1>1. TypeOK
  BY DEF Init, TypeOK
<1>2. \A c \in Cell : Unused(c) /\ ~Reached(c) /\ ~Waiting(c)
  BY DEF Init, Unused, Reached, Waiting, Cell
<1>3. UniqueOwner /\ PcMatchesRun /\ AtMostOnce
  BY DEF Init, UniqueOwner, PcMatchesRun, AtMostOnce
<1>4. NoUseAfterFree /\ RefOwnsNothing /\ NotYetCalled
  BY <1>2 DEF NoUseAfterFree, RefOwnsNothing, NotYetCalled
<1>5. OnlyLostLeak
  BY DEF Init, OnlyLostLeak
<1>6. OnePlace
  BY DEF Init, OnePlace
<1>7. CellsInOrder
  <2>1. \A p \in Post, k \in {"post", "hop"} : <<p, k>> \in Cell
    BY DEF Cell
  <2> QED
    BY <1>2, <2>1 DEF Init, CellsInOrder
<1>8. OnItsWay
  BY DEF Init, OnItsWay, Awaited
<1> QED
  BY <1>1, <1>3, <1>4, <1>5, <1>6, <1>7, <1>8 DEF IInv

LEMMA StepInv == IInv /\ [Next]_vars => IInv'
BY TypeInductive, OwnerInductive, CellsInductive DEF IInv, CellInv

\* Every variable of the queue model keeps its type.
THEOREM TypeCorrect == Spec => []TypeOK
<1>1. Init => TypeOK
  BY InitInv DEF IInv
<1> QED
  BY <1>1, TypeInductive, PTL DEF Spec

\* The inductive invariant holds in every reachable state.
THEOREM Invariance == Spec => []IInv
BY InitInv, StepInv, PTL DEF Spec

\* No base is owned twice or owned after it was freed.
THEOREM Ownership == Spec => []UniqueOwner
<1>1. IInv => UniqueOwner
  BY DEF IInv
<1> QED
  BY <1>1, Invariance, PTL

\* libevent never holds the address of a deleted closure, for any number of
\* queues, threads and posts, and whatever the callers destroy.
THEOREM ClosureSafety == Spec => [](NoUseAfterFree /\ OnePlace)
<1>1. IInv => NoUseAfterFree /\ OnePlace
  BY DEF IInv
<1> QED
  BY <1>1, Invariance, PTL

\* A closure is leaked only by a refused event or a freed base.
THEOREM LeakFreedom == Spec => []OnlyLostLeak
<1>1. IInv => OnlyLostLeak
  BY DEF IInv
<1> QED
  BY <1>1, Invariance, PTL

\* One call of once() never enters the user's function twice.
THEOREM CalledAtMostOnce == Spec => []AtMostOnce
<1>1. IInv => AtMostOnce
  BY DEF IInv
<1> QED
  BY <1>1, Invariance, PTL

\* An accepted function is on its way, or one of its cells was lost.
THEOREM NothingForgotten == Spec => []NotForgotten
<1>1. IInv => NotForgotten
  BY DEF IInv, OnItsWay, NotForgotten, Waiting, Reached
<1> QED
  BY <1>1, Invariance, PTL

-----------------------------------------------------------------------------
(* Queue implements Delivery. *)

\* A post with a waiting cell was accepted and has lost none of its cells.
WaitingAccepted ==
    \A p \in Post, k \in {"post", "hop"} : Waiting(<<p, k>>) =>
        /\ call[p] # None /\ call[p].ok
        /\ \A j \in {"post", "hop"} : <<p, j>> \notin lost

DInv == IInv /\ WaitingAccepted

LEMMA CellMembers ==
    \A p \in Post, k \in {"post", "hop"} : <<p, k>> \in Cell
BY DEF Cell

LEMMA AcceptedUntouched ==
    WaitingAccepted /\ UNCHANGED cellVars => WaitingAccepted'
BY DEF WaitingAccepted, cellVars, Waiting

LEMMA AcceptedFree ==
    ASSUME IInv, WaitingAccepted, NEW q \in Queue, NEW left \in {None, Raw},
           FreeHandle(q, left)
    PROVE  WaitingAccepted'
<1>1. CASE handle[q] = None
  BY <1>1, AcceptedUntouched DEF FreeHandle, cellVars
<1>2. CASE handle[q] # None
  <2> DEFINE b0 == handle[q]
  <2>1. /\ b0 \in Base
        /\ pend' = [pend EXCEPT ![b0] = {}]
        /\ lost' = lost \cup pend[b0]
        /\ UNCHANGED <<run, pc, call>>
    BY <1>2 DEF FreeHandle, IInv, TypeOK
  <2>2. pend \in [Base -> SUBSET Cell]
    BY DEF IInv, TypeOK
  <2> HIDE DEF b0
  <2>3. SUFFICES ASSUME NEW p \in Post, NEW k \in {"post", "hop"},
                        Waiting(<<p, k>>)'
                 PROVE  /\ call[p] # None /\ call[p].ok
                        /\ \A j \in {"post", "hop"} : <<p, j>> \notin lost'
    BY <2>1 DEF WaitingAccepted
  <2>4. Waiting(<<p, k>>) /\ <<p, k>> \notin pend[b0]
    BY <2>1, <2>2, <2>3, CellMembers DEF Waiting, IInv, OnePlace
  <2>5. ASSUME NEW j \in {"post", "hop"} PROVE <<p, j>> \notin pend[b0]
    <3>1. <<p, j>> \in pend[b0] => Waiting(<<p, j>>) /\ Reached(<<p, j>>)
      BY <2>1 DEF Waiting, Reached
    <3>2. Waiting(<<p, k>>) => Reached(<<p, k>>)
      BY DEF Waiting, Reached
    <3> QED
      BY <2>4, <3>1, <3>2 DEF IInv, CellsInOrder, Unused
  <2> QED
    BY <2>1, <2>4, <2>5 DEF WaitingAccepted
<1> QED
  BY <1>1, <1>2

LEMMA AcceptedPost ==
    ASSUME IInv, WaitingAccepted, NEW b \in Base, NEW p \in Post,
           NEW f \in Callable, NEW to \in Queue \cup {None}, NEW ok \in BOOLEAN,
           call[p] = None,
           call' = [call EXCEPT ![p] = [fn |-> f, to |-> to, ok |-> ok]],
           EventBaseOnce(b, <<p, "post">>, ok),
           UNCHANGED <<run, pc>>
    PROVE  WaitingAccepted'
<1>1. /\ pend' = IF ok THEN [pend EXCEPT ![b] = @ \cup {<<p, "post">>}]
                 ELSE pend
      /\ lost' = IF ok THEN lost ELSE lost \cup {<<p, "post">>}
      /\ pend \in [Base -> SUBSET Cell] /\ call \in [Post -> Call \cup {None}]
  BY DEF EventBaseOnce, IInv, TypeOK
<1>2. Unused(<<p, "post">>) /\ Unused(<<p, "hop">>)
  BY DEF IInv, CellsInOrder
<1>3. SUFFICES ASSUME NEW r \in Post, NEW k \in {"post", "hop"},
                      Waiting(<<r, k>>)'
               PROVE  /\ call'[r] # None /\ call'[r].ok
                      /\ \A j \in {"post", "hop"} : <<r, j>> \notin lost'
  BY DEF WaitingAccepted
<1>4. CASE r = p
  <2>1. call'[p] = [fn |-> f, to |-> to, ok |-> ok] /\ call'[p] # None
    <3>1. [fn |-> f, to |-> to, ok |-> ok] \in Call
      BY DEF Call
    <3> QED
      BY <1>1, <3>1, ConstantsAssumption
  <2>2. ~Waiting(<<p, "post">>) /\ ~Waiting(<<p, "hop">>)
    BY <1>2 DEF Unused, Reached, Waiting
  <2>3. ok
    BY <1>1, <1>3, <1>4, <2>2 DEF Waiting
  <2> QED
    BY <1>1, <1>2, <1>4, <2>1, <2>3 DEF Unused
<1>5. CASE r # p
  <2>1. Waiting(<<r, k>>)
    BY <1>1, <1>3, <1>5 DEF Waiting
  <2> QED
    BY <1>1, <1>5, <2>1 DEF WaitingAccepted
<1> QED
  BY <1>4, <1>5

LEMMA AcceptedRequeue ==
    ASSUME IInv, WaitingAccepted, NEW b \in Base, Requeue(b)
    PROVE  WaitingAccepted'
<1>1. CASE \E why \in {"callable", "queue", "handle"} : Halt(b, why)
  BY <1>1, AcceptedUntouched DEF Halt, cbVars, postVars, cellVars
<1>2. CASE ~ \E why \in {"callable", "queue", "handle"} : Halt(b, why)
  <2>1. PICK p \in Post, other \in Base, ok \in BOOLEAN :
           /\ run[b] = <<p, "post">> /\ pc[b] = "enter"
           /\ EventBaseOnce(other, <<p, "hop">>, ok)
           /\ pc' = [pc EXCEPT ![b] = "leave"]
           /\ UNCHANGED <<run, call>>
    <3>1. run[b] \in Cell
      BY <1>2 DEF Requeue, IInv, TypeOK
    <3>2. run[b] = <<run[b][1], "post">> /\ run[b][1] \in Post
      BY <1>2, <3>1 DEF Requeue, Kind, Cell
    <3> QED
      BY <1>2, <3>2 DEF Requeue, PostedTo, RequeueDone
  <2>2. /\ pend' = IF ok THEN [pend EXCEPT ![other] = @ \cup {<<p, "hop">>}]
                   ELSE pend
        /\ lost' = IF ok THEN lost ELSE lost \cup {<<p, "hop">>}
        /\ pend \in [Base -> SUBSET Cell]
        /\ pc \in [Base -> {"loop", "enter", "leave"}]
    BY <2>1 DEF EventBaseOnce, IInv, TypeOK
  <2>3. Waiting(<<p, "post">>)
    BY <2>1 DEF Waiting
  <2>4. Unused(<<p, "hop">>)
    BY <2>3 DEF IInv, CellsInOrder
  <2>5. SUFFICES ASSUME NEW r \in Post, NEW k \in {"post", "hop"},
                        Waiting(<<r, k>>)'
                 PROVE  /\ call[r] # None /\ call[r].ok
                        /\ \A j \in {"post", "hop"} : <<r, j>> \notin lost'
    BY <2>1 DEF WaitingAccepted
  <2>6. CASE r # p
    <3>1. Waiting(<<r, k>>)
      BY <2>1, <2>2, <2>5, <2>6 DEF Waiting
    <3> QED
      BY <2>2, <2>6, <3>1 DEF WaitingAccepted
  <2>7. CASE r = p
    <3>1. ok
      <4>1. ~Waiting(<<p, "hop">>)
        BY <2>4 DEF Unused, Reached, Waiting
      <4>2. \A x \in Base : /\ <<p, "post">> \notin pend[x]
                            /\ x # b => run[x] # <<p, "post">>
        BY <2>1, CellMembers, ConstantsAssumption DEF IInv, OnePlace
      <4> QED
        BY <2>1, <2>2, <2>5, <2>7, <4>1, <4>2 DEF Waiting
    <3> QED
      BY <2>2, <2>3, <2>7, <3>1 DEF WaitingAccepted
  <2> QED
    BY <2>6, <2>7
<1> QED
  BY <1>1, <1>2

LEMMA AcceptedCallbacks ==
    ASSUME IInv, WaitingAccepted, NEW b \in Base,
           CallUser(b) \/ Finish(b) \/ \E c \in Cell : Fire(b, c)
    PROVE  WaitingAccepted'
<1>1. /\ pend \in [Base -> SUBSET Cell]
      /\ pc \in [Base -> {"loop", "enter", "leave"}]
      /\ run \in [Base -> Cell \cup {None}]
  BY DEF IInv, TypeOK
<1>2. UNCHANGED <<call, lost>>
  BY DEF CallUser, Halt, Finish, Fire, postVars
<1>3. ASSUME NEW d \in Cell, Waiting(d)' PROVE Waiting(d)
  <2>1. CASE CallUser(b)
    <3>1. CASE Halt(b, "callable")
      BY <1>3, <3>1 DEF Halt, cbVars, Waiting
    <3>2. CASE ~Halt(b, "callable")
      BY <1>1, <1>3, <2>1, <3>2 DEF CallUser, Waiting
    <3> QED
      BY <3>1, <3>2
  <2>2. CASE Finish(b)
    BY <1>1, <1>3, <2>2 DEF Finish, Waiting
  <2>3. ASSUME NEW c \in Cell, Fire(b, c) PROVE Waiting(d)
    BY <1>1, <1>3, <2>3 DEF Fire, EventTaken, Waiting
  <2> QED
    BY <2>1, <2>2, <2>3
<1> QED
  BY <1>2, <1>3, CellMembers DEF WaitingAccepted

LEMMA AcceptedInductive ==
    IInv /\ WaitingAccepted /\ [Next]_vars => WaitingAccepted'
<1> SUFFICES ASSUME IInv, WaitingAccepted, [Next]_vars PROVE WaitingAccepted'
  OBVIOUS
<1>1. ASSUME NEW q \in Queue, NEW p \in Post, NEW f \in Callable,
             NEW ok \in BOOLEAN, Once(q, p, f, ok)
      PROVE  WaitingAccepted'
  BY <1>1, AcceptedPost DEF Once, CanPost
<1>2. ASSUME NEW q \in Queue, NEW p \in Post, NEW f \in Callable,
             NEW ok \in BOOLEAN, NEW other \in Queue,
             OnceOther(q, other, p, f, ok)
      PROVE  WaitingAccepted'
  BY <1>2, AcceptedPost DEF OnceOther, CanPost
<1> QED
  BY <1>1, <1>2, QuietSteps, AcceptedUntouched, AcceptedFree, AcceptedRequeue,
     AcceptedCallbacks DEF Next, Destroy, Destruct

LEMMA DInvariance == Spec => []DInv
<1>1. Init => DInv
  <2>1. Init => WaitingAccepted
    BY ConstantsAssumption, CellMembers DEF Init, WaitingAccepted, Waiting
  <2> QED
    BY <2>1, InitInv DEF DInv
<1>2. DInv /\ [Next]_vars => DInv'
  BY StepInv, AcceptedInductive DEF DInv
<1> QED
  BY <1>1, <1>2, PTL DEF Spec

-----------------------------------------------------------------------------
(* The simulation.                                                          *)

fates == [p \in Post |-> Fate(p)]

\* A step that leaves every fate alone, or changes it as Delivery says.
LEMMA FatesFree ==
    ASSUME DInv, NEW q \in Queue, NEW left \in {None, Raw}, FreeHandle(q, left)
    PROVE  \E S \in SUBSET Post : D!Drop(S)
<1> DEFINE S == {p \in Post : Fate(p) = "accepted" /\ Fate(p)' = "dropped"}
<1>1. lost \subseteq lost' /\ UNCHANGED <<call, ran>>
  BY DEF FreeHandle
<1>2. \A p \in Post \ S : Fate(p)' = Fate(p)
  BY <1>1 DEF Fate
<1>3. D!Drop(S)
  BY <1>2 DEF D!Drop
<1> QED
  BY <1>3

LEMMA FatesPost ==
    ASSUME DInv, NEW b \in Base, NEW p \in Post,
           NEW f \in Callable, NEW to \in Queue \cup {None}, NEW ok \in BOOLEAN,
           call[p] = None,
           call' = [call EXCEPT ![p] = [fn |-> f, to |-> to, ok |-> ok]],
           EventBaseOnce(b, <<p, "post">>, ok),
           UNCHANGED ran
    PROVE  D!Accept(p) \/ D!Refuse(p)
<1>1. call \in [Post -> Call \cup {None}]
  BY DEF DInv, IInv, TypeOK
<1>2. call'[p] = [fn |-> f, to |-> to, ok |-> ok] /\ call'[p] # None
  <2>1. [fn |-> f, to |-> to, ok |-> ok] \in Call
    BY DEF Call
  <2> QED
    BY <1>1, <2>1, ConstantsAssumption
<1>3. /\ ran[p] = 0 /\ \A k \in {"post", "hop"} : <<p, k>> \notin lost
  BY DEF DInv, IInv, CellsInOrder, Unused
<1>4. Fate(p) = "new"
  BY DEF Fate
<1>5. Fate(p)' = IF ok THEN "accepted" ELSE "refused"
  BY <1>2, <1>3 DEF Fate, EventBaseOnce
<1>6. \A r \in Post : r # p => Fate(r)' = Fate(r)
  BY <1>1 DEF Fate, EventBaseOnce
<1> QED
  BY <1>4, <1>5, <1>6 DEF D!Accept, D!Refuse

LEMMA FatesCallUser ==
    ASSUME DInv, NEW b \in Base, CallUser(b)
    PROVE  UNCHANGED fates \/ \E p \in Post : D!Deliver(p)
<1>1. CASE Halt(b, "callable")
  BY <1>1 DEF Halt, postVars, fates, Fate
<1>2. CASE ~Halt(b, "callable")
  <2>1. PICK p \in Post, k \in {"post", "hop"} :
           /\ run[b] = <<p, k>> /\ pc[b] = "enter"
           /\ ran' = [ran EXCEPT ![p] = @ + 1]
           /\ UNCHANGED <<call, lost>>
    <3>1. run[b] \in Cell
      BY <1>2 DEF CallUser, DInv, IInv, TypeOK
    <3> QED
      BY <1>2, <3>1 DEF CallUser, Cell
  <2>2. Waiting(<<p, k>>)
    BY <2>1 DEF Waiting
  <2>3. /\ call[p] # None /\ call[p].ok /\ ran[p] = 0
        /\ \A j \in {"post", "hop"} : <<p, j>> \notin lost
    BY <2>2, CellMembers DEF DInv, WaitingAccepted, IInv, NotYetCalled
  <2>4. ran \in [Post -> Nat]
    BY DEF DInv, IInv, TypeOK
  <2>5. ran'[p] = 1 /\ \A r \in Post : r # p => ran'[r] = ran[r]
    BY <2>1, <2>3, <2>4
  <2>6. Fate(p) = "accepted" /\ Fate(p)' = "called"
    BY <2>1, <2>3, <2>5 DEF Fate
  <2>7. \A r \in Post : r # p => Fate(r)' = Fate(r)
    BY <2>1, <2>5 DEF Fate
  <2> QED
    BY <2>6, <2>7 DEF D!Deliver
<1> QED
  BY <1>1, <1>2

LEMMA FatesRequeue ==
    ASSUME DInv, NEW b \in Base, Requeue(b)
    PROVE  UNCHANGED fates \/ \E S \in SUBSET Post : D!Drop(S)
<1>1. lost \subseteq lost' /\ UNCHANGED <<call, ran>>
  BY DEF Requeue, EventBaseOnce, Halt, postVars
<1> DEFINE S == {p \in Post : Fate(p) = "accepted" /\ Fate(p)' = "dropped"}
<1>2. \A p \in Post \ S : Fate(p)' = Fate(p)
  BY <1>1 DEF Fate
<1>3. D!Drop(S)
  BY <1>2 DEF D!Drop
<1> QED
  BY <1>3

\* Queue implements Delivery, for every number of queues, bases and posts.
THEOREM DeliveryRefined == Spec => DeliverySpec
<1>1. Init => D!Init
  BY DEF Init, D!Init, Fate
<1>2. DInv /\ [Next]_vars => [D!Next]_fates
  <2> SUFFICES ASSUME DInv, [Next]_vars PROVE [D!Next]_fates
    OBVIOUS
  <2>1. ASSUME UNCHANGED cellVars PROVE UNCHANGED fates
    BY <2>1 DEF cellVars, fates, Fate
  <2>2. ASSUME NEW b \in Base, Finish(b) \/ \E c \in Cell : Fire(b, c)
        PROVE  UNCHANGED fates
    BY <2>2 DEF Finish, Fire, postVars, fates, Fate
  <2>3. ASSUME NEW q \in Queue, NEW p \in Post, NEW f \in Callable,
               NEW ok \in BOOLEAN, Once(q, p, f, ok)
        PROVE  D!Accept(p) \/ D!Refuse(p)
    BY <2>3, FatesPost DEF Once, CanPost
  <2>4. ASSUME NEW q \in Queue, NEW p \in Post, NEW f \in Callable,
               NEW ok \in BOOLEAN, NEW other \in Queue,
               OnceOther(q, other, p, f, ok)
        PROVE  D!Accept(p) \/ D!Refuse(p)
    BY <2>4, FatesPost DEF OnceOther, CanPost
  <2> QED
    BY <2>1, <2>2, <2>3, <2>4, QuietSteps, FatesFree, FatesCallUser,
       FatesRequeue DEF Next, Destroy, Destruct, D!Next
<1> QED
  BY <1>1, <1>2, DInvariance, PTL DEF Spec, DeliverySpec, D!Spec, fates

-----------------------------------------------------------------------------
(* Careful callers.  Nothing below uses what they keep except through the     *)
(* guards MayDropCallable, MayHold and MayHandOver and the one of OnceOther.  *)

\* The function that the closure of a post refers to.
FunctionKept == \A p \in Post : Refers(p) => obj[call[p].fn] # "dead"

\* The queue an awaited post was sent to holds a base.
QueueKept ==
    \A p \in Post :
        Awaited(p) /\ call[p].to # None => handle[call[p].to] \in Base

\* The queue an awaited post was sent to is there.
QueueThere ==
    \A p \in Post :
        Awaited(p) /\ call[p].to # None => handle[call[p].to] # Raw

\* The inductive invariant when what a post refers to is not destroyed.
CareInv == DInv /\ FunctionKept /\ QueueKept /\ NoCrash

\* The inductive invariant when the other queue keeps its base.
SentInv == DInv /\ QueueThere /\ CalledWhereSent

\* A post whose callback has not done its work is awaited.
LEMMA WaitingAwaited ==
    ASSUME DInv, NEW p \in Post, NEW k \in {"post", "hop"}, Waiting(<<p, k>>)
    PROVE  Awaited(p)
BY CellMembers DEF DInv, IInv, NotYetCalled, WaitingAccepted, Awaited

\* An inner cell exists only for a post to another queue.
LEMMA HopHasTarget ==
    ASSUME DInv, NEW p \in Post, Reached(<<p, "hop">>)
    PROVE  call[p] # None /\ call[p].to # None
BY DEF DInv, IInv, CellsInOrder, Unused

\* Whether a post refers to what is the caller's depends on its own state.
LEMMA RefersStep ==
    ASSUME NEW p \in Post, call'[p] = call[p], Refers(p)',
           Awaited(p)' => Awaited(p),
           \A b \in Base : run'[b] = <<p, "post">> => run[b] = <<p, "post">>
    PROVE  call[p] # None /\ Refers(p)
BY DEF Refers, Kind

\* No caller drops a function that is still needed.
LEMMA FunctionStaysKept ==
    ASSUME "objects" \in Keeps, CareInv, [Next]_vars
    PROVE  FunctionKept'
<1> USE ConstantsAssumption
<1>0. /\ obj \in [Callable -> {"live", "moved", "dead"}]
      /\ call \in [Post -> Call \cup {None}]
      /\ run \in [Base -> Cell \cup {None}]
      /\ pend \in [Base -> SUBSET Cell]
      /\ ran \in [Post -> Nat]
  BY DEF CareInv, DInv, IInv, TypeOK
<1>00. \A p \in Post : call[p] # None => call[p].fn \in Callable
  BY <1>0 DEF Call
<1>1. ASSUME UNCHANGED <<call, run>>, \A p \in Post : ran'[p] >= ran[p],
             \A f \in Callable : obj[f] # "dead" => obj'[f] # "dead"
      PROVE  FunctionKept'
  \* The same posts, or fewer, need their functions, and none of these dies.
  <2> SUFFICES ASSUME NEW p \in Post, Refers(p)'
               PROVE  obj'[call[p].fn] # "dead"
    BY <1>1 DEF FunctionKept
  <2>1. Awaited(p)' => Awaited(p)
    BY <1>0, <1>1 DEF Awaited
  <2>2. call[p] # None /\ Refers(p)
    BY <1>1, <2>1, RefersStep
  <2> QED
    BY <1>00, <1>1, <2>2 DEF CareInv, FunctionKept
<1>2. ASSUME NEW p \in Post, NEW f \in Callable,
             call[p] = None, obj[f] = "live",
             UNCHANGED <<run, ran>>,
             \A x \in Post : x # p => call'[x] = call[x], call'[p].fn = f,
             \A g \in Callable : obj[g] # "dead" => obj'[g] # "dead"
      PROVE  FunctionKept'
  \* A post of a live function is made.
  <2> SUFFICES ASSUME NEW x \in Post, Refers(x)'
               PROVE  obj'[call'[x].fn] # "dead"
    BY DEF FunctionKept
  <2>1. CASE x = p
    BY <1>2, <2>1
  <2>2. CASE x # p
    <3>1. call'[x] = call[x] /\ (Awaited(x)' => Awaited(x))
      BY <1>2, <2>2 DEF Awaited
    <3>2. call[x] # None /\ Refers(x)
      BY <1>2, <3>1, RefersStep
    <3> QED
      BY <1>00, <1>2, <3>1, <3>2 DEF CareInv, FunctionKept
  <2> QED
    BY <2>1, <2>2
<1>3. ASSUME NEW b \in Base, NEW c \in Cell, Fire(b, c)
      PROVE  FunctionKept'
  <2>1. /\ c \in pend[b] /\ run' = [run EXCEPT ![b] = c]
        /\ UNCHANGED <<call, ran, obj>>
    BY <1>3 DEF Fire, postVars
  <2> SUFFICES ASSUME NEW p \in Post, Refers(p)'
               PROVE  obj[call[p].fn] # "dead"
    BY <2>1 DEF FunctionKept
  <2>2. Kind(<<p, "post">>) # "own" /\ call[p] # None
    BY <2>1 DEF Refers, Kind
  <2>3. Awaited(p) \/ (\E x \in Base : run[x] = <<p, "post">>)
    <3>1. CASE Awaited(p)'
      BY <2>1, <3>1 DEF Awaited
    <3>2. CASE \E x \in Base : run'[x] = <<p, "post">> /\ run[x] # <<p, "post">>
      <4>1. c = <<p, "post">>
        BY <1>0, <2>1, <3>2
      <4>2. Waiting(<<p, "post">>)
        BY <2>1, <4>1 DEF Waiting
      <4> QED
        BY <4>2, WaitingAwaited DEF CareInv
    <3> QED
      BY <3>1, <3>2 DEF Refers
  <2> QED
    BY <2>2, <2>3 DEF Refers, CareInv, FunctionKept
<1>4. ASSUME NEW b \in Base, Finish(b)
      PROVE  FunctionKept'
  <2>1. /\ run' = [run EXCEPT ![b] = None]
        /\ UNCHANGED <<call, ran, obj>>
    BY <1>4 DEF Finish
  <2>2. \A x \in Base, p \in Post :
           run'[x] = <<p, "post">> => run[x] = <<p, "post">>
    BY <1>0, <2>1, CellMembers
  <2>3. \A p \in Post : Refers(p)' => Refers(p)
    BY <2>1, <2>2, RefersStep DEF Awaited
  <2> QED
    BY <2>1, <2>3 DEF CareInv, FunctionKept
<1>5. ASSUME NEW b \in Base, CallUser(b) \/ Requeue(b)
      PROVE  FunctionKept'
  <2>1. CASE UNCHANGED <<call, run, ran, obj>>
    BY <1>0, <1>1, <2>1
  <2>2. CASE CallUser(b)
    <3>1. run[b][1] \in Post
      BY <1>0, <2>2 DEF CallUser, Cell
    <3>2. CASE ran' = [ran EXCEPT ![run[b][1]] = @ + 1]
      <4>1. \A p \in Post : ran'[p] >= ran[p]
        BY <1>0, <3>1, <3>2
      <4> QED
        BY <1>1, <2>1, <2>2, <4>1 DEF CallUser, Halt, cbVars, postVars
    <3> QED
      BY <2>1, <2>2, <3>2 DEF CallUser, Halt, cbVars, postVars
  <2>3. CASE Requeue(b)
    <3>1. \/ UNCHANGED obj
          \/ obj' = [obj EXCEPT ![call[run[b][1]].fn] = "moved"]
      BY <2>3 DEF Requeue, Halt, postVars
    <3>2. \A f \in Callable : obj[f] # "dead" => obj'[f] # "dead"
      BY <1>0, <3>1
    <3>3. UNCHANGED <<call, run, ran>>
      BY <2>3 DEF Requeue, Halt, cbVars, postVars
    <3> QED
      BY <1>0, <1>1, <3>2, <3>3
  <2> QED
    BY <1>5, <2>2, <2>3
<1>6. ASSUME NEW f \in Callable, DropCallable(f)
      PROVE  FunctionKept'
  <2>1. \A p \in Post : Refers(p) => call[p].fn # f
    BY <1>6 DEF DropCallable, MayDropCallable
  <2>2. obj' = [obj EXCEPT ![f] = "dead"] /\ UNCHANGED <<call, run, ran>>
    BY <1>6 DEF DropCallable, cbVars
  <2>3. \A p \in Post : Refers(p)' => call[p] # None /\ Refers(p)
    BY <2>2, RefersStep DEF Awaited
  <2> QED
    BY <1>0, <1>00, <2>1, <2>2, <2>3 DEF CareInv, FunctionKept
<1>7. ASSUME NEW q \in Queue, NEW p \in Post, NEW f \in Callable,
             NEW ok \in BOOLEAN,
             Once(q, p, f, ok) \/ \E other \in Queue : OnceOther(q, other, p, f, ok)
      PROVE  FunctionKept'
  <2>1. PICK to \in Queue \cup {None} :
           call' = [call EXCEPT ![p] = [fn |-> f, to |-> to, ok |-> ok]]
    BY <1>7 DEF Once, OnceOther
  <2>2. call[p] = None /\ obj[f] = "live" /\ UNCHANGED <<run, ran>>
    BY <1>7 DEF Once, OnceOther, CanPost
  <2>3. obj' = obj \/ obj' = [obj EXCEPT ![f] = "moved"]
    BY <1>7 DEF Once, OnceOther
  <2>4. \A g \in Callable : obj[g] # "dead" => obj'[g] # "dead"
    BY <1>0, <2>3
  <2> QED
    BY <1>0, <1>2, <2>1, <2>2, <2>4
<1>8. CASE UNCHANGED <<call, run, ran, obj>>
  BY <1>0, <1>1, <1>8
<1>9. ASSUME \/ \E q \in Queue, b \in Base : Create(q, b) \/ Assign(q, b)
             \/ \E q, that \in Queue, b \in Base : MoveConstruct(q, that, b)
             \/ \E q, that \in Queue : MoveAssign(q, that)
             \/ \E q \in Queue : \/ Destroy(q) \/ Destruct(q)
                                 \/ Dispatch(q) \/ Loop(q)
                                 \/ LoopExit(q) \/ LoopBreak(q)
             \/ \E b \in Base : ExitFires(b) \/ LoopReturn(b)
             \/ UNCHANGED vars
      PROVE  UNCHANGED <<call, run, ran, obj>>
  BY <1>9 DEF Create, Assign, MoveConstruct, MoveAssign, Destroy, Destruct,
              FreeHandle, Dispatch, Loop, Enter, LoopExit, LoopBreak,
              ExitFires, LoopReturn, vars, cbVars, postVars
<1> QED
  BY <1>3, <1>4, <1>5, <1>6, <1>7, <1>8, <1>9 DEF Next

\* The steps that leave the handles of the queues alone.
LEMMA HandlesStay ==
    ASSUME \/ \E q \in Queue : \/ Dispatch(q) \/ Loop(q)
                               \/ LoopExit(q) \/ LoopBreak(q)
           \/ \E q \in Queue, r \in Post, f \in Callable, ok \in BOOLEAN :
                 \/ Once(q, r, f, ok)
                 \/ \E other \in Queue : OnceOther(q, other, r, f, ok)
           \/ \E f \in Callable : DropCallable(f)
           \/ \E b \in Base : \/ ExitFires(b) \/ LoopReturn(b)
                              \/ CallUser(b) \/ Requeue(b) \/ Finish(b)
                              \/ \E c \in Cell : Fire(b, c)
           \/ UNCHANGED vars
    PROVE  UNCHANGED handle
<1>1. CASE \E q \in Queue : Dispatch(q) \/ Loop(q) \/ LoopExit(q) \/ LoopBreak(q)
  BY <1>1 DEF Dispatch, Loop, Enter, LoopExit, LoopBreak
<1>2. CASE \E q \in Queue, r \in Post, f \in Callable, ok \in BOOLEAN :
               \/ Once(q, r, f, ok)
               \/ \E other \in Queue : OnceOther(q, other, r, f, ok)
  BY <1>2 DEF Once, OnceOther
<1>3. CASE \E f \in Callable : DropCallable(f)
  BY <1>3 DEF DropCallable
<1>4. CASE \E b \in Base : \/ ExitFires(b) \/ LoopReturn(b)
                          \/ CallUser(b) \/ Requeue(b) \/ Finish(b)
                          \/ \E c \in Cell : Fire(b, c)
  BY <1>4
  DEF ExitFires, LoopReturn, CallUser, Requeue, Finish, Fire, Halt
<1>5. CASE UNCHANGED vars
  BY <1>5 DEF vars
<1> QED
  BY <1>1, <1>2, <1>3, <1>4, <1>5

\* No caller gives away the base of a queue that a post is on its way to.
LEMMA TargetsStay ==
    ASSUME "base" \in Keeps, SentInv, [Next]_vars, NEW p \in Post,
           Awaited(p), call[p].to # None
    PROVE  handle'[call[p].to] = handle[call[p].to]
<1> USE ConstantsAssumption
<1> DEFINE t == call[p].to
<1>1. /\ handle \in [Queue -> Base \cup {None, Raw}]
      /\ t \in Queue /\ handle[t] # Raw
  BY DEF SentInv, DInv, IInv, TypeOK, Awaited, Call, QueueThere
<1>2. \A q \in Queue : MayHandOver(q) => q # t
  BY DEF MayHandOver, Targeted
<1> HIDE DEF t
<1>3. CASE UNCHANGED handle
  BY <1>3
<1>4. ASSUME NEW q \in Queue, NEW b \in Base, Create(q, b) \/ Assign(q, b)
      PROVE  handle'[t] = handle[t]
  BY <1>1, <1>2, <1>4 DEF Create, Assign
<1>5. ASSUME NEW q \in Queue, NEW that \in Queue, NEW b \in Base,
             MoveConstruct(q, that, b)
      PROVE  handle'[t] = handle[t]
  BY <1>1, <1>2, <1>5 DEF MoveConstruct
<1>6. ASSUME NEW q \in Queue, NEW that \in Queue, MoveAssign(q, that)
      PROVE  handle'[t] = handle[t]
  BY <1>1, <1>2, <1>6 DEF MoveAssign, Swap
<1>7. ASSUME NEW q \in Queue, Destroy(q) \/ Destruct(q)
      PROVE  handle'[t] = handle[t]
  BY <1>1, <1>2, <1>7 DEF Destroy, Destruct, FreeHandle
<1> QED
  BY <1>3, <1>4, <1>5, <1>6, <1>7, HandlesStay DEF Next, t

\* The other queue when a post is made.
MadeTo(q) ==
    handle[q] # Raw /\ ("objects" \in Keeps => handle[q] \in Base)

\* A post that is awaited after the step was awaited before with the same
\* arguments, or the step made it, with a target that is there.
LEMMA AwaitedStep ==
    ASSUME DInv, [Next]_vars, NEW p \in Post, Awaited(p)'
    PROVE  \/ call[p] # None /\ Awaited(p) /\ call'[p] = call[p]
           \/ /\ call[p] = None /\ UNCHANGED <<handle, run>>
              /\ call'[p].to # None => MadeTo(call'[p].to)
              /\ \A b \in Base : <<p, "hop">> \in pend'[b]
                                    => <<p, "hop">> \in pend[b]
<1> USE ConstantsAssumption
<1>0. /\ handle \in [Queue -> Base \cup {None, Raw}]
      /\ call \in [Post -> Call \cup {None}]
      /\ run \in [Base -> Cell \cup {None}]
      /\ pend \in [Base -> SUBSET Cell]
      /\ ran \in [Post -> Nat]
  BY DEF DInv, IInv, TypeOK
<1>1. CASE UNCHANGED <<call, ran>>
  BY <1>1 DEF Awaited
<1>2. ASSUME NEW q \in Queue, NEW r \in Post, NEW f \in Callable,
             NEW ok \in BOOLEAN,
             Once(q, r, f, ok) \/ \E other \in Queue : OnceOther(q, other, r, f, ok)
      PROVE  \/ call[p] # None /\ Awaited(p) /\ call'[p] = call[p]
             \/ /\ call[p] = None /\ UNCHANGED <<handle, run>>
                /\ call'[p].to # None => MadeTo(call'[p].to)
                /\ \A b \in Base : <<p, "hop">> \in pend'[b]
                                      => <<p, "hop">> \in pend[b]
  <2>1. PICK to \in Queue \cup {None} :
           /\ call' = [call EXCEPT ![r] = [fn |-> f, to |-> to, ok |-> ok]]
           /\ to # None => MadeTo(to)
    BY <1>0, <1>2 DEF Once, OnceOther, MadeTo
  <2>2. /\ call[r] = None /\ handle[q] \in Base
        /\ EventBaseOnce(handle[q], <<r, "post">>, ok)
        /\ UNCHANGED <<handle, run, ran>>
    BY <1>2 DEF Once, OnceOther, CanPost
  <2>3. CASE p = r
    <3>1. \A b \in Base : <<p, "hop">> \in pend'[b] => <<p, "hop">> \in pend[b]
      BY <1>0, <2>2 DEF EventBaseOnce
    <3> QED
      BY <1>0, <2>1, <2>2, <2>3, <3>1
  <2>4. CASE p # r
    BY <1>0, <2>1, <2>2, <2>4 DEF Awaited
  <2> QED
    BY <2>3, <2>4
<1>3. ASSUME NEW b \in Base, CallUser(b), ~Halt(b, "callable")
      PROVE  call[p] # None /\ Awaited(p) /\ call'[p] = call[p]
  <2>1. run[b][1] \in Post
    BY <1>0, <1>3 DEF CallUser, Cell
  <2>2. ran'[p] >= ran[p] /\ UNCHANGED call
    BY <1>0, <1>3, <2>1 DEF CallUser
  <2> QED
    BY <1>0, <2>2 DEF Awaited
<1>4. ASSUME \/ \E q \in Queue, b \in Base : Create(q, b) \/ Assign(q, b)
             \/ \E q, that \in Queue, b \in Base : MoveConstruct(q, that, b)
             \/ \E q, that \in Queue : MoveAssign(q, that)
             \/ \E q \in Queue : \/ Destroy(q) \/ Destruct(q)
                                 \/ Dispatch(q) \/ Loop(q)
                                 \/ LoopExit(q) \/ LoopBreak(q)
             \/ \E f \in Callable : DropCallable(f)
             \/ \E b \in Base : \/ ExitFires(b) \/ LoopReturn(b)
                                \/ Requeue(b) \/ Finish(b) \/ Halt(b, "callable")
                                \/ \E c \in Cell : Fire(b, c)
             \/ UNCHANGED vars
      PROVE  UNCHANGED <<call, ran>>
  BY <1>4 DEF Create, Assign, MoveConstruct, MoveAssign, Destroy, Destruct,
              FreeHandle, Dispatch, Loop, Enter, LoopExit, LoopBreak,
              DropCallable, ExitFires, LoopReturn, Requeue, Finish, Halt, Fire,
              vars, cbVars, postVars
<1> QED
  BY <1>1, <1>2, <1>3, <1>4 DEF Next

\* A queue that a post was sent to goes on holding a base.
LEMMA QueueStaysKept ==
    ASSUME "objects" \in Keeps, CareInv, [Next]_vars
    PROVE  QueueKept'
<1> USE ConstantsAssumption
<1>1. ASSUME NEW t \in Queue, Targeted(t), handle[t] \in Base
      PROVE  handle'[t] \in Base
  <2>0. handle \in [Queue -> Base \cup {None, Raw}]
    BY DEF CareInv, DInv, IInv, TypeOK
  <2>1. \A q \in Queue : \A h : MayHold(q, h) /\ q = t => h \in Base
    BY <1>1 DEF MayHold
  <2>2. ASSUME NEW q \in Queue, NEW b \in Base, Create(q, b) \/ Assign(q, b)
        PROVE  handle'[t] \in Base
    BY <1>1, <2>0, <2>2 DEF Create, Assign
  <2>3. ASSUME NEW q \in Queue, NEW that \in Queue, NEW b \in Base,
               MoveConstruct(q, that, b)
        PROVE  handle'[t] \in Base
    BY <1>1, <2>0, <2>3 DEF MoveConstruct
  <2>4. ASSUME NEW q \in Queue, NEW that \in Queue, MoveAssign(q, that)
        PROVE  handle'[t] \in Base
    BY <1>1, <2>0, <2>1, <2>4 DEF MoveAssign, Swap
  <2>5. ASSUME NEW q \in Queue, Destroy(q) \/ Destruct(q)
        PROVE  handle'[t] \in Base
    BY <1>1, <2>0, <2>1, <2>5 DEF Destroy, Destruct, FreeHandle
  <2> QED
    BY <1>1, <2>2, <2>3, <2>4, <2>5, HandlesStay DEF Next
<1>2. SUFFICES ASSUME NEW p \in Post, Awaited(p)', call'[p].to # None
               PROVE  handle'[call'[p].to] \in Base
  BY DEF QueueKept
<1>3. CASE call[p] # None /\ Awaited(p) /\ call'[p] = call[p]
  <2>1. call[p].to \in Queue /\ Targeted(call[p].to)
    BY <1>2, <1>3 DEF CareInv, DInv, IInv, TypeOK, Call, Targeted
  <2> QED
    BY <1>1, <1>2, <1>3, <2>1 DEF CareInv, QueueKept
<1>4. CASE UNCHANGED handle /\ MadeTo(call'[p].to)
  BY <1>4 DEF MadeTo
<1> QED
  BY <1>2, <1>3, <1>4, AwaitedStep DEF CareInv

\* A queue that a post was sent to stays.
LEMMA QueueStaysThere ==
    ASSUME "base" \in Keeps, SentInv, [Next]_vars
    PROVE  QueueThere'
<1> SUFFICES ASSUME NEW p \in Post, Awaited(p)', call'[p].to # None
             PROVE  handle'[call'[p].to] # Raw
  BY DEF QueueThere
<1> QED
  BY AwaitedStep, TargetsStay DEF SentInv, QueueThere, MadeTo

\* An inner cell appears only where the target queue points, and runs where
\* it waited.
LEMMA CalledWhereSentStays ==
    ASSUME "base" \in Keeps, SentInv, [Next]_vars
    PROVE  CalledWhereSent'
<1> USE ConstantsAssumption
<1>0. /\ call \in [Post -> Call \cup {None}]
      /\ run \in [Base -> Cell \cup {None}]
      /\ pend \in [Base -> SUBSET Cell]
  BY DEF SentInv, DInv, IInv, TypeOK
<1> SUFFICES ASSUME NEW b \in Base, NEW p \in Post, Awaited(p)',
                    <<p, "hop">> \in pend'[b] \/ run'[b] = <<p, "hop">>
             PROVE  handle'[call'[p].to] = b
  BY DEF CalledWhereSent
<1> DEFINE h == <<p, "hop">>
           Here == h \in pend[b] \/ run[b] = h
<1>1. CASE Here
  <2>1. Reached(h)
    BY <1>1 DEF Reached
  <2>2. call[p] # None /\ call[p].to # None
    BY <2>1, HopHasTarget DEF SentInv
  <2>3. Awaited(p) /\ call'[p] = call[p]
    BY <2>2, AwaitedStep DEF SentInv
  <2> QED
    BY <1>1, <2>2, <2>3, TargetsStay DEF SentInv, CalledWhereSent
<1>2. CASE ~Here
  <2>1. ASSUME NEW x \in Base, NEW c \in Cell, Fire(x, c)
        PROVE  Here
    BY <1>0, <2>1 DEF Fire, EventTaken
  <2>2. ASSUME NEW x \in Base, Finish(x)
        PROVE  Here
    BY <1>0, <2>2, CellMembers DEF Finish
  <2>3. ASSUME NEW q \in Queue, Destroy(q) \/ Destruct(q)
        PROVE  Here
    <3>1. pend' = pend \/ pend' = [pend EXCEPT ![handle[q]] = {}]
      BY <2>3 DEF Destroy, Destruct, FreeHandle
    <3> QED
      BY <1>0, <2>3, <3>1 DEF Destroy, Destruct, FreeHandle
  <2>4. ASSUME NEW q \in Queue, NEW r \in Post, NEW f \in Callable,
               NEW ok \in BOOLEAN,
               \/ Once(q, r, f, ok)
               \/ \E other \in Queue : OnceOther(q, other, r, f, ok)
        PROVE  Here
    <3>1. EventBaseOnce(handle[q], <<r, "post">>, ok) /\ UNCHANGED run
      BY <2>4 DEF Once, OnceOther
    <3> QED
      BY <1>0, <3>1 DEF EventBaseOnce
  <2>5. ASSUME NEW x \in Base, Requeue(x)
        PROVE  handle'[call'[p].to] = b
    <3>1. UNCHANGED <<handle, call, run>>
      BY <2>5 DEF Requeue, Halt, cbVars, postVars
    <3>2. \E r \in Post : /\ run[x] = <<r, "post">>
                          /\ \E ok \in BOOLEAN :
                                EventBaseOnce(handle[call[r].to], <<r, "hop">>, ok)
      <4>1. run[x] = <<run[x][1], "post">> /\ run[x][1] \in Post
        BY <1>0, <2>5 DEF Requeue, Kind, Cell
      <4>2. pend' # pend
        BY <1>2, <3>1
      <4> QED
        BY <2>5, <4>1, <4>2 DEF Requeue, PostedTo, Halt, cbVars
    <3> QED
      BY <1>0, <1>2, <3>1, <3>2 DEF EventBaseOnce
  <2>6. ASSUME UNCHANGED <<pend, run>>
        PROVE  Here
    BY <2>6
  <2>7. ASSUME NEW x \in Base, CallUser(x)
        PROVE  UNCHANGED <<pend, run>>
    BY <2>7 DEF CallUser, Halt, cbVars
  <2> QED
    BY <1>2, <2>1, <2>2, <2>3, <2>4, <2>5, <2>6, <2>7, QuietSteps
       DEF Next, cellVars
<1> QED
  BY <1>1, <1>2

\* A callback that has still to do its work finds its function and its queue.
LEMMA NoCrashStays ==
    ASSUME "objects" \in Keeps, CareInv, [Next]_vars
    PROVE  NoCrash'
<1> USE ConstantsAssumption
<1>0. /\ run \in [Base -> Cell \cup {None}]
      /\ crash = "no"
  BY DEF CareInv, DInv, IInv, TypeOK, NoCrash
<1>1. ASSUME NEW b \in Base, run[b] # None, pc[b] = "enter"
      PROVE  LET p == run[b][1] IN
             /\ Kind(run[b]) \in {"ref", "outer"} => obj[call[p].fn] # "dead"
             /\ Kind(run[b]) = "outer" => handle[call[p].to] \in Base
  <2> DEFINE p == run[b][1]
  <2>1. PICK k \in {"post", "hop"} : p \in Post /\ run[b] = <<p, k>>
    BY <1>0, <1>1 DEF Cell
  <2>2. Waiting(<<p, k>>)
    BY <1>1, <2>1 DEF Waiting
  <2>3. Awaited(p) /\ call[p] # None
    BY <2>1, <2>2, WaitingAwaited DEF CareInv, Awaited
  <2>4. Kind(run[b]) \in {"ref", "outer"} => obj[call[p].fn] # "dead"
    <3>1. ASSUME Kind(run[b]) \in {"ref", "outer"}
          PROVE  Kind(<<p, "post">>) # "own"
      BY <2>1, <2>3, <3>1 DEF Kind
    <3> QED
      BY <2>1, <2>3, <3>1 DEF Refers, CareInv, FunctionKept
  <2>5. Kind(run[b]) = "outer" => call[p].to # None
    BY <2>1 DEF Kind
  <2> QED
    BY <2>1, <2>3, <2>4, <2>5 DEF CareInv, QueueKept
<1>2. ASSUME NEW b \in Base, CallUser(b)
      PROVE  UNCHANGED crash
  BY <1>1, <1>2 DEF CallUser, Kind
<1>3. ASSUME NEW b \in Base, Requeue(b)
      PROVE  UNCHANGED crash
  <2>1. LET p == run[b][1] IN
           obj[call[p].fn] # "dead" /\ handle[call[p].to] \in Base
    BY <1>1, <1>3 DEF Requeue
  <2> QED
    BY <1>3, <2>1 DEF Requeue
<1>4. ASSUME \/ \E q \in Queue, b \in Base : Create(q, b) \/ Assign(q, b)
             \/ \E q, that \in Queue, b \in Base : MoveConstruct(q, that, b)
             \/ \E q, that \in Queue : MoveAssign(q, that)
             \/ \E q \in Queue : \/ Destroy(q) \/ Destruct(q)
                                 \/ Dispatch(q) \/ Loop(q)
                                 \/ LoopExit(q) \/ LoopBreak(q)
             \/ \E q \in Queue, p \in Post, f \in Callable, ok \in BOOLEAN :
                   \/ Once(q, p, f, ok)
                   \/ \E other \in Queue : OnceOther(q, other, p, f, ok)
             \/ \E f \in Callable : DropCallable(f)
             \/ \E b \in Base : \/ ExitFires(b) \/ LoopReturn(b) \/ Finish(b)
                                \/ \E c \in Cell : Fire(b, c)
             \/ UNCHANGED vars
      PROVE  UNCHANGED crash
  BY <1>4 DEF Create, Assign, MoveConstruct, MoveAssign, Destroy, Destruct,
              FreeHandle, Dispatch, Loop, Enter, LoopExit, LoopBreak,
              Once, OnceOther, DropCallable, ExitFires, LoopReturn, Finish,
              Fire, vars
<1> QED
  BY <1>0, <1>2, <1>3, <1>4 DEF Next, NoCrash

\* Both invariants hold in every state that is reached.
LEMMA CareInvariance == ASSUME "objects" \in Keeps PROVE Spec => []CareInv
<1>1. Init => CareInv
  <2>1. Init => WaitingAccepted
    BY ConstantsAssumption, CellMembers DEF Init, WaitingAccepted, Waiting
  <2>2. Init => FunctionKept /\ QueueKept /\ NoCrash
    BY DEF Init, FunctionKept, QueueKept, NoCrash, Awaited, Refers
  <2> QED
    BY <2>1, <2>2, InitInv DEF CareInv, DInv
<1>2. CareInv /\ [Next]_vars => CareInv'
  <2>1. CareInv /\ [Next]_vars => DInv'
    BY StepInv, AcceptedInductive DEF CareInv, DInv
  <2> QED
    BY <2>1, FunctionStaysKept, QueueStaysKept, NoCrashStays DEF CareInv
<1> QED
  BY <1>1, <1>2, PTL DEF Spec

LEMMA SentInvariance == ASSUME "base" \in Keeps PROVE Spec => []SentInv
<1>1. Init => SentInv
  <2>1. Init => WaitingAccepted
    BY ConstantsAssumption, CellMembers DEF Init, WaitingAccepted, Waiting
  <2>2. Init => QueueThere /\ CalledWhereSent
    BY DEF Init, QueueThere, CalledWhereSent, Awaited
  <2> QED
    BY <2>1, <2>2, InitInv DEF SentInv, DInv
<1>2. SentInv /\ [Next]_vars => SentInv'
  <2>1. SentInv /\ [Next]_vars => DInv'
    BY StepInv, AcceptedInductive DEF SentInv, DInv
  <2> QED
    BY <2>1, QueueStaysThere, CalledWhereSentStays DEF SentInv
<1> QED
  BY <1>1, <1>2, PTL DEF Spec

\* When callers do not destroy the function and the other queue of a post before
\* the function was called, no callback touches a dead function, a dead queue or
\* a null handle, whatever threads interleave, and though queues are moved and
\* assigned between the two loops (queue.hpp:308-326).
THEOREM CarefulCallersAreSafe ==
    ASSUME "objects" \in Keeps PROVE Spec => []NoCrash
<1>1. CareInv => NoCrash
  BY DEF CareInv
<1> QED
  BY <1>1, CareInvariance, PTL

\* When callers do not move, assign or destroy a queue that a function was sent
\* to, until that was called, it runs on the base that this queue holds
\* (queue.hpp:308-326).
THEOREM SentFunctionRunsThere ==
    ASSUME "base" \in Keeps PROVE Spec => []CalledWhereSent
<1>1. SentInv => CalledWhereSent
  BY DEF SentInv
<1> QED
  BY <1>1, SentInvariance, PTL
=============================================================================
