---------------------------- MODULE ClientProofs ----------------------------
(* Proofs about Client: what the two lists hold, who is called, and the ways  *)
(* in which the program can end, for any number of requests and streams.     *)
(* At the end, the types of MCClient, with the lemmas of BufferEventProofs.    *)
EXTENDS MCClient, TLAPS

EventsProofs == INSTANCE BufferEventProofs WITH crash <- bevCrash

-----------------------------------------------------------------------------
(* The inductive invariant.                                                 *)

Distinct(list) == \A i, j \in DOMAIN list : list[i] = list[j] => i = j

\* InOneList, said of the two lists apart.
Apart ==
    /\ Distinct(running) /\ Distinct(complete)
    /\ ToSet(running) \cap ToSet(complete) = {}
    /\ ToSet(running) \cup ToSet(complete) = Live

\* What libcurl holds is unanswered; complete_ is for streams, which have a
\* response.
Known ==
    /\ NoDangling
    /\ strm \subseteq resp
    /\ ToSet(complete) \subseteq strm
    /\ \A op \in Op : op \in multi \/ life[op] = "new" => called[op] = 0

Uncalled(S) == \A op \in S : called[op] = 0
Answered(S) == \A op \in S : called[op] = 1

\* The loop of a list is before its node k: the rest was not called.
Ahead(list, k) == \A i \in DOMAIN list : i >= k => called[list[i]] = 0
Behind(list, k) == \A i \in DOMAIN list : i < k => called[list[i]] = 1

\* What is left to be called, by the place the client is in.
Idling == pc \in {"idle", "act", "read"} => Uncalled(Live)

Answering == pc = "readUser" =>
    cur # None /\ called[cur] = 1 /\ Uncalled(Live \ {cur})

Forcing == pc = "force" =>
    /\ Uncalled(ToSet(running))
    /\ cur # None => \E k \in DOMAIN complete : complete[k] = cur /\ Ahead(complete, k)

ForcingUser == pc = "forceUser" =>
    /\ Uncalled(ToSet(running))
    /\ \E k \in DOMAIN complete : complete[k] = cur /\ Ahead(complete, k + 1)

Cleaning == pc = "cleanRunning" =>
    IF cur = None THEN Answered(ToSet(running))
    ELSE \E k \in DOMAIN running :
            running[k] = cur /\ Behind(running, k) /\ Ahead(running, k)

\* The node is in its list, or is the stream that was moved to complete_.
CleaningUser == pc = "cleanRunningUser" =>
    /\ cur # None
    /\ \/ /\ complete = <<>>
          /\ \E k \in DOMAIN running :
                running[k] = cur /\ Behind(running, k + 1) /\ Ahead(running, k + 1)
       \/ /\ complete = <<cur>>
          /\ cur \notin ToSet(running)

\* Between dispatches complete_ is empty: the destructor has nothing to do
\* for it.
Emptied ==
    /\ pc \in {"idle", "cleanRunning", "cleanComplete", "gone"} => complete = <<>>
    /\ pc \in {"cleanComplete", "gone"} => running = <<>> /\ cur = None
    /\ pc # "cleanCompleteUser"

Places ==
    /\ Idling /\ Answering /\ Forcing /\ ForcingUser
    /\ Cleaning /\ CleaningUser /\ Emptied

IInv ==
    /\ TypeOK
    /\ Apart
    /\ Known
    /\ EachAnswered
    /\ FailuresKnown
    /\ Places

-----------------------------------------------------------------------------
(* Lists.                                                                   *)

\* Two sequences after each other.
LEMMA ConcatAt ==
    ASSUME NEW S, NEW a \in Seq(S), NEW b \in Seq(S)
    PROVE  /\ a \o b \in Seq(S) /\ Len(a \o b) = Len(a) + Len(b)
           /\ DOMAIN (a \o b) = 1 .. Len(a) + Len(b)
           /\ \A i \in 1 .. Len(a) + Len(b) :
                (a \o b)[i] = IF i <= Len(a) THEN a[i] ELSE b[i - Len(a)]
OBVIOUS

\* Unlinking takes one node out of a list of distinct nodes.
LEMMA UnlinkSet ==
    ASSUME NEW S, NEW list \in Seq(S), NEW op, Distinct(list)
    PROVE  /\ Unlink(list, op) \in Seq(S)
           /\ Distinct(Unlink(list, op))
           /\ ToSet(Unlink(list, op)) = ToSet(list) \ {op}
           /\ op \notin ToSet(list) => Unlink(list, op) = list
<1>0. Len(list) \in Nat /\ DOMAIN list = 1 .. Len(list)
    OBVIOUS
<1>1. CASE ~Contains(list, op)
    <2>1. op \notin ToSet(list)
        BY <1>0, <1>1 DEF Contains, ToSet
    <2> QED
        BY <1>1, <2>1 DEF Unlink
<1>2. CASE Contains(list, op)
    <2>1. PICK p \in DOMAIN list : p = Position(list, op) /\ list[p] = op
        BY <1>0, <1>2 DEF Contains, Position
    <2> DEFINE n == Len(list)
               t == SubSeq(list, 1, p - 1) \o SubSeq(list, p + 1, n)
    <2>2. p \in Nat /\ 1 <= p /\ p <= n /\ n \in Nat
        BY <1>0
    <2>3. /\ SubSeq(list, 1, p - 1) \in Seq(S)
          /\ Len(SubSeq(list, 1, p - 1)) = p - 1
          /\ \A i \in 1 .. p - 1 : SubSeq(list, 1, p - 1)[i] = list[i]
        BY <1>0, <2>2
    <2>4. /\ SubSeq(list, p + 1, n) \in Seq(S)
          /\ Len(SubSeq(list, p + 1, n)) = n - p
          /\ \A i \in 1 .. n - p : SubSeq(list, p + 1, n)[i] = list[p + i]
        BY <1>0, <2>2
    <2>5. /\ t \in Seq(S) /\ DOMAIN t = 1 .. n - 1
          /\ \A i \in 1 .. n - 1 : t[i] = IF i < p THEN list[i] ELSE list[i + 1]
        <3> DEFINE a == SubSeq(list, 1, p - 1)
                   b == SubSeq(list, p + 1, n)
        <3> HIDE DEF a, b
        <3>1. /\ a \in Seq(S) /\ Len(a) = p - 1 /\ b \in Seq(S) /\ Len(b) = n - p
            BY <2>3, <2>4 DEF a, b
        <3>2. /\ a \o b \in Seq(S) /\ Len(a \o b) = n - 1
              /\ \A i \in 1 .. n - 1 :
                    (a \o b)[i] = IF i <= p - 1 THEN a[i] ELSE b[i - (p - 1)]
            <4>1. Len(a) + Len(b) = n - 1
                BY <2>2, <3>1
            <4>2. /\ a \o b \in Seq(S) /\ Len(a \o b) = Len(a) + Len(b)
                  /\ \A i \in 1 .. Len(a) + Len(b) :
                        (a \o b)[i] = IF i <= Len(a) THEN a[i] ELSE b[i - Len(a)]
                BY <3>1, ConcatAt
            <4> QED
                BY <3>1, <4>1, <4>2
        <3>3. DOMAIN (a \o b) = 1 .. n - 1
            BY <3>2
        <3>4. ASSUME NEW i \in 1 .. n - 1
              PROVE  (a \o b)[i] = IF i < p THEN list[i] ELSE list[i + 1]
            <4>1. CASE i < p
                <5>1. i <= p - 1 /\ i \in 1 .. p - 1
                    BY <2>2, <4>1
                <5> QED
                    BY <2>3, <3>2, <4>1, <5>1 DEF a
            <4>2. CASE ~(i < p)
                <5>1. ~(i <= p - 1) /\ i - (p - 1) \in 1 .. n - p
                      /\ p + (i - (p - 1)) = i + 1
                    BY <2>2, <4>2
                <5>2. b[i - (p - 1)] = list[p + (i - (p - 1))]
                    BY <2>4, <5>1 DEF b
                <5> QED
                    BY <3>2, <4>2, <5>1, <5>2
            <4> QED
                BY <4>1, <4>2
        <3> QED
            BY <3>2, <3>3, <3>4 DEF a, b
    <2>6. Unlink(list, op) = t
        BY <1>2, <2>1 DEF Unlink, RemoveAt
    <2> HIDE DEF t
    <2>7. Distinct(t)
        <3> SUFFICES ASSUME NEW i \in 1 .. n - 1, NEW j \in 1 .. n - 1, t[i] = t[j]
                     PROVE  i = j
            BY <2>5 DEF Distinct
        <3>1. \A a, b \in 1 .. n : list[a] = list[b] => a = b
            BY <1>0 DEF Distinct
        <3>2. /\ i \in 1 .. n /\ i + 1 \in 1 .. n /\ j \in 1 .. n /\ j + 1 \in 1 .. n
            BY <2>2
        <3>3. /\ t[i] = IF i < p THEN list[i] ELSE list[i + 1]
              /\ t[j] = IF j < p THEN list[j] ELSE list[j + 1]
            BY <2>5
        <3>4. CASE i < p /\ j < p
            BY <3>1, <3>2, <3>3, <3>4
        <3>5. CASE ~(i < p) /\ ~(j < p)
            <4>1. i + 1 = j + 1
                BY <3>1, <3>2, <3>3, <3>5
            <4> QED
                BY <4>1
        <3>6. CASE i < p /\ ~(j < p)
            <4>1. i = j + 1
                BY <3>1, <3>2, <3>3, <3>6
            <4> QED
                BY <2>2, <3>6, <4>1
        <3>7. CASE ~(i < p) /\ j < p
            <4>1. i + 1 = j
                BY <3>1, <3>2, <3>3, <3>7
            <4> QED
                BY <2>2, <3>7, <4>1
        <3> QED
            BY <3>4, <3>5, <3>6, <3>7
    <2>8. ToSet(t) \subseteq ToSet(list) \ {op}
        <3> SUFFICES ASSUME NEW i \in 1 .. n - 1
                     PROVE  t[i] \in ToSet(list) \ {op}
            BY <2>5 DEF ToSet
        <3>1. \A a, b \in 1 .. n : list[a] = list[b] => a = b
            BY <1>0 DEF Distinct
        <3>2. i \in 1 .. n /\ i + 1 \in 1 .. n /\ p \in 1 .. n
            BY <2>2
        <3>3. t[i] # op
            BY <2>1, <2>2, <2>5, <3>1, <3>2
        <3>4. t[i] \in ToSet(list)
            BY <1>0, <2>5, <3>2 DEF ToSet
        <3> QED
            BY <3>3, <3>4
    <2>9. ToSet(list) \ {op} \subseteq ToSet(t)
        <3> SUFFICES ASSUME NEW a \in 1 .. n, list[a] # op
                     PROVE  list[a] \in ToSet(t)
            BY <1>0 DEF ToSet
        <3>1. CASE a < p
            <4>1. a \in 1 .. n - 1 /\ t[a] = list[a]
                BY <2>2, <2>5, <3>1
            <4> QED
                BY <2>5, <4>1 DEF ToSet
        <3>2. CASE a > p
            <4>1. a - 1 \in 1 .. n - 1 /\ t[a - 1] = list[a]
                BY <2>2, <2>5, <3>2
            <4> QED
                BY <2>5, <4>1 DEF ToSet
        <3> QED
            BY <2>1, <2>2, <3>1, <3>2
    <2>10. op \in ToSet(list)
        BY <2>1 DEF ToSet
    <2> QED
        BY <2>5, <2>6, <2>7, <2>8, <2>9, <2>10
<1> QED
    BY <1>1, <1>2

\* A node put at the end of a list.
LEMMA AppendNode ==
    ASSUME NEW S, NEW list \in Seq(S), NEW op \in S, Distinct(list),
           op \notin ToSet(list)
    PROVE  /\ Append(list, op) \in Seq(S)
           /\ Len(Append(list, op)) = Len(list) + 1
           /\ DOMAIN Append(list, op) = 1 .. Len(list) + 1
           /\ \A i \in DOMAIN list : Append(list, op)[i] = list[i]
           /\ Append(list, op)[Len(list) + 1] = op
           /\ Distinct(Append(list, op))
           /\ ToSet(Append(list, op)) = ToSet(list) \cup {op}
<1>1. /\ Append(list, op) \in Seq(S) /\ Len(list) \in Nat
      /\ Len(Append(list, op)) = Len(list) + 1
      /\ DOMAIN list = 1 .. Len(list) /\ DOMAIN Append(list, op) = 1 .. Len(list) + 1
      /\ \A i \in 1 .. Len(list) : Append(list, op)[i] = list[i]
      /\ Append(list, op)[Len(list) + 1] = op
    OBVIOUS
<1>2. \A i \in DOMAIN Append(list, op) : i \in DOMAIN list \/ i = Len(list) + 1
    BY <1>1
<1>3. \A i \in DOMAIN list : list[i] # op
    BY DEF ToSet
<1>4. ToSet(Append(list, op)) \subseteq ToSet(list) \cup {op}
    BY <1>1, <1>2 DEF ToSet
<1>5. ToSet(list) \cup {op} \subseteq ToSet(Append(list, op))
    BY <1>1 DEF ToSet
<1>6. Distinct(Append(list, op))
    BY <1>1, <1>2, <1>3 DEF Distinct
<1> QED
    BY <1>1, <1>4, <1>5, <1>6

\* The node behind node k of a list of distinct nodes.
LEMMA AfterNode ==
    ASSUME NEW S, NEW list \in Seq(S), Distinct(list), NEW k \in DOMAIN list
    PROVE  /\ k = Len(list) => After(list, list[k]) = None
           /\ k < Len(list) => /\ After(list, list[k]) = list[k + 1]
                               /\ k + 1 \in DOMAIN list
           /\ k \in Nat /\ k <= Len(list) /\ Len(list) \in Nat
           /\ DOMAIN list = 1 .. Len(list)
<1>1. Position(list, list[k]) = k
    BY DEF Position, Distinct
<1> QED
    BY <1>1 DEF After

\* The first node.
LEMMA FirstNode ==
    ASSUME NEW S, NEW list \in Seq(S)
    PROVE  /\ list = <<>> => First(list) = None /\ ToSet(list) = {} /\ DOMAIN list = {}
           /\ list # <<>> => 1 \in DOMAIN list /\ First(list) = list[1]
           /\ \A i \in DOMAIN list : i \in Nat /\ i >= 1
BY DEF First, ToSet

\* Members of a list by their places.
LEMMA MemberPlace ==
    ASSUME NEW list
    PROVE  /\ \A i \in DOMAIN list : list[i] \in ToSet(list)
           /\ \A op \in ToSet(list) : \E i \in DOMAIN list : list[i] = op
BY DEF ToSet

-----------------------------------------------------------------------------
\* The places by name.
LEMMA PlaceNames ==
    /\ UserOf["read"] = "readUser" /\ UserOf["force"] = "forceUser"
    /\ UserOf["cleanRunning"] = "cleanRunningUser"
    /\ UserOf["cleanComplete"] = "cleanCompleteUser"
    /\ User = {"readUser", "forceUser", "cleanRunningUser", "cleanCompleteUser"}
    /\ InForce = {"force", "cleanRunning", "cleanComplete"}
    /\ PC = {"idle", "act", "gone", "read", "force", "cleanRunning", "cleanComplete",
             "readUser", "forceUser", "cleanRunningUser", "cleanCompleteUser"}
<1>1. DOMAIN UserOf = {"read", "force", "cleanRunning", "cleanComplete"}
    BY DEF UserOf, InForce
<1>2. /\ UserOf["read"] = "readUser" /\ UserOf["force"] = "forceUser"
      /\ UserOf["cleanRunning"] = "cleanRunningUser"
      /\ UserOf["cleanComplete"] = "cleanCompleteUser"
    BY DEF UserOf, InForce
<1>3. User = {"readUser", "forceUser", "cleanRunningUser", "cleanCompleteUser"}
    BY <1>1, <1>2 DEF User
<1> QED
    BY <1>1, <1>2, <1>3 DEF PC, InForce

\* The loop a user's function returns to.
LEMMA LoopOfUser ==
    ASSUME NEW p \in InForce
    PROVE  (CHOOSE q \in InForce : UserOf[q] = UserOf[p]) = p
BY PlaceNames

LEMMA Initially == Init => IInv
<1> SUFFICES ASSUME Init
             PROVE  IInv
    OBVIOUS
<1>1. TypeOK
    <2>1. running \in Seq(Op) /\ complete \in Seq(Op)
        BY DEF Init
    <2>2. called \in [Op -> Nat] /\ life \in [Op -> {"new", "live", "dead"}]
        BY DEF Init
    <2>3. pc \in PC
        BY PlaceNames DEF Init
    <2> QED
        BY <2>1, <2>2, <2>3 DEF Init, TypeOK
<1>2. Live = {} /\ ToSet(running) = {} /\ ToSet(complete) = {}
    BY DEF Init, Live, ToSet
<1>3. Apart
    BY <1>2 DEF Init, Apart, Distinct
<1>4. Known
    BY <1>2 DEF Init, Known, NoDangling
<1>5. EachAnswered /\ FailuresKnown
    BY DEF Init, EachAnswered, AnsweredOnce, NoneDroppedSilently, FailuresKnown,
           NullOnlyUnsetOrStream, ListLeftOnlyInDestructor
<1>6. Places
    BY <1>2 DEF Init, Places, Idling, Answering, Forcing, ForcingUser, Cleaning,
           CleaningUser, Emptied, Uncalled
<1> QED
    BY <1>1, <1>3, <1>4, <1>5, <1>6 DEF IInv

\* A program that goes on has not failed.
LEMMA NotFailed ==
    ASSUME crash' = "no"
    PROVE  FailuresKnown'
BY DEF FailuresKnown, NullOnlyUnsetOrStream, ListLeftOnlyInDestructor

\* Where the program ends nothing else changes.
LEMMA HaltKeeps ==
    ASSUME IInv, NEW why \in {"null", "list"}, Halt(why), FailuresKnown'
    PROVE  IInv'
<1> USE DEF Halt, lists, curl, request
<1>1. TypeOK'
    BY DEF IInv, TypeOK
<1>2. UNCHANGED Live
    BY DEF Live
<1>3. Apart'
    BY <1>2 DEF IInv, Apart, Distinct, ToSet
<1>4. Known'
    BY <1>2 DEF IInv, Known, NoDangling, ToSet
<1>5. EachAnswered'
    BY DEF IInv, EachAnswered, AnsweredOnce, NoneDroppedSilently
<1>6. Places'
    BY <1>2
    DEF IInv, Places, Idling, Answering, Forcing, ForcingUser, Cleaning, CleaningUser,
        Emptied, Uncalled, Answered, Ahead, Behind, ToSet
<1> QED
    BY <1>1, <1>3, <1>4, <1>5, <1>6 DEF IInv

-----------------------------------------------------------------------------
(* The caller.                                                              *)

\* A new request at the end of running_ leaves every loop where it is.
LEMMA CreateKeeps ==
    ASSUME IInv, crash = "no", NEW op \in Op, Get(op) \/ GetFails(op)
    PROVE  IInv'
<1>1. /\ pc \in {"idle", "readUser", "forceUser", "cleanRunningUser"}
      /\ life[op] = "new" /\ running' = Append(running, op)
      /\ life' = [life EXCEPT ![op] = "live"]
      /\ resp' \in {resp, resp \cup {op}}
      /\ multi' \in {multi, multi \cup {op}}
      /\ timer' \in BOOLEAN
      /\ UNCHANGED <<complete, sock, msgs, strm, called, pc, cur, crash>>
    <2>1. pc \in {"idle"} \cup User /\ pc # "cleanCompleteUser"
        BY DEF Get, GetFails, CreateRequest, IInv, Places, Emptied
    <2>2. timer \in BOOLEAN
        BY DEF IInv, TypeOK
    <2>3. pc \in {"idle", "readUser", "forceUser", "cleanRunningUser"}
        BY <2>1, PlaceNames
    <2>4. CASE Get(op)
        BY <2>3, <2>4 DEF Get, CreateRequest
    <2>5. CASE GetFails(op)
        BY <2>2, <2>3, <2>5 DEF GetFails, CreateRequest, curl
    <2> QED
        BY <2>4, <2>5
<1>2. /\ TypeOK /\ Apart /\ Known /\ EachAnswered /\ Places
    BY DEF IInv
<1>3. /\ op \notin Live /\ Live' = Live \cup {op} /\ called[op] = 0
      /\ op \notin ToSet(running) /\ op \notin ToSet(complete)
    BY <1>1, <1>2 DEF Live, TypeOK, Apart, Known
<1>4. /\ running' \in Seq(Op)
      /\ Distinct(running)' /\ ToSet(running)' = ToSet(running) \cup {op}
      /\ DOMAIN running' = 1 .. Len(running) + 1
      /\ \A i \in DOMAIN running : running'[i] = running[i]
      /\ running'[Len(running) + 1] = op
    <2>1. running \in Seq(Op) /\ Distinct(running)
        BY <1>2 DEF TypeOK, Apart
    <2>2. /\ running' \in Seq(Op)
          /\ Distinct(running') /\ ToSet(running') = ToSet(running) \cup {op}
          /\ DOMAIN running' = 1 .. Len(running) + 1
          /\ \A i \in DOMAIN running : running'[i] = running[i]
          /\ running'[Len(running) + 1] = op
        BY <1>1, <1>3, <2>1, AppendNode
    <2>3. /\ Distinct(running)' <=> Distinct(running')
          /\ ToSet(running)' = ToSet(running')
        BY DEF Distinct, ToSet
    <2> QED
        BY <2>2, <2>3
<1>5. /\ Distinct(complete)' <=> Distinct(complete)
      /\ ToSet(complete)' = ToSet(complete)
    BY <1>1 DEF Distinct, ToSet
<1>6. TypeOK'
    BY <1>1, <1>2, <1>4 DEF TypeOK
<1>7. Apart'
    BY <1>2, <1>3, <1>4, <1>5 DEF Apart
<1>8. Known'
    BY <1>1, <1>2, <1>3, <1>5 DEF Known, NoDangling, TypeOK
<1>9. EachAnswered'
    BY <1>1, <1>2 DEF EachAnswered, AnsweredOnce, NoneDroppedSilently, TypeOK
<1>10. Idling' /\ Answering'
    BY <1>1, <1>2, <1>3 DEF Places, Idling, Answering, Uncalled
<1>11. Forcing' /\ ForcingUser'
    <2>1. pc' # "force"
        BY <1>1
    <2>2. ASSUME pc' = "forceUser"
          PROVE  /\ Uncalled(ToSet(running))'
                 /\ \E k \in DOMAIN complete' : complete'[k] = cur' /\ Ahead(complete, k + 1)'
        <3>1. Uncalled(ToSet(running))'
            BY <1>1, <1>2, <1>3, <1>4, <2>2 DEF Places, ForcingUser, Uncalled
        <3>2. PICK k \in DOMAIN complete : complete[k] = cur /\ Ahead(complete, k + 1)
            BY <1>1, <1>2, <2>2 DEF Places, ForcingUser
        <3> QED
            BY <1>1, <3>1, <3>2 DEF Ahead
    <2> QED
        BY <2>1, <2>2 DEF Forcing, ForcingUser
<1>12. Cleaning' /\ CleaningUser'
    <2>1. pc' # "cleanRunning"
        BY <1>1
    <2>2. ASSUME pc' = "cleanRunningUser"
          PROVE  CleaningUser'
        <3>1. /\ cur # None
              /\ \/ /\ complete = <<>>
                    /\ \E k \in DOMAIN running :
                          /\ running[k] = cur
                          /\ Behind(running, k + 1) /\ Ahead(running, k + 1)
                 \/ complete = <<cur>> /\ cur \notin ToSet(running)
            BY <1>1, <1>2, <2>2 DEF Places, CleaningUser
        <3>2. CASE complete = <<cur>> /\ cur \notin ToSet(running)
            <4>1. cur # op
                BY <1>3, <3>2 DEF ToSet
            <4> QED
                BY <1>1, <1>4, <3>1, <3>2, <4>1 DEF CleaningUser
        <3>3. ASSUME complete = <<>>, NEW k \in DOMAIN running, running[k] = cur,
                     Behind(running, k + 1), Ahead(running, k + 1)
              PROVE  CleaningUser'
            <4>1. /\ Len(running) \in Nat /\ DOMAIN running = 1 .. Len(running)
                BY <1>2 DEF TypeOK
            <4>2. k \in DOMAIN running' /\ running'[k] = cur
                BY <1>4, <3>3, <4>1
            <4>3. Behind(running, k + 1)' /\ Ahead(running, k + 1)'
                <5>1. \A i \in DOMAIN running' :
                        \/ i \in DOMAIN running /\ running'[i] = running[i]
                        \/ i = Len(running) + 1 /\ i > k + 0 /\ running'[i] = op
                    BY <1>4, <4>1
                <5>2. \A i \in DOMAIN running' :
                        /\ i < k + 1 => called[running'[i]] = 1
                        /\ i >= k + 1 => called[running'[i]] = 0
                    BY <1>3, <3>3, <4>1, <5>1 DEF Behind, Ahead
                <5> QED
                    BY <1>1, <5>2 DEF Behind, Ahead
            <4> QED
                BY <1>1, <3>1, <3>3, <4>2, <4>3 DEF CleaningUser
        <3> QED
            BY <3>1, <3>2, <3>3
    <2> QED
        BY <2>1, <2>2 DEF Cleaning, CleaningUser
<1>13. Emptied'
    BY <1>1, <1>2 DEF Places, Emptied
<1> QED
    BY <1>1, <1>6, <1>7, <1>8, <1>9, <1>10, <1>11, <1>12, <1>13, NotFailed
    DEF IInv, Places

-----------------------------------------------------------------------------
(* libcurl.                                                                 *)

\* A socket given up: at most one stream moves, to the end of complete_.
LEMMA Moved ==
    ASSUME TypeOK, Apart, ToSet(complete) \subseteq strm, NEW op \in Live,
           EventRemoved(op), UNCHANGED life
    PROVE  /\ running' \in Seq(Op) /\ complete' \in Seq(Op) /\ sock' = sock \ {op}
           /\ Apart'
           /\ ToSet(running)' \subseteq ToSet(running)
           /\ ToSet(complete)' \subseteq strm
           /\ ToSet(complete)' \subseteq ToSet(complete) \cup {op}
           /\ op \in ToSet(complete) => op \in ToSet(complete)' /\ UNCHANGED running
           /\ op \notin sock \cap strm => UNCHANGED lists
           /\ op \in sock \cap strm =>
                /\ complete' = Append(Unlink(complete, op), op)
                /\ op \notin ToSet(running)'
<1>1. /\ running \in Seq(Op) /\ complete \in Seq(Op) /\ op \in Op
      /\ Distinct(running) /\ Distinct(complete)
      /\ ToSet(running) \cap ToSet(complete) = {}
      /\ ToSet(running) \cup ToSet(complete) = Live
      /\ sock' = sock \ {op} /\ Live' = Live
    BY DEF TypeOK, Apart, EventRemoved, Live
<1>2. /\ Distinct(running)' <=> Distinct(running')
      /\ Distinct(complete)' <=> Distinct(complete')
      /\ ToSet(running)' = ToSet(running')
      /\ ToSet(complete)' = ToSet(complete')
    BY DEF Distinct, ToSet
<1>3. CASE op \notin sock \cap strm
    <2>1. UNCHANGED lists
        BY <1>3 DEF EventRemoved
    <2> QED
        BY <1>1, <1>2, <1>3, <2>1 DEF lists, Apart
<1>4. CASE op \in sock \cap strm
    <2>1. running' = Unlink(running, op) /\ complete' = Append(Unlink(complete, op), op)
        BY <1>4 DEF EventRemoved
    <2>2. /\ running' \in Seq(Op) /\ Distinct(running')
          /\ ToSet(running') = ToSet(running) \ {op}
          /\ op \notin ToSet(running) => running' = running
        BY <1>1, <2>1, UnlinkSet
    <2> DEFINE u == Unlink(complete, op)
    <2>3. u \in Seq(Op) /\ Distinct(u) /\ ToSet(u) = ToSet(complete) \ {op}
        BY <1>1, UnlinkSet
    <2>4. /\ complete' \in Seq(Op) /\ Distinct(complete')
          /\ ToSet(complete') = ToSet(complete) \cup {op}
        <3> HIDE DEF u
        <3>1. op \notin ToSet(u)
            BY <2>3
        <3>2. /\ Append(u, op) \in Seq(Op) /\ Distinct(Append(u, op))
              /\ ToSet(Append(u, op)) = ToSet(u) \cup {op}
            BY <1>1, <2>3, <3>1, AppendNode
        <3>3. complete' = Append(u, op)
            BY <2>1 DEF u
        <3> QED
            BY <2>3, <3>2, <3>3
    <2> HIDE DEF u
    <2>5. Apart'
        BY <1>1, <1>2, <2>2, <2>4 DEF Apart
    <2> QED
        BY <1>1, <1>2, <1>4, <2>1, <2>2, <2>4, <2>5
<1> QED
    BY <1>3, <1>4

\* Steps inside curl_multi_socket_action, which call nobody.
LEMMA ActKeeps ==
    ASSUME IInv, crash = "no", pc = "act", pc' \in {"act", "read"},
           UNCHANGED <<life, resp, called, cur, crash>>,
           timer' \in BOOLEAN,
           running' \in Seq(Op), complete' \in Seq(Op), Apart',
           ToSet(complete)' \subseteq strm', strm' \subseteq Stream,
           strm' \subseteq resp,
           multi' = multi, sock' \subseteq multi, msgs' \subseteq multi
    PROVE  IInv'
<1>1. TypeOK /\ Apart /\ Known /\ EachAnswered /\ Places /\ UNCHANGED Live
    BY DEF IInv, Live
<1>2. TypeOK'
    BY <1>1, PlaceNames DEF TypeOK, Known
<1>3. Known'
    BY <1>1 DEF Known, NoDangling
<1>4. EachAnswered'
    BY <1>1 DEF EachAnswered, AnsweredOnce, NoneDroppedSilently
<1>5. Places'
    BY <1>1 DEF Places, Idling, Answering, Forcing, ForcingUser, Cleaning,
                CleaningUser, Emptied, Uncalled
<1> QED
    BY <1>1, <1>2, <1>3, <1>4, <1>5, NotFailed DEF IInv

\* What libcurl does keeps the invariant.
LEMMA CurlKeeps ==
    ASSUME IInv, crash = "no", NEW op \in Op,
           AddEvent(op) \/ RemoveEvent(op) \/ BecomeStream(op) \/ Complete(op)
    PROVE  IInv'
<1>1. TypeOK /\ Apart /\ Known
    BY DEF IInv
<1>2. /\ running \in Seq(Op) /\ complete \in Seq(Op) /\ timer \in BOOLEAN
      /\ strm \subseteq Stream /\ strm \subseteq resp /\ ToSet(complete) \subseteq strm
      /\ sock \cup msgs \subseteq multi /\ multi \subseteq Live
    BY <1>1 DEF TypeOK, Known, NoDangling
<1>3. ASSUME UNCHANGED lists, UNCHANGED life
      PROVE  Apart' /\ ToSet(complete)' = ToSet(complete)
    BY <1>1, <1>3 DEF lists, Apart, Distinct, ToSet, Live
<1>5. CASE AddEvent(op)
    BY <1>2, <1>3, <1>5, ActKeeps DEF AddEvent, lists, request
<1>6. CASE BecomeStream(op)
    BY <1>2, <1>3, <1>6, ActKeeps DEF BecomeStream, lists, curl
<1>4. ASSUME Halt("null"), pc = "act", op \in sock \ resp
      PROVE  IInv'
    <2>1. FailuresKnown'
        BY <1>4
        DEF FailuresKnown, NullOnlyUnsetOrStream, ListLeftOnlyInDestructor, Halt, curl,
            request
    <2> QED
        BY <1>4, <2>1, HaltKeeps
<1>7. CASE RemoveEvent(op) /\ op \in resp
    <2>1. op \in Live /\ EventRemoved(op) /\ UNCHANGED life /\ pc = "act"
        BY <1>2, <1>7 DEF RemoveEvent, request
    <2>2. /\ running' \in Seq(Op) /\ complete' \in Seq(Op) /\ sock' = sock \ {op}
          /\ Apart' /\ ToSet(complete)' \subseteq strm
        BY <1>1, <1>2, <2>1, Moved
    <2>3. UNCHANGED <<multi, msgs, timer, request, pc, cur, crash>>
        BY <1>7 DEF RemoveEvent
    <2> QED
        BY <1>2, <2>1, <2>2, <2>3, ActKeeps DEF request
<1>8. CASE Complete(op) /\ op \notin sock \ resp
    <2>1. /\ op \in Live /\ EventRemoved(op) /\ UNCHANGED life /\ pc = "act"
          /\ op \in multi /\ msgs' = msgs \cup {op}
        BY <1>2, <1>8 DEF Complete, request
    <2>2. /\ running' \in Seq(Op) /\ complete' \in Seq(Op) /\ sock' = sock \ {op}
          /\ Apart' /\ ToSet(complete)' \subseteq strm
        BY <1>1, <1>2, <2>1, Moved
    <2>3. UNCHANGED <<multi, timer, request, pc, cur, crash>>
        BY <1>8 DEF Complete
    <2> QED
        BY <1>2, <2>1, <2>2, <2>3, ActKeeps DEF request
<1>9. CASE RemoveEvent(op) /\ op \notin resp
    BY <1>4, <1>9 DEF RemoveEvent
<1>10. CASE Complete(op) /\ op \in sock \ resp
    BY <1>4, <1>10 DEF Complete
<1> QED
    BY <1>5, <1>6, <1>7, <1>8, <1>9, <1>10

\* timer_fn arms or removes the timer.
LEMMA TimerKeeps ==
    ASSUME IInv, crash = "no", TimerFn
    PROVE  IInv'
<1>1. TypeOK /\ Apart /\ Known
    BY DEF IInv
<1>2. Apart' /\ ToSet(complete)' = ToSet(complete)
    BY <1>1 DEF TimerFn, lists, request, Apart, Distinct, ToSet, Live
<1> QED
    BY <1>1, <1>2, ActKeeps DEF TimerFn, TypeOK, Known, NoDangling, lists, request

-----------------------------------------------------------------------------
(* Loops begin.                                                             *)

\* Where only the place and the iterator change, they are all there is to show.
LEMMA PlaceChanges ==
    ASSUME IInv, crash = "no", UNCHANGED <<lists, multi, sock, msgs, request, crash>>,
           timer' \in BOOLEAN, pc' \in PC, cur' = None \/ cur' \in Live, Places'
    PROVE  IInv'
<1> USE DEF lists, request
<1>1. TypeOK /\ Apart /\ Known /\ EachAnswered /\ UNCHANGED Live /\ Live \subseteq Op
    BY DEF IInv, Live
<1>2. TypeOK'
    BY <1>1 DEF TypeOK
<1>3. Apart'
    BY <1>1 DEF Apart, Distinct, ToSet
<1>4. Known'
    BY <1>1 DEF Known, NoDangling, ToSet
<1>5. EachAnswered'
    BY <1>1 DEF EachAnswered, AnsweredOnce, NoneDroppedSilently
<1> QED
    BY <1>2, <1>3, <1>4, <1>5, NotFailed DEF IInv

\* dispatch begins.
LEMMA DispatchKeeps ==
    ASSUME IInv, crash = "no", Dispatch
    PROVE  IInv'
<1>1. TypeOK /\ Known /\ Places /\ UNCHANGED Live
    BY DEF IInv, Dispatch, request, Live
<1>2. /\ pc = "idle" /\ pc' = "act" /\ timer' \in BOOLEAN /\ cur' = cur
      /\ UNCHANGED <<lists, multi, sock, msgs, request, crash>>
    BY <1>1 DEF Dispatch, TypeOK
<1>3. pc' \in PC
    BY <1>2, PlaceNames
<1>4. cur' = None \/ cur' \in Live
    BY <1>1, <1>2 DEF Known, NoDangling
<1>5. Places'
    BY <1>1, <1>2 DEF Places, Idling, Answering, Forcing, ForcingUser, Cleaning,
                      CleaningUser, Emptied, Uncalled, request
<1> QED
    BY <1>2, <1>3, <1>4, <1>5, PlaceChanges

\* The loop of dispatch over complete_ begins with its first node.
LEMMA ForceBegins ==
    ASSUME IInv, crash = "no", pc \in {"act", "read"}, pc' = "force",
           cur' = First(complete), UNCHANGED <<lists, curl, request, crash>>
    PROVE  IInv'
<1>1. TypeOK /\ Apart /\ Places /\ UNCHANGED Live
    BY DEF IInv, request, Live
<1>2. /\ complete \in Seq(Op) /\ timer \in BOOLEAN
      /\ ToSet(running) \cup ToSet(complete) = Live
      /\ Uncalled(Live)
    BY <1>1 DEF TypeOK, Apart, Places, Idling
<1>3. pc' \in PC
    BY PlaceNames
<1>4. \A i \in DOMAIN complete : complete[i] \in Live
    BY <1>2, MemberPlace
<1>5. cur' = None \/ cur' \in Live
    BY <1>2, <1>4, FirstNode
<1>6. Forcing'
    <2>1. Uncalled(ToSet(running))'
        BY <1>2 DEF Uncalled, lists, request, ToSet
    <2>2. ASSUME cur' # None
          PROVE  \E k \in DOMAIN complete' : complete'[k] = cur' /\ Ahead(complete, k)'
        <3>1. 1 \in DOMAIN complete /\ cur' = complete[1]
            BY <1>2, <2>2, FirstNode
        <3>2. Ahead(complete, 1)'
            BY <1>2, <1>4 DEF Ahead, Uncalled, lists, request
        <3> QED
            BY <3>1, <3>2 DEF lists
    <2> QED
        BY <2>1, <2>2 DEF Forcing
<1>7. Places'
    BY <1>6 DEF Places, Idling, Answering, ForcingUser, Cleaning, CleaningUser, Emptied
<1> QED
    BY <1>2, <1>3, <1>5, <1>7, PlaceChanges DEF curl

\* The destructor begins with the first node of running_.
LEMMA DestructKeeps ==
    ASSUME IInv, crash = "no", Destruct
    PROVE  IInv'
<1>1. TypeOK /\ Apart /\ Places /\ UNCHANGED Live
    BY DEF IInv, Destruct, request, Live
<1>2. /\ pc = "idle" /\ pc' = "cleanRunning" /\ cur' = First(running)
      /\ UNCHANGED <<lists, curl, request, crash>>
      /\ running \in Seq(Op) /\ timer \in BOOLEAN
      /\ ToSet(running) \cup ToSet(complete) = Live
      /\ Uncalled(Live) /\ complete = <<>>
    BY <1>1 DEF Destruct, TypeOK, Apart, Places, Idling, Emptied
<1>3. pc' \in PC
    BY <1>2, PlaceNames
<1>4. \A i \in DOMAIN running : running[i] \in Live
    BY <1>2, MemberPlace
<1>5. cur' = None \/ cur' \in Live
    BY <1>2, <1>4, FirstNode
<1>6. Cleaning'
    <2>1. CASE running = <<>>
        <3>1. cur' = None /\ ToSet(running)' = {}
            BY <1>2, <2>1, FirstNode DEF lists, ToSet
        <3> QED
            BY <3>1 DEF Cleaning, Answered
    <2>2. CASE running # <<>>
        <3>1. 1 \in DOMAIN running /\ cur' = running[1]
              /\ \A i \in DOMAIN running : i \in Nat /\ i >= 1
            BY <1>2, <2>2, FirstNode
        <3>2. Ahead(running, 1)' /\ Behind(running, 1)'
            BY <1>2, <1>4, <3>1 DEF Ahead, Behind, Uncalled, lists, request
        <3>3. cur' # None
            BY <1>4, <3>1, ClientAssumption DEF Live
        <3> QED
            BY <1>2, <3>1, <3>2, <3>3 DEF Cleaning, lists
    <2> QED
        BY <2>1, <2>2
<1>7. Places'
    BY <1>2, <1>6
    DEF Places, Idling, Answering, Forcing, ForcingUser, CleaningUser, Emptied, lists
<1> QED
    BY <1>2, <1>3, <1>5, <1>7, PlaceChanges DEF curl

\* socket_action returns.
LEMMA ActReturnsKeeps ==
    ASSUME IInv, crash = "no", ActReturns
    PROVE  IInv'
<1>1. CASE pc' = "force"
    BY <1>1, ForceBegins DEF ActReturns
<1>2. CASE pc' # "force"
    <2>1. pc = "act" /\ pc' = "read" /\ cur' = cur
          /\ UNCHANGED <<lists, curl, request, crash>>
        BY <1>2 DEF ActReturns
    <2>2. TypeOK /\ Known /\ Places
        BY DEF IInv
    <2>3. pc' \in PC /\ timer' \in BOOLEAN /\ (cur' = None \/ cur' \in Live)
        BY <2>1, <2>2, PlaceNames DEF TypeOK, Known, NoDangling, curl
    <2>4. UNCHANGED Live
        BY <2>1 DEF Live, request
    <2>5. Places'
        BY <2>1, <2>2, <2>4
        DEF Places, Idling, Answering, Forcing, ForcingUser, Cleaning, CleaningUser,
            Emptied, Uncalled, request
    <2> QED
        BY <2>1, <2>3, <2>5, PlaceChanges DEF curl
<1> QED
    BY <1>1, <1>2

\* No message is left.
LEMMA ReadEndsKeeps ==
    ASSUME IInv, crash = "no", ReadEnds
    PROVE  IInv'
BY ForceBegins DEF ReadEnds

-----------------------------------------------------------------------------
(* Requests end.                                                            *)

\* A request that was not answered is taken from libcurl and answered.
LEMMA CallKeeps ==
    ASSUME IInv, crash = "no", NEW op \in Live, called[op] = 0, RemoveAndCall(op),
           pc' \in PC, Places'
    PROVE  IInv'
<1>1. TypeOK /\ Apart /\ Known /\ EachAnswered /\ ToSet(complete) \subseteq strm
    BY DEF IInv, Known
<1>2. /\ multi' = multi \ {op} /\ msgs' = msgs \ {op} /\ EventRemoved(op)
      /\ called' = [called EXCEPT ![op] = called[op] + 1] /\ cur' = op
      /\ UNCHANGED <<timer, life, resp, strm, crash>>
    BY DEF RemoveAndCall
<1>3. /\ running' \in Seq(Op) /\ complete' \in Seq(Op) /\ sock' = sock \ {op}
      /\ Apart' /\ ToSet(complete)' \subseteq strm
    BY <1>1, <1>2, Moved
<1>4. Live' = Live /\ op \in Op /\ life[op] = "live"
    BY <1>2 DEF Live
<1>5. \A p \in Op : called'[p] = IF p = op THEN 1 ELSE called[p]
    BY <1>1, <1>2, <1>4 DEF TypeOK
<1>6. TypeOK'
    BY <1>1, <1>2, <1>3, <1>4 DEF TypeOK
<1>7. Known'
    BY <1>1, <1>2, <1>3, <1>4, <1>5 DEF Known, NoDangling
<1>8. EachAnswered'
    BY <1>1, <1>2, <1>4, <1>5 DEF EachAnswered, AnsweredOnce, NoneDroppedSilently
<1> QED
    BY <1>2, <1>3, <1>6, <1>7, <1>8, NotFailed DEF IInv

\* A message that is read answers its operation, which has a response.
LEMMA ReadAnswers ==
    ASSUME IInv, crash = "no", NEW op \in Op, ReadMessage(op), op \in resp
    PROVE  IInv'
<1>1. TypeOK /\ Known /\ Places
    BY DEF IInv
<1>2. op \in msgs /\ pc = "read"
    BY DEF ReadMessage
<1>3. op \in Live /\ op \in resp /\ called[op] = 0
    BY <1>1, <1>2 DEF Known, NoDangling
<1>4. RemoveAndCall(op)
    BY <1>3 DEF ReadMessage
<1>5. /\ pc' = "readUser" /\ cur' = op /\ UNCHANGED life
      /\ called' = [called EXCEPT ![op] = called[op] + 1]
    BY <1>2, <1>4, PlaceNames DEF RemoveAndCall
<1>6. op # None /\ called'[op] = 1 /\ \A p \in Live' \ {op} : called'[p] = 0
    <2>1. Uncalled(Live) /\ UNCHANGED Live /\ called \in [Op -> Nat]
        BY <1>1, <1>2, <1>5 DEF Places, Idling, Live, TypeOK
    <2> QED
        BY <1>3, <1>5, <2>1, ClientAssumption DEF Uncalled, Live
<1>7. Answering'
    <2>1. Uncalled(Live \ {cur})'
        BY <1>5, <1>6 DEF Uncalled
    <2> QED
        BY <1>5, <1>6, <2>1 DEF Answering
<1>8. Places'
    BY <1>5, <1>7
    DEF Places, Idling, Forcing, ForcingUser, Cleaning, CleaningUser, Emptied
<1>9. pc' \in PC
    BY <1>5, PlaceNames
<1> QED
    BY <1>3, <1>4, <1>8, <1>9, CallKeeps

\* done() after the function: the operation is unlinked and destroyed.
LEMMA EraseKeeps ==
    ASSUME IInv, crash = "no", Erase
    PROVE  IInv'
<1>1. TypeOK /\ Apart /\ Known /\ EachAnswered /\ Places
    BY DEF IInv
<1>2. /\ pc = "readUser" /\ pc' = "read" /\ cur' = None
      /\ running' = Unlink(running, cur) /\ complete' = Unlink(complete, cur)
      /\ life' = [life EXCEPT ![cur] = "dead"]
      /\ UNCHANGED <<curl, resp, strm, called, crash>>
    BY DEF Erase
<1>3. PICK op \in Live : op = cur
    BY <1>1, <1>2 DEF Known, NoDangling, Places, Answering
<1>4. /\ called[op] = 1 /\ Uncalled(Live \ {op}) /\ op \in Op
    BY <1>1, <1>2, <1>3 DEF Places, Answering, Live
<1>5. Live' = Live \ {op}
    BY <1>1, <1>2, <1>3 DEF Live, TypeOK
<1>6. /\ running' \in Seq(Op) /\ Distinct(running') /\ ToSet(running') = ToSet(running) \ {op}
      /\ complete' \in Seq(Op) /\ Distinct(complete')
      /\ ToSet(complete') = ToSet(complete) \ {op}
    BY <1>1, <1>2, <1>3, UnlinkSet DEF TypeOK, Apart
<1>7. /\ Distinct(running)' <=> Distinct(running')
      /\ Distinct(complete)' <=> Distinct(complete')
      /\ ToSet(running)' = ToSet(running')
      /\ ToSet(complete)' = ToSet(complete')
    BY DEF Distinct, ToSet
<1>8. TypeOK'
    BY <1>1, <1>2, <1>3, <1>6, PlaceNames DEF TypeOK, curl
<1>9. Apart'
    BY <1>1, <1>5, <1>6, <1>7 DEF Apart
<1>10. op \notin multi
    BY <1>1, <1>4 DEF Known, TypeOK
<1>11. Known'
    <2>1. \A p \in Op : life'[p] = "new" => life[p] = "new"
        BY <1>1, <1>2, <1>3 DEF TypeOK
    <2> QED
        BY <1>1, <1>2, <1>5, <1>6, <1>7, <1>10, <2>1 DEF Known, NoDangling, curl
<1>12. EachAnswered'
    <2>1. \A p \in Op : life'[p] = "dead" => p = op \/ life[p] = "dead"
        BY <1>1, <1>2, <1>3 DEF TypeOK
    <2> QED
        BY <1>1, <1>2, <1>4, <2>1 DEF EachAnswered, AnsweredOnce, NoneDroppedSilently
<1>13. Places'
    <2>1. \A p \in Live' : called'[p] = 0
        BY <1>2, <1>4, <1>5 DEF Uncalled
    <2>2. Idling'
        BY <2>1 DEF Idling, Uncalled
    <2> QED
        BY <1>2, <2>2 DEF Places, Answering, Forcing, ForcingUser, Cleaning,
                          CleaningUser, Emptied
<1> QED
    BY <1>2, <1>8, <1>9, <1>11, <1>12, <1>13, NotFailed DEF IInv

\* A message of an operation that got no response ends the program.
LEMMA ReadMessageKeeps ==
    ASSUME IInv, crash = "no", NEW op \in Op, ReadMessage(op)
    PROVE  IInv'
<1>1. CASE op \in resp
    BY <1>1, ReadAnswers
<1>2. CASE op \notin resp
    <2>1. Halt("null") /\ pc = "read" /\ op \in msgs \ resp
        BY <1>2 DEF ReadMessage
    <2>2. FailuresKnown'
        BY <2>1
        DEF FailuresKnown, NullOnlyUnsetOrStream, ListLeftOnlyInDestructor, Halt, curl,
            request
    <2> QED
        BY <2>1, <2>2, HaltKeeps
<1> QED
    BY <1>1, <1>2

-----------------------------------------------------------------------------
(* dispatch_force.                                                          *)

\* The first half of its body.
LEMMA ForceOneKeeps ==
    ASSUME IInv, crash = "no", ForceOne
    PROVE  IInv'
<1>1. TypeOK /\ Apart /\ Known /\ Places
    BY DEF IInv
<1>2. pc \in InForce /\ cur # None
    BY DEF ForceOne
<1>3. PICK op \in Live : op = cur
    BY <1>1, <1>2 DEF Known, NoDangling
<1>4. pc \in {"force", "cleanRunning"}
    BY <1>1, <1>2, PlaceNames DEF Places, Emptied
<1>5. CASE op \notin resp
    <2>1. op \notin ToSet(complete)
        BY <1>1, <1>5 DEF Known
    <2>2. pc # "force"
        BY <1>1, <1>2, <1>3, <2>1, MemberPlace DEF Places, Forcing
    <2>3. Halt("null")
        BY <1>3, <1>5 DEF ForceOne
    <2>4. FailuresKnown'
        BY <1>3, <1>4, <1>5, <2>2, <2>3
        DEF FailuresKnown, NullOnlyUnsetOrStream, ListLeftOnlyInDestructor, Halt, request,
            Live
    <2> QED
        BY <2>3, <2>4, HaltKeeps
<1>6. CASE op \in resp
    <2>1. RemoveAndCall(op)
        BY <1>3, <1>6 DEF ForceOne
    <2>2. /\ pc' = UserOf[pc] /\ cur' = op /\ UNCHANGED life /\ UNCHANGED strm
          /\ EventRemoved(op)
          /\ called' = [called EXCEPT ![op] = called[op] + 1]
        BY <2>1 DEF RemoveAndCall
    <2>3. /\ running' \in Seq(Op) /\ complete' \in Seq(Op) /\ Apart'
          /\ ToSet(running)' \subseteq ToSet(running)
          /\ op \in ToSet(complete) => op \in ToSet(complete)' /\ UNCHANGED running
          /\ op \notin sock \cap strm => UNCHANGED lists
          /\ op \in sock \cap strm =>
                /\ complete' = Append(Unlink(complete, op), op)
                /\ op \notin ToSet(running)'
        BY <1>1, <2>2, Moved DEF Known
    <2>4. /\ op \in Op /\ op # None
          /\ \A p \in Op : called'[p] = IF p = op THEN called[p] + 1 ELSE called[p]
          /\ running \in Seq(Op) /\ complete \in Seq(Op)
          /\ Distinct(running) /\ Distinct(complete)
          /\ ToSet(running) \cap ToSet(complete) = {}
        BY <1>1, <2>2, ClientAssumption DEF TypeOK, Live, Apart
    <2>5. CASE pc = "force"
        <3>1. PICK k \in DOMAIN complete : complete[k] = op /\ Ahead(complete, k)
            BY <1>1, <1>2, <1>3, <2>5 DEF Places, Forcing
        <3>2. called[op] = 0 /\ op \in ToSet(complete) /\ Uncalled(ToSet(running))
            BY <1>1, <2>4, <2>5, <3>1, MemberPlace DEF Ahead, Places, Forcing
        <3>3. pc' = "forceUser"
            BY <2>2, <2>5, PlaceNames
        <3>4. \A p \in ToSet(running)' : called'[p] = 0
            <4>1. op \notin ToSet(running)
                BY <2>4, <3>2
            <4>2. ToSet(running) \subseteq Op
                BY <1>1 DEF Apart, Live
            <4>3. \A p \in ToSet(running) : called[p] = 0
                BY <3>2 DEF Uncalled
            <4> QED
                BY <2>3, <2>4, <4>1, <4>2, <4>3
        <3>5. \E j \in DOMAIN complete' : complete'[j] = op /\ Ahead(complete, j + 1)'
            <4>1. CASE op \notin sock \cap strm
                <5>1. complete' = complete
                    BY <2>3, <4>1 DEF lists
                <5>2. \A i \in DOMAIN complete : i >= k + 1 => called'[complete[i]] = 0
                    <6> SUFFICES ASSUME NEW i \in DOMAIN complete, i >= k + 1
                                 PROVE  called'[complete[i]] = 0
                        OBVIOUS
                    <6>1. i \in Nat /\ k \in Nat /\ i >= k /\ i # k
                        BY <2>4
                    <6>2. complete[i] # op /\ called[complete[i]] = 0 /\ complete[i] \in Op
                        BY <2>4, <3>1, <6>1 DEF Ahead, Distinct
                    <6> QED
                        BY <2>4, <6>2
                <5> QED
                    BY <3>1, <5>1, <5>2 DEF Ahead
            <4>2. CASE op \in sock \cap strm
                <5> DEFINE u == Unlink(complete, op)
                <5>1. u \in Seq(Op)
                    BY <2>4, UnlinkSet
                <5>2. /\ complete'[Len(u) + 1] = op
                      /\ Len(u) + 1 \in DOMAIN complete' /\ Len(u) \in Nat
                      /\ DOMAIN complete' = 1 .. Len(u) + 1
                    <6> HIDE DEF u
                    <6>1. complete' = Append(u, op)
                        BY <2>3, <4>2 DEF u
                    <6> QED
                        BY <2>4, <5>1, <6>1
                <5> HIDE DEF u
                <5>3. \A i \in DOMAIN complete' : ~(i >= Len(u) + 1 + 1)
                    BY <5>2
                <5> QED
                    BY <5>2, <5>3 DEF Ahead
            <4> QED
                BY <4>1, <4>2
        <3>6. ForcingUser'
            BY <2>2, <3>4, <3>5 DEF ForcingUser, Uncalled
        <3>7. Places' /\ pc' \in PC
            BY <3>3, <3>6, PlaceNames
            DEF Places, Idling, Answering, Forcing, Cleaning, CleaningUser, Emptied
        <3> QED
            BY <2>1, <3>2, <3>7, CallKeeps
    <2>6. CASE pc = "cleanRunning"
        <3>1. PICK k \in DOMAIN running :
                running[k] = op /\ Behind(running, k) /\ Ahead(running, k)
            BY <1>1, <1>2, <1>3, <2>6 DEF Places, Cleaning
        <3>2. called[op] = 0 /\ op \in ToSet(running) /\ complete = <<>>
            BY <1>1, <2>4, <2>6, <3>1, MemberPlace DEF Ahead, Places, Emptied
        <3>3. pc' = "cleanRunningUser"
            BY <2>2, <2>6, PlaceNames
        <3>4. CleaningUser'
            <4>1. CASE op \notin sock \cap strm
                <5>1. complete' = <<>> /\ running' = running
                    BY <2>3, <3>2, <4>1 DEF lists
                <5>2. \A i \in DOMAIN running :
                        /\ i < k + 1 => called'[running[i]] = 1
                        /\ i >= k + 1 => called'[running[i]] = 0
                    <6> SUFFICES ASSUME NEW i \in DOMAIN running
                                 PROVE  /\ i < k + 1 => called'[running[i]] = 1
                                        /\ i >= k + 1 => called'[running[i]] = 0
                        OBVIOUS
                    <6>1. i \in Nat /\ k \in Nat /\ running[i] \in Op
                        BY <2>4
                    <6>2. i # k => running[i] # op
                        BY <2>4, <3>1 DEF Distinct
                    <6>3. i < k => called[running[i]] = 1
                        BY <3>1 DEF Behind
                    <6>4. i >= k => called[running[i]] = 0
                        BY <3>1 DEF Ahead
                    <6> QED
                        BY <2>4, <3>1, <3>2, <6>1, <6>2, <6>3, <6>4
                <5>3. Behind(running, k + 1)' /\ Ahead(running, k + 1)'
                    BY <5>1, <5>2 DEF Behind, Ahead
                <5> QED
                    BY <2>2, <2>4, <3>1, <5>1, <5>3 DEF CleaningUser
            <4>2. CASE op \in sock \cap strm
                <5>1. Unlink(complete, op) = <<>>
                    BY <3>2 DEF Unlink, Contains
                <5>2. complete' = <<op>>
                    BY <2>3, <4>2, <5>1
                <5> QED
                    BY <2>2, <2>3, <2>4, <4>2, <5>2 DEF CleaningUser
            <4> QED
                BY <4>1, <4>2
        <3>5. Places' /\ pc' \in PC
            BY <3>3, <3>4, PlaceNames
            DEF Places, Idling, Answering, Forcing, ForcingUser, Cleaning, Emptied
        <3> QED
            BY <2>1, <3>2, <3>5, CallKeeps
    <2> QED
        BY <1>4, <2>5, <2>6
<1> QED
    BY <1>5, <1>6

\* The second half: the next node, or the end of the wrong list.
LEMMA ForceNextKeeps ==
    ASSUME IInv, crash = "no", ForceNext
    PROVE  IInv'
<1>1. TypeOK /\ Apart /\ Known /\ Places
    BY DEF IInv
<1>2. pc \in {"forceUser", "cleanRunningUser"}
    BY <1>1, PlaceNames DEF ForceNext, Places, Emptied
<1>3. /\ running \in Seq(Op) /\ complete \in Seq(Op) /\ timer \in BOOLEAN
      /\ Distinct(running) /\ Distinct(complete)
      /\ ToSet(running) \subseteq Live /\ ToSet(complete) \subseteq Live
    BY <1>1 DEF TypeOK, Apart
<1>4. ASSUME NEW list \in Seq(Op), ~Contains(list, cur)
      PROVE  cur \notin ToSet(list)
    BY <1>4 DEF Contains, ToSet
<1>5. ASSUME Contains(Looped, cur), NEW p \in {"force", "cleanRunning"}, pc = UserOf[p]
      PROVE  /\ cur' = After(Looped, cur) /\ pc' = p
             /\ UNCHANGED <<lists, curl, request, crash>>
    <2>1. pc' = CHOOSE q \in InForce : UserOf[q] = UserOf[p]
        BY <1>5 DEF ForceNext
    <2>2. p \in InForce
        BY <1>5, PlaceNames
    <2> QED
        BY <1>5, <2>1, <2>2, LoopOfUser DEF ForceNext
<1>6. CASE pc = "forceUser"
    <2>1. PICK k \in DOMAIN complete : complete[k] = cur /\ Ahead(complete, k + 1)
        BY <1>1, <1>6 DEF Places, ForcingUser
    <2>2. Looped = complete /\ Contains(complete, cur) /\ pc = UserOf["force"]
        BY <1>3, <1>6, <2>1, PlaceNames DEF Looped, Contains
    <2>3. /\ cur' = After(complete, cur) /\ pc' = "force"
          /\ UNCHANGED <<lists, curl, request, crash>>
        BY <1>5, <2>2
    <2>4. /\ k = Len(complete) => cur' = None
          /\ k < Len(complete) => cur' = complete[k + 1] /\ k + 1 \in DOMAIN complete
          /\ k \in Nat /\ k <= Len(complete) /\ Len(complete) \in Nat
        BY <1>3, <2>1, <2>3, AfterNode
    <2>5. cur' = None \/ (k + 1 \in DOMAIN complete /\ cur' = complete[k + 1])
        BY <2>4
    <2>6. cur' = None \/ cur' \in Live
        BY <1>3, <2>5, MemberPlace
    <2>7. Uncalled(ToSet(running))'
        BY <1>1, <1>6, <2>3 DEF Places, ForcingUser, Uncalled, ToSet, lists, request
    <2>8. Ahead(complete, k + 1)'
        BY <2>1, <2>3 DEF Ahead, lists, request
    <2>9. Forcing'
        BY <2>3, <2>5, <2>7, <2>8 DEF Forcing, lists
    <2>10. Places' /\ pc' \in PC
        BY <2>3, <2>9, PlaceNames
        DEF Places, Idling, Answering, ForcingUser, Cleaning, CleaningUser, Emptied
    <2> QED
        BY <1>3, <2>3, <2>6, <2>10, PlaceChanges DEF curl
<1>7. CASE pc = "cleanRunningUser"
    <2>1. Looped = running /\ pc = UserOf["cleanRunning"] /\ pc \notin {"force", "forceUser"}
        BY <1>7, PlaceNames DEF Looped
    <2>2. ASSUME NEW k \in DOMAIN running, complete = <<>>, running[k] = cur,
                 Behind(running, k + 1), Ahead(running, k + 1)
          PROVE  IInv'
        <3>1. Contains(running, cur)
            BY <1>3, <2>2 DEF Contains
        <3>2. /\ cur' = After(running, cur) /\ pc' = "cleanRunning"
              /\ UNCHANGED <<lists, curl, request, crash>>
            BY <1>5, <2>1, <3>1
        <3>3. /\ k = Len(running) => cur' = None
              /\ k < Len(running) => cur' = running[k + 1] /\ k + 1 \in DOMAIN running
              /\ k \in Nat /\ k <= Len(running) /\ Len(running) \in Nat
              /\ DOMAIN running = 1 .. Len(running)
            BY <1>3, <2>2, <3>2, AfterNode
        <3>4. Behind(running, k + 1)' /\ Ahead(running, k + 1)'
            BY <2>2, <3>2 DEF Behind, Ahead, lists, request
        <3>5. CASE k = Len(running)
            <4>1. \A i \in DOMAIN running : called[running[i]] = 1
                BY <2>2, <3>3, <3>5 DEF Behind
            <4>2. \A op \in ToSet(running) : called[op] = 1
                BY <4>1, MemberPlace
            <4>3. Answered(ToSet(running))'
                BY <3>2, <4>2 DEF Answered, ToSet, lists, request
            <4>4. cur' = None
                BY <3>3, <3>5
            <4>5. Cleaning'
                BY <4>3, <4>4 DEF Cleaning
            <4>6. Places' /\ pc' \in PC
                BY <2>2, <3>2, <4>5, PlaceNames
                DEF Places, Idling, Answering, Forcing, ForcingUser, CleaningUser,
                    Emptied, lists
            <4> QED
                BY <1>3, <3>2, <4>4, <4>6, PlaceChanges DEF curl
        <3>6. CASE k < Len(running)
            <4>1. cur' = running[k + 1] /\ k + 1 \in DOMAIN running
                BY <3>3, <3>6
            <4>2. cur' \in Live /\ cur' # None
                BY <1>3, <4>1, MemberPlace, ClientAssumption DEF Live
            <4>3. Cleaning'
                BY <3>2, <3>4, <4>1, <4>2 DEF Cleaning, lists
            <4>4. Places' /\ pc' \in PC
                BY <2>2, <3>2, <4>3, PlaceNames
                DEF Places, Idling, Answering, Forcing, ForcingUser, CleaningUser,
                    Emptied, lists
            <4> QED
                BY <1>3, <3>2, <4>2, <4>4, PlaceChanges DEF curl
        <3> QED
            BY <3>3, <3>5, <3>6
    <2>3. ASSUME complete = <<cur>>, cur \notin ToSet(running)
          PROVE  IInv'
        <3>1. cur \in strm
            <4>1. cur \in ToSet(complete)
                BY <2>3 DEF ToSet
            <4> QED
                BY <1>1, <4>1 DEF Known
        <3>2. ~Contains(running, cur)
            BY <1>3, <2>3 DEF Contains, ToSet
        <3>3. Halt("list")
            BY <2>1, <3>2 DEF ForceNext
        <3>4. FailuresKnown'
            BY <1>7, <3>1, <3>3
            DEF FailuresKnown, NullOnlyUnsetOrStream, ListLeftOnlyInDestructor, Halt,
                request
        <3> QED
            BY <3>3, <3>4, HaltKeeps
    <2> QED
        BY <1>1, <1>7, <2>2, <2>3 DEF Places, CleaningUser
<1> QED
    BY <1>2, <1>6, <1>7

\* list.clear().
LEMMA ForceEndsKeeps ==
    ASSUME IInv, crash = "no", ForceEnds
    PROVE  IInv'
<1>1. TypeOK /\ Apart /\ Known /\ EachAnswered /\ Places
    BY DEF IInv
<1>2. pc \in {"force", "cleanRunning", "cleanComplete"} /\ cur = None
    BY PlaceNames DEF ForceEnds
<1>3. /\ running \in Seq(Op) /\ complete \in Seq(Op)
      /\ ToSet(running) \cap ToSet(complete) = {}
      /\ ToSet(running) \cup ToSet(complete) = Live
      /\ sock \subseteq multi /\ msgs \subseteq multi /\ multi \subseteq Live
      /\ ToSet(complete) \subseteq strm /\ strm \subseteq Stream
      /\ \A op \in multi : called[op] = 0
    BY <1>1 DEF TypeOK, Apart, Known, NoDangling
<1>4. /\ pc = "force" => Looped = complete /\ Uncalled(ToSet(running))
      /\ pc = "cleanRunning" => Looped = running /\ Answered(ToSet(running))
                                /\ complete = <<>>
      /\ pc = "cleanComplete" => Looped = complete /\ complete = <<>> /\ running = <<>>
    BY <1>1, <1>2 DEF Looped, Places, Forcing, Cleaning, Emptied
<1>5. \A list : list = <<>> => ToSet(list) = {} /\ First(list) = None /\ list \in Seq(Op)
                               /\ Distinct(list)
    BY DEF ToSet, First, Distinct
<1>6. CASE ToSet(Looped) \cap sock # {}
    <2>1. Halt("null")
        BY <1>6 DEF ForceEnds
    <2>2. PICK op \in ToSet(Looped) \cap sock : TRUE
        BY <1>6
    <2>3. op \in multi /\ called[op] = 0
        BY <1>3, <2>2
    <2>4. pc = "force"
        BY <1>2, <1>4, <1>5, <2>2, <2>3 DEF Answered
    <2>5. ToSet(Looped) \cap sock \cap strm # {}
        BY <1>3, <1>4, <2>2, <2>4
    <2>6. (ToSet(Looped) \cap sock \cap strm # {})' /\ cur' = None
        BY <1>2, <2>1, <2>5 DEF Halt, lists, curl, request, Looped, ToSet
    <2>7. FailuresKnown'
        BY <2>1, <2>6
        DEF FailuresKnown, NullOnlyUnsetOrStream, ListLeftOnlyInDestructor, Halt
    <2> QED
        BY <2>1, <2>7, HaltKeeps
<1>7. CASE ToSet(Looped) \cap sock = {}
    <2> DEFINE gone == IF pc = "cleanComplete"
                       THEN ToSet(running) \cup ToSet(complete) ELSE ToSet(Looped)
    <2>1. /\ life' = [op \in Op |-> IF op \in gone THEN "dead" ELSE life[op]]
          /\ multi' = multi \ gone /\ msgs' = msgs \ gone
          /\ running' = IF pc = "force" THEN running ELSE <<>>
          /\ complete' = IF pc = "cleanRunning" THEN complete ELSE <<>>
          /\ pc' = CASE pc = "force" -> "idle"
                     [] pc = "cleanRunning" -> "cleanComplete"
                     [] pc = "cleanComplete" -> "gone"
          /\ cur' = IF pc = "cleanRunning" THEN First(complete) ELSE None
          /\ timer' = (timer /\ pc # "cleanComplete")
          /\ UNCHANGED <<sock, resp, strm, called, crash>>
        BY <1>7 DEF ForceEnds
    <2>2. /\ pc = "force" => gone = ToSet(complete)
          /\ pc = "cleanRunning" => gone = ToSet(running) /\ Live = gone
          /\ pc = "cleanComplete" => gone = {} /\ Live = {}
          /\ gone \cap sock = {}
        BY <1>2, <1>3, <1>4, <1>5, <1>7
    <2> HIDE DEF gone
    <2>3. complete' = <<>> /\ cur' = None
          /\ (running' = <<>> \/ (pc = "force" /\ running' = running))
        BY <1>2, <1>4, <1>5, <2>1
    <2>4. /\ pc = "force" => pc' = "idle"
          /\ pc = "cleanRunning" => pc' = "cleanComplete" /\ running' = <<>>
          /\ pc = "cleanComplete" => pc' = "gone" /\ running' = <<>>
        BY <2>1
    <2>5. Live' = Live \ gone
        BY <1>1, <2>1 DEF Live, TypeOK
    <2>6. /\ ToSet(complete)' = {} /\ Distinct(complete)'
          /\ running' = running =>
                ToSet(running)' = ToSet(running) /\ (Distinct(running) => Distinct(running)')
          /\ running' = <<>> => ToSet(running)' = {} /\ Distinct(running)'
        BY <2>3 DEF ToSet, Distinct
    <2>7. TypeOK'
        <3>1. timer' \in BOOLEAN
            BY <2>1
        <3>2. life' \in [Op -> {"new", "live", "dead"}]
            BY <1>1, <2>1 DEF TypeOK
        <3>3. running' \in Seq(Op) /\ complete' \in Seq(Op)
            BY <1>3, <1>5, <2>3
        <3>4. pc' \in PC
            BY <1>2, <2>4, PlaceNames
        <3> QED
            BY <1>1, <2>1, <2>3, <3>1, <3>2, <3>3, <3>4 DEF TypeOK
    <2>8. Apart'
        <3>1. CASE pc = "force"
            <4>1. running' = running
                BY <2>1, <3>1
            <4>2. Live' = ToSet(running)
                BY <1>3, <2>2, <2>5, <3>1
            <4> QED
                BY <1>1, <2>6, <4>1, <4>2 DEF Apart
        <3>2. CASE pc # "force"
            <4>1. running' = <<>> /\ Live' = {}
                BY <1>2, <2>2, <2>4, <2>5, <3>2
            <4> QED
                BY <2>6, <4>1 DEF Apart
        <3> QED
            BY <3>1, <3>2
    <2>9. Known'
        <3>1. \A op \in Op : life'[op] = "new" => life[op] = "new"
            BY <1>1, <2>1 DEF TypeOK
        <3>2. sock' \cup msgs' \subseteq multi' /\ multi' \subseteq Live'
            BY <1>3, <2>1, <2>2, <2>5
        <3> QED
            BY <1>1, <2>1, <2>3, <2>6, <3>1, <3>2 DEF Known, NoDangling
    <2>10. EachAnswered'
        <3>1. \A op \in gone : op \in Stream \/ called[op] = 1
            BY <1>2, <1>3, <1>4, <2>2 DEF Answered
        <3>2. \A op \in Op : life'[op] = "dead" => op \in gone \/ life[op] = "dead"
            BY <2>1
        <3> QED
            BY <1>1, <2>1, <3>1, <3>2 DEF EachAnswered, AnsweredOnce, NoneDroppedSilently
    <2>11. Places'
        <3>1. Idling'
            <4>1. CASE pc = "force"
                <5>1. \A op \in Live' : called'[op] = 0
                    BY <1>3, <1>4, <2>1, <2>2, <2>5, <4>1 DEF Uncalled
                <5> QED
                    BY <5>1 DEF Idling, Uncalled
            <4>2. CASE pc # "force"
                BY <1>2, <2>4, <4>2 DEF Idling
            <4> QED
                BY <4>1, <4>2
        <3>2. Emptied'
            BY <1>2, <2>3, <2>4 DEF Emptied
        <3> QED
            BY <1>2, <2>4, <3>1, <3>2
            DEF Places, Answering, Forcing, ForcingUser, Cleaning, CleaningUser
    <2> QED
        BY <2>1, <2>7, <2>8, <2>9, <2>10, <2>11, NotFailed DEF IInv
<1> QED
    BY <1>6, <1>7

-----------------------------------------------------------------------------
\* Nothing happens.
LEMMA StutterKeeps ==
    ASSUME IInv, UNCHANGED vars
    PROVE  IInv'
<1> USE DEF vars, lists, curl, request
<1>1. UNCHANGED <<Live, Looped>>
    BY DEF Live, Looped
<1>2. TypeOK'
    BY DEF IInv, TypeOK
<1>3. Apart'
    BY <1>1 DEF IInv, Apart, Distinct, ToSet
<1>4. Known'
    BY <1>1 DEF IInv, Known, NoDangling, ToSet
<1>5. EachAnswered'
    BY DEF IInv, EachAnswered, AnsweredOnce, NoneDroppedSilently
<1>6. FailuresKnown'
    <2>1. (ToSet(Looped) \cap sock \cap strm # {})' <=> ToSet(Looped) \cap sock \cap strm # {}
        BY <1>1 DEF ToSet
    <2> HIDE DEF vars, lists, curl, request
    <2>2. UNCHANGED <<crash, pc, cur, resp, strm, sock, msgs>>
        BY DEF vars, lists, curl, request
    <2> QED
        BY <2>1, <2>2
        DEF IInv, FailuresKnown, NullOnlyUnsetOrStream, ListLeftOnlyInDestructor
<1>7. Places'
    BY <1>1
    DEF IInv, Places, Idling, Answering, Forcing, ForcingUser, Cleaning, CleaningUser,
        Emptied, Uncalled, Answered, Ahead, Behind, ToSet
<1> QED
    BY <1>2, <1>3, <1>4, <1>5, <1>6, <1>7 DEF IInv

\* The inductive invariant holds in every reachable state.
LEMMA ClientInductive == IInv /\ [Next]_vars => IInv'
<1> SUFFICES ASSUME IInv, [Next]_vars
             PROVE  IInv'
    OBVIOUS
<1>1. CASE Inside
    BY <1>1, ReadMessageKeeps, EraseKeeps, ReadEndsKeeps, ForceOneKeeps,
       ForceNextKeeps, ForceEndsKeeps
    DEF Inside
<1>2. CASE Outside
    BY <1>2, DispatchKeeps, DestructKeeps, TimerKeeps, ActReturnsKeeps,
       CreateKeeps, CurlKeeps
    DEF Outside
<1> QED
    BY <1>1, <1>2, StutterKeeps DEF Next

\* The invariant holds in every state that is reached.
THEOREM ClientInvariance == Spec => []IInv
BY Initially, ClientInductive, PTL DEF Spec

\* Every variable stays in its type.
THEOREM ClientTypeCorrect == Spec => []TypeOK
<1>1. IInv => TypeOK
    BY DEF IInv
<1> QED
    BY <1>1, ClientInvariance, PTL

\* The lists, libcurl and the loops know the operations that live and no others:
\* splice and erase by the stored iterator neither lose an operation nor leave a
\* destroyed one behind (client.hpp:262-270, 296-311).
THEOREM ClientLists == Spec => []ListsHoldLiving
<1>1. IInv => ListsHoldLiving
    <2> SUFFICES ASSUME IInv
                 PROVE  ListsHoldLiving
        OBVIOUS
    <2> DEFINE both == running \o complete
               m == Len(running)
               n == Len(complete)
    <2>1. /\ running \in Seq(Op) /\ complete \in Seq(Op)
          /\ Distinct(running) /\ Distinct(complete)
          /\ ToSet(running) \cap ToSet(complete) = {}
          /\ ToSet(running) \cup ToSet(complete) = Live
        BY DEF IInv, TypeOK, Apart
    <2>2. /\ m \in Nat /\ n \in Nat
          /\ DOMAIN running = 1 .. m /\ DOMAIN complete = 1 .. n
          /\ DOMAIN both = 1 .. m + n
          /\ \A i \in 1 .. m + n : both[i] = IF i <= m THEN running[i] ELSE complete[i - m]
        BY <2>1, ConcatAt
    <2> HIDE DEF both
    <2>3. \A i \in 1 .. m, j \in 1 .. n : running[i] # complete[j]
        BY <2>1, <2>2, MemberPlace
    <2>4. \A i \in 1 .. m + n : i <= m => i \in 1 .. m
        BY <2>2
    <2>5. \A i \in 1 .. m + n : ~(i <= m) => i - m \in 1 .. n
        BY <2>2
    <2>6. ASSUME NEW i \in 1 .. m + n, NEW j \in 1 .. m + n, both[i] = both[j]
          PROVE  i = j
        <3>1. CASE i <= m /\ j <= m
            BY <2>1, <2>2, <2>4, <2>6, <3>1 DEF Distinct
        <3>2. CASE ~(i <= m) /\ ~(j <= m)
            <4>1. i - m = j - m
                BY <2>1, <2>2, <2>5, <2>6, <3>2 DEF Distinct
            <4> QED
                BY <2>2, <4>1
        <3>3. ~(i <= m /\ ~(j <= m)) /\ ~(j <= m /\ ~(i <= m))
            BY <2>2, <2>3, <2>4, <2>5, <2>6
        <3> QED
            BY <3>1, <3>2, <3>3
    <2>7. ToSet(both) \subseteq Live
        <3>1. \A i \in 1 .. m + n : both[i] \in Live
            <4> TAKE i \in 1 .. m + n
            <4>1. CASE i <= m
                BY <2>1, <2>2, <2>4, <4>1, MemberPlace
            <4>2. CASE ~(i <= m)
                <5>1. complete[i - m] \in ToSet(complete)
                    BY <2>2, <2>5, <4>2, MemberPlace
                <5> QED
                    BY <2>1, <2>2, <4>2, <5>1
            <4> QED
                BY <4>1, <4>2
        <3> QED
            BY <2>2, <3>1 DEF ToSet
    <2>8. Live \subseteq ToSet(both)
        <3>1. ASSUME NEW i \in 1 .. m PROVE running[i] \in ToSet(both)
            <4>1. i \in 1 .. m + n /\ i <= m
                BY <2>2
            <4> QED
                BY <2>2, <4>1, MemberPlace
        <3>2. ASSUME NEW i \in 1 .. n PROVE complete[i] \in ToSet(both)
            <4>1. m + i \in 1 .. m + n /\ ~(m + i <= m) /\ (m + i) - m = i
                BY <2>2
            <4>2. both[m + i] = complete[i]
                BY <2>2, <4>1
            <4> QED
                BY <2>2, <4>1, <4>2, MemberPlace
        <3> QED
            BY <2>1, <2>2, <3>1, <3>2, MemberPlace
    <2>9. InOneList
        BY <2>2, <2>6, <2>7, <2>8 DEF InOneList, both
    <2> QED
        BY <2>9 DEF ListsHoldLiving, IInv, Known
<1> QED
    BY <1>1, ClientInvariance, PTL

\* Whatever ends a request calls its function first, and no other end of it calls
\* it again; only a stream can be dropped (client.hpp:262-324, 428-431).
THEOREM ClientAnswers == Spec => []EachAnswered
<1>1. IInv => EachAnswered
    BY DEF IInv
<1> QED
    BY <1>1, ClientInvariance, PTL

\* The ways the program ends are the use of a response that was never set, by
\* libcurl giving up its socket, by the message of its end or by the destructor; a
\* stream that is destroyed with its socket; and the loop of the destructor that
\* leaves its list over a stream (client.hpp:256-270, 313-324, 512-528).
THEOREM ClientFailures == Spec => []FailuresKnown
<1>1. IInv => FailuresKnown
    BY DEF IInv
<1> QED
    BY <1>1, ClientInvariance, PTL

-----------------------------------------------------------------------------
(* The client and the bufferevents of MCClient.                             *)

\* EventsProofs is about Events.  Its lemmas are those of BufferEventProofs,
\* which hold under the assumption of BufferEvent: EventsAssumption.
LEMMA EventsSame ==
    /\ Events!Init => EventsProofs!Init
    /\ Events!Next => EventsProofs!Next
    /\ EventsProofs!TypeOK => Events!TypeOK
    /\ Events!BufferEventNames => EventsProofs!BufferEventNames
<1>0. \A s : Events!ToSet(s) = EventsProofs!ToSet(s)
    BY DEF Events!ToSet, EventsProofs!ToSet
<1>1. Events!Init => EventsProofs!Init
    BY
    DEF Events!Init, EventsProofs!Init, Events!Idle, EventsProofs!Idle
<1>2. Events!Next => EventsProofs!Next
    <2>1. Events!User => EventsProofs!User
        BY
        DEF Events!User, EventsProofs!User, Events!Construct,
            EventsProofs!Construct, Events!Overwrite, EventsProofs!Overwrite,
            Events!Create, EventsProofs!Create, Events!Attach,
            EventsProofs!Attach, Events!Free, EventsProofs!Free,
            Events!Destroy, EventsProofs!Destroy, Events!Destruct,
            EventsProofs!Destruct, Events!Swap, EventsProofs!Swap,
            Events!MoveConstruct, EventsProofs!MoveConstruct,
            Events!MoveAssign, EventsProofs!MoveAssign, Events!Replace,
            EventsProofs!Replace, Events!CreateTls, EventsProofs!CreateTls,
            Events!CreateTlsFails, EventsProofs!CreateTlsFails,
            Events!ConnectTls, EventsProofs!ConnectTls,
            Events!TlsOfNull, EventsProofs!TlsOfNull, Events!MakeHandler,
            EventsProofs!MakeHandler, Events!On, EventsProofs!On,
            Events!DropHandler, EventsProofs!DropHandler, Events!SetCallbacks,
            EventsProofs!SetCallbacks, Events!Connect, EventsProofs!Connect,
            Events!WriteOp, EventsProofs!WriteOp, Events!WriteRefused,
            EventsProofs!WriteRefused, Events!objects, EventsProofs!objects,
            Events!bevs, EventsProofs!bevs, Events!writes,
            EventsProofs!writes, Events!calls, EventsProofs!calls,
            Events!Idle, EventsProofs!Idle, Events!Held, EventsProofs!Held
    <2>2. ASSUME NEW b \in Bev, Events!Finalize(b)
          PROVE  EventsProofs!Finalize(b)
        <3>1. Events!ToSet(out[b]) = EventsProofs!ToSet(out[b])
            BY <1>0
        <3> QED
            BY <2>2, <3>1
            DEF Events!Finalize, EventsProofs!Finalize, Events!Clean,
                EventsProofs!Clean, Events!objects, EventsProofs!objects,
                Events!bevs, EventsProofs!bevs, Events!writes,
                EventsProofs!writes, Events!calls, EventsProofs!calls,
                Events!Idle, EventsProofs!Idle, Events!Held, EventsProofs!Held
    <2>3. ASSUME NEW b \in Bev, Events!Flush(b)
          PROVE  EventsProofs!Flush(b)
        BY <2>3
        DEF Events!Flush, EventsProofs!Flush, Events!Call, EventsProofs!Call,
            Events!Clean, EventsProofs!Clean, Events!objects,
            EventsProofs!objects, Events!bevs, EventsProofs!bevs,
            Events!writes, EventsProofs!writes, Events!calls,
            EventsProofs!calls, Events!Idle, EventsProofs!Idle, Events!Held,
            EventsProofs!Held
    <2>4. ASSUME NEW b \in Bev, Events!Receive(b)
          PROVE  EventsProofs!Receive(b)
        BY <2>4
        DEF Events!Receive, EventsProofs!Receive, Events!Call,
            EventsProofs!Call, Events!objects, EventsProofs!objects,
            Events!bevs, EventsProofs!bevs, Events!writes,
            EventsProofs!writes, Events!calls, EventsProofs!calls,
            Events!Idle, EventsProofs!Idle, Events!Held, EventsProofs!Held
    <2>5. ASSUME NEW b \in Bev, NEW what, Events!Event(b, what)
          PROVE  EventsProofs!Event(b, what)
        BY <2>5
        DEF Events!Event, EventsProofs!Event, Events!EventFn,
            EventsProofs!EventFn, Events!Call, EventsProofs!Call,
            Events!objects, EventsProofs!objects, Events!bevs,
            EventsProofs!bevs, Events!writes, EventsProofs!writes,
            Events!calls, EventsProofs!calls, Events!Idle, EventsProofs!Idle,
            Events!Held, EventsProofs!Held
    <2>6. Events!Leave => EventsProofs!Leave
        BY
        DEF Events!Leave, EventsProofs!Leave, Events!objects,
            EventsProofs!objects, Events!bevs, EventsProofs!bevs,
            Events!writes, EventsProofs!writes, Events!calls,
            EventsProofs!calls, Events!Idle, EventsProofs!Idle, Events!Held,
            EventsProofs!Held
    <2>7. Events!Loop => EventsProofs!Loop
        BY <2>2, <2>3, <2>4, <2>5, <2>6 DEF Events!Loop, EventsProofs!Loop
    <2> QED
        BY <2>1, <2>7 DEF Events!Next, EventsProofs!Next
<1>3. EventsProofs!TypeOK => Events!TypeOK
    BY
    DEF Events!TypeOK, EventsProofs!TypeOK
<1>4. Events!BufferEventNames => EventsProofs!BufferEventNames
    BY DEF Events!BufferEventNames, EventsProofs!BufferEventNames
<1> QED
    BY <1>1, <1>2, <1>3, <1>4

PartsInv == IInv /\ EventsProofs!IInv

\* In every state that is reached, whatever the two components do.
LEMMA PartsInvariance == PartsSpec => []PartsInv
<1>1. PartsInit => PartsInv
    BY Initially, EventsSame, EventsAssumption, EventsProofs!Initially
    DEF PartsInit, PartsInv
<1>2. ASSUME PartsInv, [PartsNext]_<<part, vars, bevVars>>
      PROVE  PartsInv'
    <2>1. [Next]_vars /\ [Events!Next]_bevVars
        BY <1>2 DEF PartsNext
    <2>2. [EventsProofs!Next]_(EventsProofs!vars)
        BY <2>1, EventsSame
        DEF bevVars, EventsProofs!vars, EventsProofs!objects, EventsProofs!bevs,
            EventsProofs!writes, EventsProofs!calls
    <2> QED
        BY <1>2, <2>1, <2>2, ClientInductive, EventsSame, EventsAssumption,
           EventsProofs!BufferEventInductive
        DEF PartsInv
<1>3. PartsSpec => PartsInit /\ [][PartsNext]_<<part, vars, bevVars>>
    BY DEF PartsSpec
<1> QED
    BY <1>1, <1>2, <1>3, PTL

\* Every variable of the client and of the bufferevents keeps its type, for any
\* number of requests, streams, objects and writes: the queues of what was read
\* hold operations only (client.hpp:197-283), an output holds writes that were
\* made (bev.hpp:254-326).
THEOREM PartsTypesCorrect == PartsSpec => []TypesOK
<1>1. PartsInv => TypesOK
    BY EventsSame DEF PartsInv, IInv, EventsProofs!IInv, TypesOK
<1> QED
    BY <1>1, PartsInvariance, PTL
=============================================================================
