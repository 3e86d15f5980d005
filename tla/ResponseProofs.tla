--------------------------- MODULE ResponseProofs ---------------------------
(* Proofs about Response: what the store has of the lines that were sent, and *)
(* what a transfer leaves to the next one, for any number of names, values,   *)
(* lines, pieces, transfers and responses.  The lemmas have the assumption of *)
(* Response as a hypothesis, because MCExchange has two instances of it.      *)
EXTENDS Response, Integers, FunctionTheorems, FiniteSetTheorems, TLAPS

\* What has happened, happened in a transfer that began.
Begun ==
    /\ left \subseteq 1 .. transfer
    /\ phase # "idle" => transfer # 0

\* Between transfers the body is what was left there.
LeftOver == phase = "idle" => \A i \in DOMAIN body : body[i] \in left

\* libcurl has the address of the response that is there, a websocket apart.
Points == kind = "get" => sink = resp

\* The lines that were sent under a key, without regard to case unless an a or
\* a z is in it (store.hpp:29-32).
Sent(k) ==
    {i \in DOMAIN seen :
        /\ seen[i].name = k.name
        /\ seen[i].upper = k.upper \/ k.name \notin Edge}

\* What the store has of a key: no value when no line came since clear_value(),
\* else one at the front, and every value that came, no more often than it came.
KeyStored(k) ==
    /\ IF Sent(k) = {}
       THEN \A i \in DOMAIN store[Hash(k)] : store[Hash(k)][i] = Empty
       ELSE Get(k) \in Value
    /\ \A v \in Value :
        LET came == {i \in Sent(k) : seen[i].value = v} IN
        /\ Times(store[Hash(k)], v) <= Cardinality(came)
        /\ came # {} => Times(store[Hash(k)], v) # 0

\* What is kept of a transfer, and of the lines.
Course == Begun /\ LeftOver /\ Points /\ BodyOfTransfer /\ CallsTheLiving

Stored == \A k \in Key : KeyStored(k)

\* The inductive invariant.
RespInv == TypeOK /\ Course /\ Stored

-----------------------------------------------------------------------------
(* Counting in sequences.                                                    *)

\* The positions of a sequence are finitely many.
LEMMA Positions ==
    ASSUME NEW n \in Nat, NEW P \in SUBSET (1 .. n)
    PROVE  IsFiniteSet(P) /\ Cardinality(P) \in Nat
<1>1. IsFiniteSet(1 .. n)
    BY FS_Interval
<1>2. IsFiniteSet(P)
    BY <1>1, FS_Subset
<1> QED
    BY <1>2, FS_CardinalityType

\* An element is appended.
LEMMA Appended ==
    ASSUME NEW S, NEW s \in Seq(S), NEW e \in S
    PROVE  /\ DOMAIN s = 1 .. Len(s) /\ Len(s) \in Nat
           /\ DOMAIN Append(s, e) = 1 .. Len(s) + 1
           /\ Append(s, e)[Len(s) + 1] = e
           /\ \A i \in 1 .. Len(s) : Append(s, e)[i] = s[i]
OBVIOUS

\* How often a value is in a sequence is a number.
LEMMA TimesNat ==
    ASSUME NEW S, NEW s \in Seq(S)
    PROVE  \A w : Times(s, w) \in Nat
<1>1. Len(s) \in Nat /\ DOMAIN s = 1 .. Len(s)
    OBVIOUS
<1>2. ASSUME NEW w
      PROVE  Times(s, w) \in Nat
    <2> DEFINE P == {i \in DOMAIN s : s[i] = w}
    <2>1. P \in SUBSET (1 .. Len(s))
        BY <1>1
    <2> HIDE DEF P
    <2>2. Cardinality(P) \in Nat
        BY <1>1, <2>1, Positions
    <2> QED
        BY <2>2 DEF P, Times
<1> QED
    BY <1>2

\* A value that is put somewhere is there once more.
LEMMA TimesPut ==
    ASSUME NEW S, NEW s \in Seq(S), NEW v \in S, NEW w \in S,
           NEW p \in 1 .. Len(s) + 1
    PROVE  /\ PutAt(s, p, v) \in Seq(S) /\ Times(s, w) \in Nat
           /\ Times(PutAt(s, p, v), w) =
                    IF v = w THEN Times(s, w) + 1 ELSE Times(s, w)
           /\ PutAt(s, p, v) # <<>>
           /\ Head(PutAt(s, p, v)) = IF p = 1 THEN v ELSE Head(s)
<1> DEFINE t == PutAt(s, p, v)
           A == {i \in DOMAIN s : s[i] = w}
           B == {i \in DOMAIN t : t[i] = w}
           C == B \ {p}
           f == [i \in A |-> IF i < p THEN i ELSE i + 1]
<1>1. Len(s) \in Nat /\ DOMAIN s = 1 .. Len(s) /\ \A i \in 1 .. Len(s) : s[i] \in S
    OBVIOUS
<1>2. /\ t \in Seq(S) /\ Len(t) = Len(s) + 1 /\ DOMAIN t = 1 .. Len(s) + 1
      /\ \A j \in 1 .. Len(s) + 1 :
            t[j] = IF j < p THEN s[j] ELSE IF j = p THEN v ELSE s[j - 1]
    <2> DEFINE m == Len(s) + 1
    <2>1. m \in Nat
        BY <1>1
    <2>2. t = [j \in 1 .. m |->
                IF j < p THEN s[j] ELSE IF j = p THEN v ELSE s[j - 1]]
        BY DEF PutAt
    <2>3. \A j \in 1 .. m :
            (IF j < p THEN s[j] ELSE IF j = p THEN v ELSE s[j - 1]) \in S
        BY <1>1
    <2> HIDE DEF t, m
    <2>4. t \in [1 .. m -> S]
        BY <2>2, <2>3
    <2>5. t \in Seq(S) /\ Len(t) = m /\ DOMAIN t = 1 .. m
        BY <2>1, <2>4
    <2> QED
        BY <2>2, <2>5 DEF m
<1> HIDE DEF t
<1>3. IsFiniteSet(A) /\ Cardinality(A) \in Nat
    <2>1. A \in SUBSET (1 .. Len(s))
        BY <1>1
    <2> HIDE DEF A
    <2> QED
        BY <1>1, <2>1, Positions
<1>4. IsFiniteSet(C) /\ Cardinality(C) \in Nat
    <2>1. C \in SUBSET (1 .. Len(s) + 1)
        BY <1>2
    <2>2. Len(s) + 1 \in Nat
        BY <1>1
    <2> HIDE DEF C
    <2> QED
        BY <2>1, <2>2, Positions
<1>5. f \in Bijection(A, C)
    <2>1. \A i \in A : f[i] \in C
        BY <1>1, <1>2
    <2>2. \A i, j \in A : f[i] = f[j] => i = j
        BY <1>1
    <2>3. ASSUME NEW j \in C
          PROVE  \E i \in A : f[i] = j
        <3>1. CASE j < p
            BY <1>1, <1>2, <2>3, <3>1
        <3>2. CASE ~(j < p)
            <4>1. j - 1 \in 1 .. Len(s) /\ t[j] = s[j - 1] /\ ~(j - 1 < p)
                BY <1>1, <1>2, <2>3, <3>2
            <4>2. j - 1 \in A
                BY <1>1, <2>3, <4>1
            <4>3. f[j - 1] = j
                BY <4>1, <4>2
            <4> QED
                BY <4>2, <4>3
        <3> QED
            BY <3>1, <3>2
    <2> QED
        BY <2>1, <2>2, <2>3, Fun_IsBij
<1>6. Cardinality(A) = Cardinality(C)
    BY <1>3, <1>5, FS_Bijection DEF ExistsBijection
<1>7. Times(s, w) = Cardinality(A) /\ Times(t, w) = Cardinality(B)
    BY DEF Times
<1>8. ASSUME v = w
      PROVE  Times(t, w) = Times(s, w) + 1
    <2>1. B = C \cup {p} /\ p \notin C
        BY <1>1, <1>2, <1>8
    <2>2. Cardinality(B) = Cardinality(C) + 1
        BY <1>4, <2>1, FS_AddElement
    <2> QED
        BY <1>3, <1>6, <1>7, <1>8, <2>2
<1>9. ASSUME v # w
      PROVE  Times(t, w) = Times(s, w)
    <2>1. B = C
        BY <1>1, <1>2, <1>9
    <2> QED
        BY <1>3, <1>6, <1>7, <1>9, <2>1
<1>10. t # <<>> /\ Head(t) = IF p = 1 THEN v ELSE Head(s)
    <2>1. Head(t) = t[1] /\ t # <<>>
        BY <1>1, <1>2
    <2>2. p # 1 => s # <<>> /\ Head(s) = s[1]
        BY <1>1
    <2> QED
        BY <1>1, <1>2, <2>1, <2>2
<1> QED
    BY <1>2, <1>3, <1>7, <1>8, <1>9, <1>10 DEF t

\* In a sequence of one value alone no other one is.
LEMMA TimesFirst ==
    ASSUME NEW S, NEW s \in Seq(S), NEW v \in S, NEW e \in S, v # e,
           \A i \in DOMAIN s : s[i] = e,
           NEW w \in S, w # e
    PROVE  /\ Times(s, w) = 0
           /\ Times(<<v>>, w) = IF v = w THEN 1 ELSE 0
           /\ s # <<>> =>
                Times(<<v>> \o Tail(s), w) = IF v = w THEN 1 ELSE 0
<1>1. Times(s, w) = 0
    <2>1. {i \in DOMAIN s : s[i] = w} = {}
        OBVIOUS
    <2> QED
        BY <2>1, FS_EmptySet DEF Times
<1>2. ASSUME NEW t \in Seq(S), Len(t) # 0, t[1] = v,
             \A i \in 2 .. Len(t) : t[i] = e
      PROVE  Times(t, w) = IF v = w THEN 1 ELSE 0
    <2>1. DOMAIN t = 1 .. Len(t) /\ Len(t) \in Nat
        OBVIOUS
    <2>2. {i \in DOMAIN t : t[i] = w} = IF v = w THEN {1} ELSE {}
        BY <1>2, <2>1
    <2>3. Cardinality({1}) = 1 /\ Cardinality({}) = 0
        BY FS_Singleton, FS_EmptySet
    <2> QED
        BY <2>2, <2>3 DEF Times
<1>3. Times(<<v>>, w) = IF v = w THEN 1 ELSE 0
    <2> DEFINE t == <<v>>
    <2>1. t \in Seq(S) /\ Len(t) = 1 /\ t[1] = v
        OBVIOUS
    <2> HIDE DEF t
    <2>2. Len(t) # 0 /\ \A i \in 2 .. Len(t) : t[i] = e
        BY <2>1
    <2>3. Times(t, w) = IF v = w THEN 1 ELSE 0
        BY <1>2, <2>1, <2>2
    <2> QED
        BY <2>3 DEF t
<1>4. ASSUME s # <<>>
      PROVE  Times(<<v>> \o Tail(s), w) = IF v = w THEN 1 ELSE 0
    <2> DEFINE t == <<v>> \o Tail(s)
    <2>1. t \in Seq(S) /\ Len(t) = Len(s) /\ t[1] = v
        BY <1>4
    <2>2. \A i \in 2 .. Len(t) : t[i] = s[i]
        BY <1>4
    <2>3. \A i \in 2 .. Len(t) : t[i] = e
        BY <2>1, <2>2
    <2> HIDE DEF t
    <2>4. Times(t, w) = IF v = w THEN 1 ELSE 0
        BY <1>2, <1>4, <2>1, <2>3
    <2> QED
        BY <2>4 DEF t
<1> QED
    BY <1>1, <1>3, <1>4

-----------------------------------------------------------------------------
\* The invariant holds in the initial states.
LEMMA RespInitially == ASSUME ResponseAssumption, Init PROVE RespInv
<1>1. TypeOK
    <2>1. store \in [Hashes -> Seq(Value \cup {Empty})]
        BY DEF Init
    <2>2. body \in Seq(1 .. Transfers) /\ seen = <<>>
        BY DEF Init
    <2> QED
        BY <2>1, <2>2 DEF ResponseAssumption, Init, TypeOK, Kind
<1>2. Course
    BY DEF ResponseAssumption, Init, Course, Begun, LeftOver, Points,
           BodyOfTransfer, CallsTheLiving
<1>3. \A k \in Key : Sent(k) = {} /\ store[Hash(k)] = <<>>
    <2>1. DOMAIN seen = {}
        BY DEF Init
    <2>2. \A k \in Key : Hash(k) \in Hashes
        BY DEF Key, Hash, Hashes
    <2> QED
        BY <2>1, <2>2 DEF Init, Sent
<1>4. \A v : Times(<<>>, v) = 0
    BY FS_EmptySet DEF Times
<1>5. ASSUME NEW k \in Key
      PROVE  KeyStored(k)
    <2>1. \A v : {i \in Sent(k) : seen[i].value = v} = {}
        BY <1>3
    <2>2. Cardinality({}) = 0
        BY FS_EmptySet
    <2>3. \A v : /\ Times(store[Hash(k)], v) = 0
                 /\ Cardinality({i \in Sent(k) : seen[i].value = v}) = 0
        BY <1>3, <1>4, <2>1, <2>2
    <2>4. \A i \in DOMAIN store[Hash(k)] : store[Hash(k)][i] = Empty
        <3>1. DOMAIN <<>> = {}
            OBVIOUS
        <3> QED
            BY <1>3, <3>1
    <2> QED
        BY <1>3, <2>1, <2>3, <2>4 DEF KeyStored
<1> QED
    BY <1>1, <1>2, <1>5 DEF RespInv, Stored

-----------------------------------------------------------------------------
(* A transfer.                                                               *)

\* insert() of the value that find() gives changes nothing.
LEMMA InsertedSame ==
    ASSUME NEW s, NEW v, s # <<>> /\ Head(s) = v
    PROVE  Inserted(s, v) = {s}
BY DEF Inserted

\* insert() keeps a sequence of values.
LEMMA InsertedIn ==
    ASSUME NEW s \in Seq(Value \cup {Empty}), NEW v \in Value
    PROVE  Inserted(s, v) \subseteq Seq(Value \cup {Empty})
<1> DEFINE V == Value \cup {Empty}
<1>1. v \in V /\ s \in Seq(V)
    OBVIOUS
<1> HIDE DEF V
<1>2. <<v>> \in Seq(V)
    BY <1>1
<1>3. CASE s = <<>>
    <2>1. Inserted(s, v) = {<<v>>}
        BY <1>3 DEF Inserted
    <2> QED
        BY <1>2, <2>1 DEF V
<1>4. CASE s # <<>>
    <2>1. Tail(s) \in Seq(V)
        BY <1>1, <1>4
    <2>2. <<v>> \o Tail(s) \in Seq(V)
        BY ONLY <1>2, <2>1
    <2>3. \A i \in 1 .. Len(s) + 1 : PutAt(s, i, v) \in Seq(V)
        BY <1>1, TimesPut
    <2>4. ASSUME NEW t \in Inserted(s, v)
          PROVE  t \in {s, <<v>> \o Tail(s)}
                        \cup {PutAt(s, i, v) : i \in 1 .. Len(s) + 1}
        BY <1>4 DEF Inserted
    <2>5. \A t \in Inserted(s, v) : t \in Seq(V)
        BY ONLY <1>1, <2>2, <2>3, <2>4
    <2> QED
        BY <2>5 DEF V
<1> QED
    BY <1>3, <1>4

\* Every variable keeps its type.
LEMMA RespTypes ==
    ASSUME ResponseAssumption, TypeOK, Course, Next
    PROVE  TypeOK'
<1> USE DEF ResponseAssumption
<1>1. /\ transfer \in Nat /\ Transfers \in Nat /\ Resps \in Nat
      /\ phase # "idle" => transfer \in 1 .. Transfers
    BY DEF TypeOK, Course, Begun
<1>2. CASE Perform
    BY <1>1, <1>2 DEF Perform, TypeOK, pointers, data, history
<1>3. ASSUME NEW k \in Kind, Reset(k)
      PROVE  TypeOK'
    <2>1. /\ store' \in [Hashes -> Seq(Value \cup {Empty})]
          /\ body' = <<>> /\ seen' = <<>>
        BY <1>3 DEF Reset
    <2>2. resp' \in 1 .. Resps /\ sink' \in 0 .. Resps
        BY <1>1, <1>3 DEF Reset, Assign, TypeOK
    <2> QED
        BY <1>1, <1>3, <2>1, <2>2 DEF Reset, TypeOK
<1>4. ASSUME NEW k \in Key, NEW v \in Value, Line(k, v)
      PROVE  TypeOK'
    <2>1. Hash(k) \in Hashes /\ store[Hash(k)] \in Seq(Value \cup {Empty})
        BY DEF Hash, Hashes, Key, TypeOK
    <2>2. Inserted(store[Hash(k)], v) \subseteq Seq(Value \cup {Empty})
        BY <2>1, InsertedIn
    <2>3. store' \in [Hashes -> Seq(Value \cup {Empty})]
        BY <1>4, <2>1, <2>2 DEF Line, TypeOK
    <2>4. seen' \in Seq([name : Name, upper : BOOLEAN, value : Value])
        <3> DEFINE e == [name |-> k.name, upper |-> k.upper, value |-> v]
                   E == [name : Name, upper : BOOLEAN, value : Value]
        <3>1. e \in E
            BY DEF Key
        <3>2. seen \in Seq(E) /\ seen' = Append(seen, e)
            BY <1>4 DEF Line, TypeOK
        <3> HIDE DEF e, E
        <3>3. seen' \in Seq(E)
            BY <3>1, <3>2
        <3> QED
            BY <3>3 DEF E
    <2> QED
        BY <1>4, <2>3, <2>4 DEF Line, TypeOK, pointers
<1>5. CASE DeadCalled \/ NamelessLine \/ Fails \/ EndOfHeaders \/ ResetInDone
    BY <1>5
    DEF DeadCalled, NamelessLine, Fails, EndOfHeaders, ResetInDone, TypeOK,
        pointers, data, history
<1>6. CASE Chunk
    <2>1. body' \in Seq(1 .. Transfers)
        <3>1. body \in Seq(1 .. Transfers) /\ transfer \in 1 .. Transfers
            BY <1>1, <1>6 DEF Chunk, TypeOK
        <3>2. body' = Append(body, transfer)
            BY <1>6 DEF Chunk
        <3> QED
            BY <3>1, <3>2
    <2> QED
        BY <1>6, <2>1 DEF Chunk, TypeOK, pointers, history
<1>7. CASE End
    <2>1. left' \subseteq 1 .. Transfers
        BY <1>1, <1>7 DEF End, TypeOK
    <2> QED
        BY <1>7, <2>1 DEF End, TypeOK, pointers, data
<1>8. ASSUME NEW take \in BOOLEAN, Done(take)
      PROVE  TypeOK'
    <2>1. body' \in Seq(1 .. Transfers) /\ left' \subseteq 1 .. Transfers
        <3>1. <<>> \in Seq(1 .. Transfers)
            OBVIOUS
        <3>2. body \in Seq(1 .. Transfers) /\ left \subseteq 1 .. Transfers
            BY DEF TypeOK
        <3>3. (body' = <<>> /\ left' = {}) \/ (body' = body /\ left' = left)
            BY <1>8 DEF Done, Taken
        <3> QED
            BY ONLY <3>1, <3>2, <3>3
    <2> QED
        BY <1>8, <2>1 DEF Done, TypeOK, pointers
<1>9. CASE ClearValue
    <2>1. \A h \in Hashes :
            [i \in DOMAIN store[h] |-> Empty] \in Seq(Value \cup {Empty})
        BY DEF TypeOK
    <2>2. store' \in [Hashes -> Seq(Value \cup {Empty})]
        BY <1>9, <2>1 DEF ClearValue
    <2>3. seen' \in Seq([name : Name, upper : BOOLEAN, value : Value])
        BY <1>9 DEF ClearValue
    <2> QED
        BY <1>9, <2>2, <2>3 DEF ClearValue, TypeOK, pointers
<1> QED
    BY <1>2, <1>3, <1>4, <1>5, <1>6, <1>7, <1>8, <1>9 DEF Next

\* What happens in a transfer stays in it.
LEMMA RespCourse ==
    ASSUME ResponseAssumption, TypeOK, Course, Next
    PROVE  Course'
<1> USE DEF ResponseAssumption, Course, Begun, LeftOver, Points,
            BodyOfTransfer, CallsTheLiving
<1>1. transfer \in Nat /\ crash = None /\ kind \in {"get", "websocket"}
    BY DEF TypeOK, Next, Kind
<1>2. CASE Perform
    BY <1>1, <1>2 DEF Perform, pointers, data, history
<1>3. ASSUME NEW k \in Kind, Reset(k)
      PROVE  Course'
    BY <1>1, <1>3 DEF Reset, Assign
<1>4. ASSUME NEW k \in Key, NEW v \in Value, Line(k, v)
      PROVE  Course'
    BY <1>1, <1>4 DEF Line, pointers
<1>5. CASE DeadCalled
    BY <1>1, <1>5 DEF DeadCalled, pointers, data, history
<1>6. CASE NamelessLine \/ ResetInDone
    BY <1>1, <1>6 DEF NamelessLine, ResetInDone, pointers, data, history
<1>7. CASE Fails \/ EndOfHeaders
    BY <1>1, <1>7 DEF Fails, EndOfHeaders, Called, pointers, data, history
<1>8. CASE Chunk
    <2>1. \A i \in DOMAIN body' : body'[i] = transfer \/ body'[i] \in left
        <3>1. body \in Seq(1 .. Transfers) /\ transfer \in 1 .. Transfers
            BY <1>1, <1>8 DEF Chunk, Called, TypeOK
        <3>2. body' = Append(body, transfer)
            BY <1>8 DEF Chunk
        <3>3. /\ DOMAIN body = 1 .. Len(body) /\ Len(body) \in Nat
              /\ DOMAIN body' = 1 .. Len(body) + 1
              /\ body'[Len(body) + 1] = transfer
              /\ \A i \in 1 .. Len(body) : body'[i] = body[i]
            BY <3>1, <3>2, Appended
        <3>4. \A i \in DOMAIN body' : i \in DOMAIN body \/ i = Len(body) + 1
            BY <3>3
        <3> QED
            BY <3>3, <3>4
    <2> QED
        BY <1>1, <1>8, <2>1 DEF Chunk, pointers, history
<1>9. CASE End
    BY <1>1, <1>9 DEF End, pointers, data
<1>10. ASSUME NEW take \in BOOLEAN, Done(take)
       PROVE  Course'
    <2>1. (body' = <<>> /\ left' = {}) \/ (body' = body /\ left' = left)
        BY <1>10 DEF Done, Taken
    <2>2. DOMAIN <<>> = {}
        OBVIOUS
    <2> QED
        BY <1>1, <1>10, <2>1, <2>2 DEF Done, pointers
<1>11. CASE ClearValue
    BY <1>1, <1>11 DEF ClearValue, pointers
<1> QED
    BY <1>2, <1>3, <1>4, <1>5, <1>6, <1>7, <1>8, <1>9, <1>10, <1>11 DEF Next

-----------------------------------------------------------------------------
(* The store.                                                                *)

\* The store is for the keys as the lines are: two keys have one hash when
\* each of them is the other but for the case of its letters.
LEMMA OneHash ==
    ASSUME NEW q \in Key, NEW k \in Key
    PROVE  Hash(q) = Hash(k) <=> /\ k.name = q.name
                                 /\ k.upper = q.upper \/ q.name \notin Edge
BY DEF Hash, Key

\* A line comes: the others stay where they were.
LEMMA LineSent ==
    ASSUME TypeOK, NEW k \in Key, NEW v \in Value,
           seen' = Append(seen, [name |-> k.name, upper |-> k.upper, value |-> v])
    PROVE  /\ Len(seen) + 1 \notin DOMAIN seen
           /\ seen'[Len(seen) + 1].value = v
           /\ \A i \in DOMAIN seen : seen'[i] = seen[i] /\ i <= Len(seen) + 1
           /\ \A q \in Key : Hash(q) = Hash(k)
                    => Sent(q)' = Sent(q) \cup {Len(seen) + 1}
           /\ \A q \in Key : Hash(q) # Hash(k) => Sent(q)' = Sent(q)
<1> DEFINE e == [name |-> k.name, upper |-> k.upper, value |-> v]
           E == [name : Name, upper : BOOLEAN, value : Value]
           n == Len(seen) + 1
<1>1. e \in E /\ e.name = k.name /\ e.upper = k.upper /\ e.value = v
    BY DEF Key
<1>2. seen \in Seq(E) /\ seen' = Append(seen, e)
    BY DEF TypeOK
<1> HIDE DEF e, E
<1>4. /\ DOMAIN seen = 1 .. Len(seen) /\ Len(seen) \in Nat
      /\ DOMAIN seen' = 1 .. Len(seen) + 1
      /\ seen'[n] = e
      /\ \A i \in 1 .. Len(seen) : seen'[i] = seen[i]
    BY <1>1, <1>2, Appended
<1>5. /\ n \notin DOMAIN seen /\ DOMAIN seen' = DOMAIN seen \cup {n}
      /\ \A i \in DOMAIN seen : seen'[i] = seen[i] /\ i <= n
    BY <1>4
<1> HIDE DEF n
<1>6. ASSUME NEW q \in Key
      PROVE  /\ Hash(q) = Hash(k) => Sent(q)' = Sent(q) \cup {n}
             /\ Hash(q) # Hash(k) => Sent(q)' = Sent(q)
    <2>1. Hash(q) = Hash(k) <=> /\ e.name = q.name
                                /\ e.upper = q.upper \/ q.name \notin Edge
        BY <1>1, OneHash
    <2>2. Sent(q)' = {i \in DOMAIN seen \cup {n} :
                        /\ seen'[i].name = q.name
                        /\ seen'[i].upper = q.upper \/ q.name \notin Edge}
        BY <1>5 DEF Sent
    <2>3. Sent(q)' = Sent(q) \cup {i \in {n} :
                        /\ e.name = q.name
                        /\ e.upper = q.upper \/ q.name \notin Edge}
        BY <1>4, <1>5, <2>2 DEF Sent
    <2>4. CASE Hash(q) = Hash(k)
        <3>1. Sent(q)' = Sent(q) \cup {i \in {n} : TRUE}
            BY <2>1, <2>3, <2>4
        <3> QED
            BY <2>4, <3>1
    <2>5. CASE Hash(q) # Hash(k)
        <3>1. Sent(q)' = Sent(q) \cup {i \in {n} : FALSE}
            BY <2>1, <2>3, <2>5
        <3> QED
            BY <2>5, <3>1
    <2> QED
        BY <2>4, <2>5
<1> QED
    BY <1>1, <1>4, <1>5, <1>6 DEF n

\* A line is stored under its key, unless it repeats the value that find() gives.
LEMMA LineStored ==
    ASSUME ResponseAssumption, TypeOK, Course, Stored,
           NEW k \in Key, NEW v \in Value, Line(k, v)
    PROVE  Stored'
<1> DEFINE n == Len(seen) + 1
           h == Hash(k)
           s == store[h]
           V == Value \cup {Empty}
<1>1. PICK t \in Inserted(s, v) : store' = [store EXCEPT ![h] = t]
    BY DEF Line
<1>2. /\ n \notin DOMAIN seen
      /\ seen'[n].value = v
      /\ \A i \in DOMAIN seen : seen'[i] = seen[i] /\ i <= n
      /\ \A q \in Key : Hash(q) = h => Sent(q)' = Sent(q) \cup {n}
      /\ \A q \in Key : Hash(q) # h => Sent(q)' = Sent(q)
    BY LineSent DEF Line
<1>3. /\ \A q \in Key : Hash(q) \in Hashes /\ Sent(q) \subseteq DOMAIN seen
      /\ store \in [Hashes -> Seq(V)] /\ v \in V /\ Empty \in V /\ v # Empty
      /\ Empty \notin Value /\ Value \subseteq V
      /\ DOMAIN seen = 1 .. Len(seen) /\ Len(seen) \in Nat
    <2>1. \A q \in Key : Hash(q) \in Hashes
        BY DEF Key, Hash, Hashes
    <2>2. Empty \notin Value
        BY DEF ResponseAssumption
    <2>3. DOMAIN seen = 1 .. Len(seen) /\ Len(seen) \in Nat
        BY DEF TypeOK
    <2>4. store \in [Hashes -> Seq(V)]
        BY DEF TypeOK
    <2> QED
        BY <2>1, <2>2, <2>3, <2>4 DEF Sent
<1>4. ASSUME NEW q \in Key, Hash(q) # h
      PROVE  KeyStored(q)'
    <2> HIDE DEF n, V, s
    <2>1. store'[Hash(q)] = store[Hash(q)] /\ Get(q)' = Get(q)
        BY <1>1, <1>3, <1>4 DEF Get
    <2>2. Sent(q)' = Sent(q) /\ \A i \in Sent(q) : seen'[i] = seen[i]
        BY <1>2, <1>3, <1>4
    <2>3. \A w : {i \in Sent(q) : seen'[i].value = w}
                    = {i \in Sent(q) : seen[i].value = w}
        BY <2>2
    <2>4. KeyStored(q)
        BY DEF Stored
    <2> QED
        BY <2>1, <2>2, <2>3, <2>4 DEF KeyStored, Times
<1>5. ASSUME NEW q \in Key, Hash(q) = h
      PROVE  KeyStored(q)'
    <2> DEFINE Came(w) == {i \in Sent(q) : seen[i].value = w}
               Comes(w) == {i \in Sent(q)' : seen'[i].value = w}
    <2>1. /\ s \in Seq(V) /\ store'[Hash(q)] = t
          /\ Get(q) = IF s = <<>> THEN Empty ELSE Head(s)
          /\ Get(q)' = IF t = <<>> THEN Empty ELSE Head(t)
        BY <1>1, <1>3, <1>5 DEF Get
    <2>2. /\ IF Sent(q) = {} THEN \A i \in DOMAIN s : s[i] = Empty
             ELSE Get(q) \in Value
          /\ \A w \in Value :
                /\ Times(s, w) <= Cardinality(Came(w))
                /\ Came(w) # {} => Times(s, w) # 0
        BY <1>5 DEF Stored, KeyStored
    <2>3. /\ Sent(q)' = Sent(q) \cup {n} /\ n \notin Sent(q)
          /\ \A i \in Sent(q) : seen'[i] = seen[i]
        BY <1>2, <1>3, <1>5
    <2>4. ASSUME NEW w \in Value
          PROVE  /\ Comes(w) = IF v = w THEN Came(w) \cup {n} ELSE Came(w)
                 /\ Cardinality(Came(w)) \in Nat
                 /\ Cardinality(Comes(w)) =
                        IF v = w THEN Cardinality(Came(w)) + 1
                        ELSE Cardinality(Came(w))
        <3>1. Comes(w) = IF v = w THEN Came(w) \cup {n} ELSE Came(w)
            <4> HIDE DEF n
            <4>1. CASE v = w
                BY <1>2, <2>3, <4>1
            <4>2. CASE v # w
                BY <1>2, <2>3, <4>2
            <4> QED
                BY <4>1, <4>2
        <3>2. Came(w) \in SUBSET (1 .. Len(seen)) /\ n \notin Came(w)
            BY <1>3, <2>3
        <3> HIDE DEF Came, Comes, n
        <3>3. IsFiniteSet(Came(w)) /\ Cardinality(Came(w)) \in Nat
            BY <1>3, <3>2, Positions
        <3>4. Cardinality(Came(w) \cup {n}) = Cardinality(Came(w)) + 1
            BY <3>2, <3>3, FS_AddElement
        <3> QED
            BY <3>1, <3>3, <3>4
    <2> HIDE DEF s, n, V
    <2>5. SUFFICES /\ Get(q)' \in Value
                   /\ \A w \in Value :
                        /\ Times(t, w) <= Cardinality(Comes(w))
                        /\ Comes(w) # {} => Times(t, w) # 0
        BY <2>1, <2>3 DEF KeyStored
    <2> HIDE DEF Came, Comes
    <2>6. CASE Sent(q) = {}
        <3>1. \A i \in DOMAIN s : s[i] = Empty
            BY <2>2, <2>6
        <3>2. t = <<v>> \/ (s # <<>> /\ t = <<v>> \o Tail(s))
            <4>1. s # <<>> => Head(s) = Empty
                BY <2>1, <3>1
            <4> QED
                BY <1>1, <1>3, <4>1 DEF Inserted
        <3>3. t # <<>> /\ Head(t) = v
            <4>1. <<v>> # <<>> /\ Head(<<v>>) = v
                OBVIOUS
            <4>2. s # <<>> => <<v>> \o Tail(s) # <<>> /\ Head(<<v>> \o Tail(s)) = v
                BY ONLY <1>3, <2>1
            <4> QED
                BY ONLY <3>2, <4>1, <4>2
        <3>4. ASSUME NEW w \in Value
              PROVE  Times(t, w) = IF v = w THEN 1 ELSE 0
            <4>1. w \in V /\ w # Empty
                BY <1>3
            <4>2. /\ Times(<<v>>, w) = IF v = w THEN 1 ELSE 0
                  /\ s # <<>> => Times(<<v>> \o Tail(s), w) = IF v = w THEN 1 ELSE 0
                BY ONLY <1>3, <2>1, <3>1, <4>1, TimesFirst
            <4> QED
                BY ONLY <3>2, <4>2
        <3>5. \A w : Came(w) = {}
            BY <2>6 DEF Came
        <3>6. ASSUME NEW w \in Value
              PROVE  /\ Times(t, w) <= Cardinality(Comes(w))
                     /\ Comes(w) # {} => Times(t, w) # 0
            BY <2>4, <3>4, <3>5
        <3> QED
            BY <2>1, <3>3, <3>6
    <2>7. CASE Sent(q) # {}
        <3>1. s # <<>> /\ Head(s) = Get(q) /\ Get(q) \in Value
            BY <1>3, <2>1, <2>2, <2>7
        <3>2. ASSUME NEW w \in Value, NEW p \in 1 .. Len(s) + 1
              PROVE  /\ Times(s, w) \in Nat
                     /\ Times(PutAt(s, p, v), w) =
                            IF v = w THEN Times(s, w) + 1 ELSE Times(s, w)
                     /\ PutAt(s, p, v) # <<>>
                     /\ Head(PutAt(s, p, v)) = IF p = 1 THEN v ELSE Head(s)
            <4>1. w \in V /\ v \in V /\ s \in Seq(V)
                BY <1>3, <2>1
            <4> QED
                BY ONLY <4>1, p \in 1 .. Len(s) + 1, TimesPut
        <3>3. \A w \in Value : Times(s, w) \in Nat
            <4>1. s \in Seq(V)
                BY <2>1
            <4> QED
                BY ONLY <4>1, TimesNat
        <3>4. CASE v = Get(q)
            <4>1. t = s
                <5>1. s # <<>> /\ Head(s) = v
                    BY <3>1, <3>4
                <5>2. Inserted(s, v) = {s}
                    BY ONLY <5>1, InsertedSame
                <5> QED
                    BY ONLY <5>2, t \in Inserted(s, v)
            <4>2. Times(s, v) # 0
                <5>1. 1 \in {i \in DOMAIN s : s[i] = v}
                    BY <2>1, <3>1, <3>4
                <5>2. /\ {i \in DOMAIN s : s[i] = v} \in SUBSET (1 .. Len(s))
                      /\ Len(s) \in Nat
                    BY <2>1
                <5>3. IsFiniteSet({i \in DOMAIN s : s[i] = v})
                    BY ONLY <5>2, Positions
                <5> QED
                    BY <5>1, <5>3, FS_EmptySet DEF Times
            <4>3. ASSUME NEW w \in Value
                  PROVE  /\ Times(s, w) <= Cardinality(Comes(w))
                         /\ Comes(w) # {} => Times(s, w) # 0
                BY <2>2, <2>4, <3>3, <4>2
            <4> QED
                BY <2>1, <3>1, <4>1, <4>3
        <3>5. CASE v # Get(q)
            <4>1. PICK p \in 1 .. Len(s) + 1 : t = PutAt(s, p, v)
                BY <1>1, <1>3, <3>1, <3>5 DEF Inserted
            <4>2. /\ \A w \in Value :
                        Times(t, w) = IF v = w THEN Times(s, w) + 1 ELSE Times(s, w)
                  /\ t # <<>> /\ Head(t) = IF p = 1 THEN v ELSE Head(s)
                BY <3>2, <4>1
            <4>3. ASSUME NEW w \in Value
                  PROVE  /\ Times(t, w) <= Cardinality(Comes(w))
                         /\ Comes(w) # {} => Times(t, w) # 0
                BY <2>2, <2>4, <3>3, <4>2
            <4> QED
                BY <2>1, <3>1, <4>2, <4>3
        <3> QED
            BY <3>4, <3>5
    <2> QED
        BY <2>6, <2>7
<1> QED
    BY <1>4, <1>5 DEF Stored

\* The store answers for every line, in every step.
LEMMA RespStored ==
    ASSUME ResponseAssumption, TypeOK, Course, Stored, Next
    PROVE  Stored'
<1>1. ASSUME UNCHANGED <<store, seen>>
      PROVE  Stored'
    BY <1>1 DEF Stored, KeyStored, Sent, Get, Times
<1>2. ASSUME NEW k \in Key, NEW v \in Value, Line(k, v)
      PROVE  Stored'
    BY <1>2, LineStored
<1>3. ASSUME seen' = <<>>, store' \in [Hashes -> Seq({Empty})]
      PROVE  Stored'
    <2> SUFFICES ASSUME NEW k \in Key
                 PROVE  KeyStored(k)'
        BY DEF Stored
    <2>1. Hash(k) \in Hashes /\ store'[Hash(k)] \in Seq({Empty})
        BY <1>3 DEF Hash, Hashes, Key
    <2>2. \A i \in DOMAIN store'[Hash(k)] : store'[Hash(k)][i] = Empty
        BY <2>1
    <2>3. Sent(k)' = {}
        BY <1>3 DEF Sent
    <2>4. ASSUME NEW v \in Value
          PROVE  /\ Times(store'[Hash(k)], v) = 0
                 /\ {i \in Sent(k)' : seen'[i].value = v} = {}
                 /\ Cardinality({}) = 0
        <3>1. v # Empty
            BY DEF ResponseAssumption
        <3>2. /\ {i \in DOMAIN store'[Hash(k)] : store'[Hash(k)][i] = v} = {}
              /\ {i \in Sent(k)' : seen'[i].value = v} = {}
            BY <2>2, <2>3, <3>1
        <3> QED
            BY <3>1, <3>2, FS_EmptySet DEF Times
    <2> QED
        BY <2>2, <2>3, <2>4 DEF KeyStored
<1>4. ASSUME NEW k \in Kind, Reset(k)
      PROVE  Stored'
    <2>1. <<>> \in Seq({Empty})
        OBVIOUS
    <2> QED
        BY <1>3, <1>4, <2>1 DEF Reset
<1>5. CASE ClearValue
    <2>1. \A h \in Hashes : [i \in DOMAIN store[h] |-> Empty] \in Seq({Empty})
        BY DEF TypeOK
    <2> QED
        BY <1>3, <1>5, <2>1 DEF ClearValue
<1>6. CASE Perform \/ DeadCalled \/ NamelessLine \/ Fails \/ ResetInDone
    BY <1>1, <1>6
    DEF Perform, DeadCalled, NamelessLine, Fails, ResetInDone, data, history
<1>7. CASE EndOfHeaders \/ Chunk \/ End
    BY <1>1, <1>7 DEF EndOfHeaders, Chunk, End, data, history
<1>8. ASSUME NEW take \in BOOLEAN, Done(take)
      PROVE  Stored'
    BY <1>1, <1>8 DEF Done
<1> QED
    BY <1>2, <1>4, <1>5, <1>6, <1>7, <1>8 DEF Next

-----------------------------------------------------------------------------
\* Every step keeps the invariant.
LEMMA RespInductive ==
    ASSUME ResponseAssumption, RespInv, [Next]_vars
    PROVE  RespInv'
<1>1. CASE Next
    BY <1>1, RespTypes, RespCourse, RespStored DEF RespInv
<1>2. CASE UNCHANGED vars
    <2>1. TypeOK'
        BY <1>2 DEF vars, pointers, data, history, RespInv, TypeOK
    <2>2. Course'
        BY <1>2
        DEF vars, pointers, data, history, RespInv, Course, Begun, LeftOver,
            Points, BodyOfTransfer, CallsTheLiving
    <2>3. Stored'
        BY <1>2 DEF vars, data, history, RespInv, Stored, KeyStored, Sent, Get, Times
    <2> QED
        BY <2>1, <2>2, <2>3 DEF RespInv
<1> QED
    BY <1>1, <1>2

\* The invariant holds in every state that is reached.
THEOREM ResponseInvariance == ASSUME ResponseAssumption PROVE Spec => []RespInv
<1>1. ResponseAssumption /\ Init => RespInv
    BY RespInitially
<1>2. ResponseAssumption /\ RespInv /\ [Next]_vars => RespInv'
    BY RespInductive
<1> QED
    BY <1>1, <1>2, PTL DEF Spec

\* What the store has under a name as it was spelled, and in any case.
LEMMA RespKeeps ==
    ASSUME ResponseAssumption, RespInv
    PROVE  StoreKeepsSent /\ TransfersApart /\ TypeOK
<1>1. ASSUME NEW k \in Key
      PROVE  LET stored == store[Hash(k)] IN
             /\ \A i \in DOMAIN seen :
                    seen[i].name = k.name /\ seen[i].upper = k.upper =>
                        Get(k) # Empty /\ Times(stored, seen[i].value) # 0
             /\ \A v \in Value :
                    Times(stored, v) <= Cardinality({i \in DOMAIN seen :
                                    seen[i].name = k.name /\ seen[i].value = v})
    <2> DEFINE E == [name : Name, upper : BOOLEAN, value : Value]
               Came(v) == {i \in Sent(k) : seen[i].value = v}
    <2>1. seen \in Seq(E)
        BY DEF RespInv, TypeOK
    <2>2. \A i \in DOMAIN seen : seen[i].value \in Value
        <3>1. \A i \in DOMAIN seen : seen[i] \in E
            <4> HIDE DEF E
            <4> QED
                BY <2>1
        <3> QED
            BY <3>1
    <2>3. DOMAIN seen = 1 .. Len(seen) /\ Len(seen) \in Nat
        <3> HIDE DEF E
        <3> QED
            BY <2>1
    <2>4. /\ Sent(k) # {} => Get(k) \in Value
          /\ \A v \in Value :
                /\ Times(store[Hash(k)], v) <= Cardinality(Came(v))
                /\ Came(v) # {} => Times(store[Hash(k)], v) # 0
        BY DEF RespInv, Stored, KeyStored
    <2>5. ASSUME NEW i \in DOMAIN seen, seen[i].name = k.name,
                 seen[i].upper = k.upper
          PROVE  Get(k) # Empty /\ Times(store[Hash(k)], seen[i].value) # 0
        <3>1. i \in Came(seen[i].value) /\ i \in Sent(k)
            BY <2>5 DEF Sent
        <3> HIDE DEF Came
        <3> QED
            BY <2>2, <2>4, <3>1 DEF ResponseAssumption
    <2>6. ASSUME NEW v \in Value
          PROVE  Times(store[Hash(k)], v) <= Cardinality({i \in DOMAIN seen :
                                    seen[i].name = k.name /\ seen[i].value = v})
        <3> DEFINE D == {i \in DOMAIN seen :
                            seen[i].name = k.name /\ seen[i].value = v}
        <3>1. Came(v) \subseteq D /\ D \in SUBSET (1 .. Len(seen))
            BY <2>3 DEF Sent
        <3>2. Times(store[Hash(k)], v) \in Nat
            <4>1. Hash(k) \in Hashes
                BY DEF Hash, Hashes, Key
            <4>2. store[Hash(k)] \in Seq(Value \cup {Empty})
                BY <4>1 DEF RespInv, TypeOK
            <4>3. /\ Len(store[Hash(k)]) \in Nat
                  /\ {i \in DOMAIN store[Hash(k)] : store[Hash(k)][i] = v}
                        \in SUBSET (1 .. Len(store[Hash(k)]))
                BY <4>2
            <4> QED
                BY <4>3, Positions DEF Times
        <3> HIDE DEF D, Came
        <3>3. IsFiniteSet(D) /\ Cardinality(D) \in Nat
            BY <2>3, <3>1, Positions
        <3>4. Cardinality(Came(v)) <= Cardinality(D) /\ Cardinality(Came(v)) \in Nat
            BY <3>1, <3>3, FS_Subset, FS_CardinalityType
        <3>5. Times(store[Hash(k)], v) <= Cardinality(D)
            BY <2>4, <3>2, <3>3, <3>4
        <3> QED
            BY <3>5 DEF D
    <2> QED
        BY <2>5, <2>6
<1>2. StoreKeepsSent
    BY <1>1 DEF StoreKeepsSent
<1> QED
    BY <1>2 DEF RespInv, Course, TransfersApart
=============================================================================
