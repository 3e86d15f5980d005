------------------------------ MODULE Response ------------------------------
(***************************************************************************)
(* What an operation does with what libcurl gives it: the parser of header   *)
(* lines (curl/header/parser.hpp), the store they go to                      *)
(* (curl/header/store.hpp), the buffer of the body (curl/io/buffer.hpp), and *)
(* get_resp, which owns them and calls the user's functions (curl/resp.hpp).  *)
(* Transfers are libcurl's: the header lines, a blank line, after a redirect  *)
(* another such block, and the body.  done() is the client's, or the user's:  *)
(* perform() does not call it.                                               *)
(*                                                                          *)
(* What is told to the error function is left out, and so is readcb: when it  *)
(* throws it returns 0, the end of the upload, and the transfer goes on.      *)
(***************************************************************************)
EXTENDS Naturals, FiniteSets, Sequences

CONSTANTS
    Name,       \* names of headers, in lower case
    Edge,       \* those with an a or a z in them
    Value,      \* what headers say, not empty
    Empty,      \* a header that says nothing
    Lines,      \* how many lines with a value a get_resp is given (bounds it)
    Chunks,     \* how many pieces of a body
    Transfers,  \* how many times the operation is performed
    Resps,      \* how many responses the operation has in turn
    None        \* nothing

ResponseAssumption ==
    /\ Edge \subseteq Name
    /\ Empty \notin Value /\ None \notin Value \cup {Empty}
    /\ None \notin {"freedResponse", "assert", "functionDestroyed"}
    /\ {Lines, Chunks, Transfers, Resps} \subseteq Nat /\ Resps # 0

VARIABLES
    resp,       \* resp_, by number
    kind,       \* what it is: "get", a get_resp, or "websocket"
    sink,       \* the get_resp that HEADERDATA and WRITEDATA point to, 0 if none
    store,      \* hdr_: for a hash, its values, the one find() gives first
    body,       \* inbuf_: for each piece the transfer it came in
    phase,      \* "idle", "headers", "body", "failing": a callback returned 0
    transfer,   \* how many times the operation was performed
    seen,       \* history: the lines with a value, since they were cleared
    left,       \* history: ended transfers whose body was not taken out
    crash       \* what ended the program

pointers == <<resp, kind, sink>>
data == <<store, body>>
history == <<seen, left>>
vars == <<pointers, data, phase, transfer, history, crash>>

Key == [name : Name, upper : BOOLEAN]
Kind == {"get", "websocket"}

-----------------------------------------------------------------------------
(* Mistakes: variants of the definitions below that the code could have had. *)
(* Nothing uses them; the properties tell each of them from the code.       *)

\* A new value takes the place of the one that find() gives.
InsertedOver(s, v) == {<<v>> \o (IF s = <<>> THEN s ELSE Tail(s))}

\* What was taken stays in the buffer.
TakenStays(take) ==
    /\ body' = body
    /\ left' = IF take THEN {} ELSE left

-----------------------------------------------------------------------------
(* The store.                                                               *)

\* tolower() folds B to Y: (c > 'A') && (c < 'Z').  Two keys with one hash
\* are one key: collisions are not modelled.
Hash(k) == <<k.name, k.upper /\ k.name \in Edge>>

Hashes == Name \X BOOLEAN

PutAt(s, i, v) ==
    [j \in 1 .. Len(s) + 1 |->
        IF j < i THEN s[j] ELSE IF j = i THEN v ELSE s[j - 1]]

\* insert() looks at one element of the key only.  Where among the elements of
\* one key the container puts another is its own choice, in spite of the hint.
Inserted(s, v) ==
    IF s = <<>> THEN {<<v>>}
    ELSE IF Head(s) = v THEN {s}
    ELSE IF Head(s) = Empty THEN {<<v>> \o Tail(s)}
    ELSE {PutAt(s, i, v) : i \in 1 .. Len(s) + 1}

Get(k) == IF store[Hash(k)] = <<>> THEN Empty ELSE Head(store[Hash(k)])

-----------------------------------------------------------------------------
Init ==
    /\ resp = 1
    /\ \/ kind = "get" /\ sink = 1
       \/ kind = "websocket" /\ sink = 0
    /\ store = [h \in Hashes |-> <<>>]
    /\ body = <<>>
    /\ phase = "idle"
    /\ transfer = 0
    /\ seen = <<>> /\ left = {}
    /\ crash = None

-----------------------------------------------------------------------------
(* The operation.                                                           *)

\* perform(), of an operation that may have been performed before: nothing is
\* cleared.
Perform ==
    /\ phase = "idle" /\ transfer < Transfers
    /\ phase' = "headers"
    /\ transfer' = transfer + 1
    /\ UNCHANGED <<pointers, data, history, crash>>

\* libcurl is given the new parser and the new buffer, by a get_resp; assign()
\* of a websocket is empty.
Assign(k) == sink' = IF k = "get" THEN resp + 1 ELSE sink

\* reset(resp): a response is replaced, in the middle of a transfer too.
Reset(k) ==
    /\ resp < Resps
    /\ Assign(k)
    /\ resp' = resp + 1
    /\ kind' = k
    /\ store' = [h \in Hashes |-> <<>>]
    /\ body' = <<>>
    /\ seen' = <<>> /\ left' = {}
    /\ UNCHANGED <<phase, transfer, crash>>

-----------------------------------------------------------------------------
(* parser::parse.                                                           *)

\* libcurl calls the response whose addresses it has.
Called == phase \in {"headers", "body"} /\ sink = resp

DeadCalled ==
    /\ phase \in {"headers", "body"} /\ sink \notin {0, resp}
    /\ crash' = "freedResponse"
    /\ UNCHANGED <<pointers, data, phase, transfer, history>>

\* A line that has a key and a value when it is trimmed.  Others are ignored:
\* the status line, and headers that say nothing.
Line(k, v) ==
    /\ Called /\ phase = "headers" /\ Len(seen) < Lines
    /\ \E s \in Inserted(store[Hash(k)], v) :
        store' = [store EXCEPT ![Hash(k)] = s]
    /\ seen' = Append(seen, [name |-> k.name, upper |-> k.upper, value |-> v])
    /\ UNCHANGED <<pointers, body, phase, transfer, left, crash>>

\* A line that begins with a colon: insert() asserts that there is a key.
NamelessLine ==
    /\ Called /\ phase = "headers"
    /\ crash' = "assert"
    /\ UNCHANGED <<pointers, data, phase, transfer, history>>

\* A callback that throws, or a header_fn_ that refuses, returns 0.
Fails ==
    /\ Called
    /\ phase' = "failing"
    /\ UNCHANGED <<pointers, data, transfer, history, crash>>

\* The blank line: header_fn_, if there is one, says to go on.  After a
\* redirect, or 100, another block of headers comes to the same store.
EndOfHeaders ==
    /\ Called /\ phase = "headers"
    /\ phase' \in {"headers", "body"}
    /\ UNCHANGED <<pointers, data, transfer, history, crash>>

-----------------------------------------------------------------------------
(* The body and the end.                                                    *)

\* append::writecb.
Chunk ==
    /\ Called /\ phase = "body" /\ Len(body) < Chunks
    /\ body' = Append(body, transfer)
    /\ UNCHANGED <<pointers, store, phase, transfer, history, crash>>

\* The transfer ends, well or not, or is taken from the client.
End ==
    /\ phase # "idle"
    /\ phase' = "idle"
    /\ left' = left \cup {transfer}
    /\ UNCHANGED <<pointers, data, transfer, seen, crash>>

\* The function takes the body out of the buffer it is given, or leaves it.
Taken(take) ==
    IF take THEN body' = <<>> /\ left' = {} ELSE UNCHANGED <<body, left>>

\* get_resp::done, between transfers: a transfer is done once, never, or again.
Done(take) ==
    /\ phase = "idle" /\ transfer # 0 /\ kind = "get"
    /\ Taken(take)
    /\ UNCHANGED <<pointers, store, phase, transfer, seen, crash>>

\* A function that calls reset() on its operation destroys itself.
ResetInDone ==
    /\ phase = "idle" /\ transfer # 0 /\ kind = "get"
    /\ crash' = "functionDestroyed"
    /\ UNCHANGED <<pointers, data, phase, transfer, history>>

\* clear_value(): the keys stay, all their values are emptied.
ClearValue ==
    /\ phase = "idle"
    /\ store' = [h \in Hashes |-> [i \in DOMAIN store[h] |-> Empty]]
    /\ seen' = <<>>
    /\ UNCHANGED <<pointers, body, phase, transfer, left, crash>>

-----------------------------------------------------------------------------
Next ==
    /\ crash = None
    /\ \/ Perform
       \/ \E k \in Kind : Reset(k)
       \/ DeadCalled
       \/ \E k \in Key, v \in Value : Line(k, v)
       \/ NamelessLine
       \/ Fails
       \/ EndOfHeaders
       \/ Chunk
       \/ End
       \/ \E take \in BOOLEAN : Done(take)
       \/ ResetInDone
       \/ ClearValue

Spec == Init /\ [][Next]_vars

-----------------------------------------------------------------------------
(* Properties.                                                              *)

TypeOK ==
    /\ resp \in 1..Resps /\ sink \in 0..Resps /\ kind \in Kind
    /\ store \in [Hashes -> Seq(Value \cup {Empty})]
    /\ body \in Seq(1..Transfers)
    /\ phase \in {"idle", "headers", "body", "failing"}
    /\ transfer \in 0..Transfers
    /\ left \subseteq 1..Transfers
    /\ seen \in Seq([name : Name, upper : BOOLEAN, value : Value])
    /\ crash \in {None, "freedResponse", "assert", "functionDestroyed"}

Times(s, v) == Cardinality({i \in DOMAIN s : s[i] = v})

\* Every line that was sent is found under the name as it was spelled, through
\* redirects and further transfers: its value is in the store, and get() gives
\* something.  What the store has was sent under that name, in whatever case,
\* and as often, though insert() looks at one element of a key only and a
\* cleared one is overwritten (store.hpp:101-152, parser.hpp:29-68).
StoreKeepsSent ==
    \A k \in Key :
        LET stored == store[Hash(k)] IN
        /\ \A i \in DOMAIN seen :
            seen[i].name = k.name /\ seen[i].upper = k.upper =>
                Get(k) # Empty /\ Times(stored, seen[i].value) # 0
        /\ \A v \in Value :
            Times(stored, v) <= Cardinality({i \in DOMAIN seen :
                                    seen[i].name = k.name /\ seen[i].value = v})

\* What tolower() is for: a header is found in whatever case its name is asked
\* for, as the websocket asks for "sec-websocket-accept" (store.hpp:29-44,
\* responce/websocket.hpp:152-155).
CaseIgnored ==
    \A k \in Key : \A i \in DOMAIN seen : seen[i].name = k.name => Get(k) # Empty

\* The body that done() gives is of its own transfer, unless nobody took that
\* of an earlier one out of the buffer (resp.hpp:159-169).
BodyOfTransfer ==
    \A i \in DOMAIN body : body[i] = transfer \/ body[i] \in left

\* libcurl calls a response that was replaced only when the last one is a
\* websocket: assign() of any other comes before the old one is deleted
\* (client.hpp:123-128, resp.hpp:177-182, 215-218).
CallsTheLiving == crash = "freedResponse" => kind = "websocket"

\* What came in one transfer, or to one response, stays in it.
TransfersApart == BodyOfTransfer /\ CallsTheLiving
=============================================================================
