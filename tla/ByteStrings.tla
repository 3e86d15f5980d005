---------------------------- MODULE ByteStrings ----------------------------
(***************************************************************************)
(* What a buffer (buffer.hpp) promises: it is a string of bytes, a value     *)
(* that is moved and never shared.  A place is a buffer object, or one end   *)
(* of a bufferevent.  Bytes enter at either side, leave at the front, and    *)
(* change their place only together with those before them.                  *)
(***************************************************************************)
EXTENDS Sequences, Naturals

CONSTANTS Place, Byte

VARIABLE bytes      \* bytes[p]: the string in place p

Init == bytes = [p \in Place |-> <<>>]

In(p) == {bytes[p][i] : i \in 1..Len(bytes[p])}

\* One byte that is nowhere yet, or was given away, comes to one side of p.
Put(p, b) ==
    /\ \A q \in Place : b \notin In(q)
    /\ \/ bytes' = [bytes EXCEPT ![p] = Append(@, b)]
       \/ bytes' = [bytes EXCEPT ![p] = <<b>> \o @]

\* The first n bytes leave.
Take(p, n) == bytes' = [bytes EXCEPT ![p] = SubSeq(@, n + 1, Len(@))]

\* The first n bytes of q go to one side of p, in their order.
Carry(p, q, n) ==
    LET part == SubSeq(bytes[q], 1, n)
        rest == SubSeq(bytes[q], n + 1, Len(bytes[q]))
    IN  /\ p # q
        /\ \/ bytes' = [bytes EXCEPT ![p] = @ \o part, ![q] = rest]
           \/ bytes' = [bytes EXCEPT ![p] = part \o @, ![q] = rest]

\* Two objects exchange their strings.
Exchange(p, q) == bytes' = [bytes EXCEPT ![p] = bytes[q], ![q] = bytes[p]]

\* p gets the string of q; what it had is lost, and q is empty.
Replace(p, q) ==
    /\ p # q
    /\ bytes' = [bytes EXCEPT ![p] = bytes[q], ![q] = <<>>]

Next ==
    \E p \in Place :
        \/ \E b \in Byte : Put(p, b)
        \/ \E n \in 1..Len(bytes[p]) : Take(p, n)
        \/ \E q \in Place :
            \/ \E n \in 1..Len(bytes[q]) : Carry(p, q, n)
            \/ Exchange(p, q)
            \/ Replace(p, q)

StringsSpec == Init /\ [][Next]_bytes
=============================================================================
