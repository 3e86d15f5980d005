------------------------------ MODULE Address ------------------------------
(***************************************************************************)
(* ip::addr (ip/addr.hpp), a pointer to a sockaddr and a length, and the     *)
(* objects that have the storage it points to: ip::v4::addr                  *)
(* (ipv4/addr.hpp), ip::v6::addr (ipv6/addr.hpp) and sock_addr               *)
(* (sock_addr.hpp).                                                         *)
(*                                                                          *)
(* What sa() shows and what the members hold are two things: port(), data()  *)
(* and assign() go to the object's own storage, sa() and family() follow the *)
(* pointer.  Bytes are not modelled, their numbers are.                      *)
(***************************************************************************)
EXTENDS Integers

CONSTANTS
    V4, V6, Ss,     \* storage for objects of the three classes
    View,           \* and for plain ip::addr objects
    Host,           \* hosts that have a v4 and a v6 address
    Loop,           \* the one that localhost is
    Port,           \* numbers a text or an argument has for a port
    None            \* null

Storage == V4 \cup V6 \cup Ss \cup View

AddressAssumption ==
    /\ V4 \cap (V6 \cup Ss \cup View) = {}
    /\ V6 \cap (Ss \cup View) = {} /\ Ss \cap View = {}
    /\ Loop \in Host
    /\ None \notin Storage \cup Host \cup {"dangling", "overread", "overrun"}
    /\ Port \subseteq Nat /\ 0 \in Port

VARIABLES
    life,       \* of an object: "raw" or "live"
    ptr,        \* sockaddr_: the object whose storage it points to
    len,        \* socklen_
    own,        \* the storage of an object
    streamed,   \* sock_addrs whose length recvfrom() on a stream took
    copied,     \* history: objects a v4::addr or a v6::addr was copied to
    alias,      \* history: one was copied the default way, ever
    six,        \* history: a v6::addr was given an address
    crash       \* what ended the program

vars == <<life, ptr, len, own, streamed, copied, alias, six, crash>>

Zero == [fam |-> "none", host |-> None, port |-> 0]

\* Bytes of storage, and what assign() accepts and sets: the sizes of the
\* texts INET_ADDRSTRLEN and INET6_ADDRSTRLEN.
Size(o) == IF o \in V4 THEN 16 ELSE IF o \in V6 THEN 28 ELSE 128
Capacity(o) == IF o \in V4 THEN 16 ELSE IF o \in V6 THEN 46 ELSE 128
Family(o) == IF o \in V4 THEN "v4" ELSE "v6"

Bytes(f) == IF f = "v4" THEN 16 ELSE 28

Shown(o) == own[ptr[o]]

\* What a copy has, once that is copied to o.
Streamed(o, that) ==
    IF that \in streamed THEN streamed \cup {o} ELSE streamed \ {o}

-----------------------------------------------------------------------------
(* Mistakes: variants of the definitions below that the code could have had. *)
(* Nothing uses them; the properties tell each of them from the code.       *)

\* The copy constructor and the copy assignment of sock_addr are the default.
CopySsDefault(o, that) ==
    /\ {o, that} \subseteq Ss /\ life[that] = "live" /\ o # that
    /\ life' = [life EXCEPT ![o] = "live"]
    /\ ptr' = [ptr EXCEPT ![o] = ptr[that]]
    /\ own' = [own EXCEPT ![o] = own[that]]
    /\ len' = [len EXCEPT ![o] = len[that]]
    /\ streamed' = Streamed(o, that)
    /\ UNCHANGED <<copied, alias, six, crash>>

\* clear() keeps the length.
ClearKeeps(o) ==
    /\ o \in Ss /\ life[o] = "live"
    /\ own' = [own EXCEPT ![o] = Zero]
    /\ streamed' = streamed \ {o}
    /\ UNCHANGED <<life, ptr, len, copied, alias, six, crash>>

-----------------------------------------------------------------------------
\* The numbers a port_type holds.
Short == 0..65535

\* htons(static_cast<port_type>(port)).
Record(f, h, p) == [fam |-> f, host |-> h, port |-> p % 65536]

Init ==
    /\ life = [o \in Storage |-> "raw"]
    /\ ptr = [o \in Storage |-> None]
    /\ len = [o \in Storage |-> 0]
    /\ own = [o \in Storage |-> Zero]
    /\ streamed = {} /\ copied = {}
    /\ alias = FALSE /\ six = FALSE
    /\ crash = None

-----------------------------------------------------------------------------
(* Construction and destruction.  A constructor that takes an address is the *)
(* default one and an assign(); if that throws there is no object.           *)

Make(o) ==
    /\ o \notin View /\ life[o] = "raw"
    /\ life' = [life EXCEPT ![o] = "live"]
    /\ ptr' = [ptr EXCEPT ![o] = o]
    /\ len' = [len EXCEPT ![o] = 0]
    /\ own' = [own EXCEPT ![o] = Zero]
    /\ UNCHANGED <<streamed, copied, alias, six, crash>>

\* The default copies of v4::addr and v6::addr, in place or into a new
\* object, and that of ip::addr: the pointer is copied, not set to selfaddr().
Copy(o, that) ==
    /\ o # that /\ life[that] = "live"
    /\ \/ {o, that} \subseteq V4
       \/ {o, that} \subseteq V6
       \/ o \in View
    /\ life' = [life EXCEPT ![o] = "live"]
    /\ ptr' = [ptr EXCEPT ![o] = ptr[that]]
    /\ len' = [len EXCEPT ![o] = len[that]]
    /\ own' = IF o \in View THEN own ELSE [own EXCEPT ![o] = own[that]]
    /\ copied' = copied \cup {o}
    /\ alias' = TRUE
    /\ UNCHANGED <<streamed, six, crash>>

\* sock_addr has its own copies, which keep the pointer.  The constructor
\* asserts that there is a length.
CopySs(o, that) ==
    /\ {o, that} \subseteq Ss /\ life[that] = "live" /\ o # that
    /\ life' = [life EXCEPT ![o] = "live"]
    /\ ptr' = [ptr EXCEPT ![o] = o]
    /\ own' = [own EXCEPT ![o] = own[that]]
    /\ len' = [len EXCEPT ![o] = len[that]]
    /\ streamed' = Streamed(o, that)
    /\ crash' = IF life[o] = "raw" /\ len[that] = 0 THEN "assert" ELSE None
    /\ UNCHANGED <<copied, alias, six>>

Destruct(o) ==
    /\ life[o] = "live"
    /\ life' = [life EXCEPT ![o] = "raw"]
    /\ ptr' = [ptr EXCEPT ![o] = None]
    /\ len' = [len EXCEPT ![o] = 0]
    /\ own' = [own EXCEPT ![o] = Zero]
    /\ streamed' = streamed \ {o} /\ copied' = copied \ {o}
    /\ UNCHANGED <<alias, six, crash>>

-----------------------------------------------------------------------------
(* assign().                                                                *)

SetPort(r, p) == IF p = 0 THEN r ELSE Record(r.fam, r.host, p)

\* v4 and v6 test the length against their capacity and the family.
Accepts(o, that) ==
    o \in Ss \/ (len[that] <= Capacity(o) /\ Shown(that).fam = Family(o))

\* memcpy of the length, which a v6::addr then takes for its capacity.
Take(o, that, p) ==
    /\ own' = [own EXCEPT ![o] = SetPort(Shown(that), p)]
    /\ len' = [len EXCEPT ![o] = IF o \in V6 THEN Capacity(o) ELSE len[that]]
    /\ streamed' = streamed \ {o}
    /\ crash' = IF len[that] > Size(ptr[that]) THEN "overread"
                ELSE IF len[that] > Size(o) THEN "overrun" ELSE None
    /\ UNCHANGED ptr

\* What assign(sa, salen, port) does, by the state of the source.
Assigned(o, that, p) ==
    \/ /\ life[ptr[that]] = "raw"
       /\ crash' = "dangling" /\ UNCHANGED <<own, ptr, len, streamed>>
    \/ /\ life[ptr[that]] = "live" /\ len[that] = 0
       /\ crash' = "assert" /\ UNCHANGED <<own, ptr, len, streamed>>
    \/ /\ life[ptr[that]] = "live" /\ len[that] > 0 /\ ~Accepts(o, that)
       /\ UNCHANGED <<own, ptr, len, streamed, crash>>
    \/ /\ life[ptr[that]] = "live" /\ len[that] > 0 /\ Accepts(o, that)
       /\ Take(o, that, p)

\* assign(const ip::addr&) and operator=(const ip::addr&).
From(o, that, p) ==
    /\ o \notin View /\ o # that
    /\ life[o] = "live" /\ life[that] = "live"
    /\ p < 65536 /\ (o \in Ss => p = 0)
    /\ Assigned(o, that, p)
    /\ six' = (six \/ o \in V6)
    /\ UNCHANGED <<life, copied, alias>>

\* assign(in_addr, port): a port of zero leaves the port there was.
FromHost(o, h, p) ==
    /\ o \in V4 \cup V6 /\ life[o] = "live" /\ p < 65536
    /\ own' = [own EXCEPT ![o] =
                 Record(Family(o), h, IF p = 0 THEN own[o].port ELSE p)]
    /\ len' = [len EXCEPT ![o] = Capacity(o)]
    /\ six' = (six \/ o \in V6)
    /\ UNCHANGED <<life, ptr, streamed, copied, alias, crash>>

\* parse(): the port q of a text, which is what atoi makes of it, counts only
\* where the argument p is zero.
Parsed(p, q) == IF p = 0 THEN q ELSE p

\* assign(text, p) where the text has the port q, or none: zero.  What parse()
\* gives is cut to 16 bits.  A text that is not an address throws and changes
\* nothing.
FromText(o, h, p, q) ==
    /\ o \in V4 \cup V6 /\ life[o] = "live" /\ p < 65536
    /\ own' = [own EXCEPT ![o] = Record(Family(o), h, Parsed(p, q))]
    /\ len' = [len EXCEPT ![o] = Capacity(o)]
    /\ six' = (six \/ o \in V6)
    /\ UNCHANGED <<life, ptr, streamed, copied, alias, crash>>

\* A sock_addr gets the address r of n bytes.
Becomes(o, r, n) ==
    /\ o \in Ss /\ life[o] = "live"
    /\ own' = [own EXCEPT ![o] = r]
    /\ len' = [len EXCEPT ![o] = n]
    /\ streamed' = streamed \ {o}

\* sock_addr::assign(text): libevent parses it, and refuses a port that is
\* not in 1..65535, which leaves the address as it was.
FromSsText(o, f, h, q) ==
    /\ q < 65536
    /\ Becomes(o, Record(f, h, q), Bytes(f))
    /\ UNCHANGED <<life, ptr, copied, alias, six, crash>>

\* "localhost:q" is not parsed by libevent but by atoi, and asserted.
Localhost(o, q) ==
    /\ o \in Ss /\ life[o] = "live"
    /\ IF q < 65536
       THEN Becomes(o, Record("v4", Loop, q), 16) /\ UNCHANGED crash
       ELSE crash' = "assert" /\ UNCHANGED <<own, len, streamed>>
    /\ UNCHANGED <<life, ptr, copied, alias, six>>

\* recvfrom(sa, ...) writes the sender of a datagram, whose port has 16 bits,
\* and sets the length it was told.  One that fails changes nothing.
Receive(o, f, h, q) ==
    /\ Becomes(o, Record(f, h, q), Bytes(f))
    /\ UNCHANGED <<life, ptr, copied, alias, six, crash>>

\* On a connected stream it is told a length of zero, and what was written in
\* the address before stays there.
ReceiveStream(o) ==
    /\ o \in Ss /\ life[o] = "live"
    /\ len' = [len EXCEPT ![o] = 0]
    /\ streamed' = streamed \cup {o}
    /\ UNCHANGED <<life, ptr, own, copied, alias, six, crash>>

Clear(o) ==
    /\ Becomes(o, Zero, 0)
    /\ UNCHANGED <<life, ptr, copied, alias, six, crash>>

\* to_text() and operator<<: a sock_addr is first made into an address of its
\* family, by assign(), which asserts that there is a length; the others only
\* look at the family through sa().
ToText(o) ==
    /\ o \notin View /\ life[o] = "live"
    /\ crash' = IF life[ptr[o]] = "raw" THEN "dangling"
                ELSE IF o \in Ss /\ own[o].fam # "none" /\ len[o] = 0 THEN "assert"
                ELSE IF o \in Ss /\ own[o].fam = "v6" /\ len[o] > 28 THEN "overrun"
                ELSE None
    /\ UNCHANGED <<life, ptr, len, own, streamed, copied, alias, six>>

-----------------------------------------------------------------------------
Next ==
    /\ crash = None
    /\ \E o \in Storage :
        \/ Make(o)
        \/ Destruct(o)
        \/ Clear(o)
        \/ ReceiveStream(o)
        \/ ToText(o)
        \/ \E that \in Storage :
            \/ Copy(o, that)
            \/ CopySs(o, that)
            \/ \E p \in Port : From(o, that, p)
        \/ \E h \in Host, p \in Port :
            \/ FromHost(o, h, p)
            \/ \E q \in Port : FromText(o, h, p, q)
            \/ \E f \in {"v4", "v6"} :
                FromSsText(o, f, h, p) \/ Receive(o, f, h, p)
        \/ \E q \in Port : Localhost(o, q)

Spec == Init /\ [][Next]_vars

-----------------------------------------------------------------------------
(* Properties.                                                              *)

\* A port fits its 16 bits, whatever text it came from.
TypeOK ==
    /\ life \in [Storage -> {"raw", "live"}]
    /\ ptr \in [Storage -> Storage \cup {None}]
    /\ len \in [Storage -> {0, 16, 28, 46}]
    /\ own \in [Storage -> [fam : {"none", "v4", "v6"}, host : Host \cup {None},
                        port : Short]]
    /\ streamed \subseteq Ss /\ copied \subseteq Storage
    /\ alias \in BOOLEAN /\ six \in BOOLEAN
    /\ crash \in {None, "dangling", "assert", "overread", "overrun"}

\* What an object shows is its own storage, through every conversion and
\* assign(), except after one of the default copies (ipv4/addr.hpp:65-78,
\* ipv6/addr.hpp:75-87, sock_addr.hpp:58-68): a sock_addr always does.
ShowsItsOwn ==
    \A o \in Storage : life[o] = "live" /\ o \notin copied => ptr[o] = o

\* The length of a v4::addr and of a sock_addr agrees with the family it has,
\* after clear(), localhost, the sender of a datagram and conversions, until one
\* is a default copy.  A v6::addr has the length of a text instead, 46, and
\* passes it on (ipv6/addr.hpp:15, 117).  Only recvfrom() on a stream, or a copy
\* of what it left, has no length and the family of before, and the next
\* assignment ends that (socket.hpp:162-172, sock_addr.hpp:52-63).
LengthOfFamily ==
    \A o \in V4 \cup Ss : life[o] = "live" /\ ~alias =>
        CASE own[o].fam = "none" \/ o \in streamed -> len[o] = 0
          [] own[o].fam = "v4" /\ o \notin streamed -> len[o] = 16
          [] own[o].fam = "v6" /\ o \notin streamed ->
                len[o] = 28 \/ (len[o] = 46 /\ six)

\* Nothing is copied past the end of a storage, and none is read past its end,
\* until a v6::addr was given an address (ipv4/addr.hpp:116-119,
\* sock_addr.hpp:21-32).
FitsWithoutSix == crash \in {"overread", "overrun"} => six

\* While none is a default copy addresses are values: a step changes what one
\* of them shows, and no step meets a storage that has gone.
ChangesOne ==
    copied \cup copied' = {} =>
        /\ crash' # "dangling"
        /\ \A a, b \in Storage :
            /\ life[a] = "live" /\ life'[a] = "live" /\ Shown(a)' # Shown(a)
            /\ life[b] = "live" /\ life'[b] = "live" /\ Shown(b)' # Shown(b)
            => a = b

Values == [][ChangesOne]_vars

\* An address points at its own storage, with a length that fits its family.
ShapeKept == ShowsItsOwn /\ LengthOfFamily /\ FitsWithoutSix
=============================================================================
