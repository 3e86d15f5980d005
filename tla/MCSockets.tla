------------------------------ MODULE MCSockets -----------------------------
(***************************************************************************)
(* One run for four components that do not interact: Acceptor, Socket,       *)
(* Address and Dns.  Which one a behaviour is of is chosen at the start and  *)
(* the others stay as they are, so that their states add up and do not       *)
(* multiply.                                                                *)
(***************************************************************************)
EXTENDS Acceptor, FiniteSets, TLC

CONSTANTS Sock, Fd, Files,                  \* of Socket
          V4, V6, Ss, View, Host, Loop, Port,   \* of Address
          Que, EvBase, DnsObj, Dns          \* of Dns

VARIABLES
    part,                                   \* the component
    fd, guards, file, opened, means, shared, dropped, stray, sockCrash,
    addrLife, ptr, len, own, streamed, copied, alias, six, addrCrash,
    scope, held, base, loopOf, lost, uprooted, dnsCrash

Sockets == INSTANCE Socket WITH Obj <- Sock, crash <- sockCrash
Addresses == INSTANCE Address WITH life <- addrLife, crash <- addrCrash
DnsBases ==
    INSTANCE Dns WITH Obj <- DnsObj, on <- loopOf, crash <- dnsCrash

sockVars == <<fd, guards, file, opened, means, shared, dropped, stray, sockCrash>>
addrVars == <<addrLife, ptr, len, own, streamed, copied, alias, six, addrCrash>>
dnsVars == <<scope, held, base, loopOf, lost, uprooted, dnsCrash>>

ASSUME SocketsAssumption ==
    /\ Sockets!SocketAssumption
    /\ Addresses!AddressAssumption
    /\ DnsBases!DnsAssumption

PartsInit ==
    /\ part \in {"acceptor", "socket", "address", "dns"}
    /\ Init
    /\ Sockets!Init
    /\ Addresses!Init
    /\ DnsBases!Init

PartsNext ==
    /\ UNCHANGED part
    /\ \/ /\ part = "acceptor" /\ Next
          /\ UNCHANGED <<sockVars, addrVars, dnsVars>>
       \/ /\ part = "socket" /\ Sockets!Next
          /\ UNCHANGED <<vars, addrVars, dnsVars>>
       \/ /\ part = "address" /\ Addresses!Next
          /\ UNCHANGED <<vars, sockVars, dnsVars>>
       \/ /\ part = "dns" /\ DnsBases!Next
          /\ UNCHANGED <<vars, sockVars, addrVars>>

PartsSpec ==
    PartsInit /\ [][PartsNext]_<<part, vars, sockVars, addrVars, dnsVars>>

\* The components have values of their own in common, so that these
\* permutations are all there are.
Symmetry ==
    Permutations(Obj \ Fn) \cup Permutations(Lev) \cup Permutations(Addr)

\* A bound: one default copy of an address at a time.
OneCopy == \A o, that \in copied : o = that

\* Another: at most so many addresses are live at a time.
MaxAddresses == 4
FewAddresses ==
    Cardinality({o \in Addresses!Storage : addrLife[o] = "live"}) <= MaxAddresses

-----------------------------------------------------------------------------
(* The properties of Socket, Address and Dns, which say what they are about. *)

\* The type invariants of the four components.
TypesOK ==
    TypeOK /\ Sockets!TypeOK /\ Addresses!TypeOK /\ DnsBases!TypeOK

\* Files and sockets belong to each other, and another's descriptor is closed
\* or used only after a copy (socket.hpp:12-16, 76-126, 185-188).
DescriptorsKept == Sockets!DescriptorsKept

\* An address that is not a default copy shows its own storage, with the length
\* of its family or the zero of a stream, and nothing is copied or read past the
\* end of a storage
\* (ipv4/addr.hpp:65-119, ipv6/addr.hpp:15, 75-117, sock_addr.hpp:21-68).
ShapeKept == Addresses!ShapeKept

\* Without default copies addresses are values
\* (ipv4/addr.hpp:80-143, sock_addr.hpp:58-94).
Values == Addresses!Values

\* An event_base or an evdns_base has one live owner until it is freed, the
\* evdns_base before the event_base it is on (dns.hpp:40-76, queue.hpp:38-92).
FreedInTime == DnsBases!FreedInTime
=============================================================================
