------------------------------- MODULE Socket -------------------------------
(***************************************************************************)
(* socket (socket.hpp): a descriptor number in an object that is copied      *)
(* freely and whose destructor does nothing, and socket::guard, which closes *)
(* the socket it refers to.  The kernel gives the number of a closed         *)
(* descriptor to the next file that is opened.                               *)
(***************************************************************************)
EXTENDS Naturals, FiniteSetsExt

CONSTANTS
    Obj,        \* socket objects
    Fd,         \* descriptor numbers, a set of naturals
    Files,      \* how many files are ever opened (bounds it)
    None        \* net::invalid

SocketAssumption ==
    /\ Fd \subseteq Nat /\ Files \in Nat
    /\ None \notin Obj \cup Fd

VARIABLES
    fd,         \* socket_ of an object
    guards,     \* objects that a guard in some scope refers to
    file,       \* the file a descriptor is open on, or 0
    opened,     \* how many files were opened
    means,      \* history: the file an object got its descriptor for
    shared,     \* history: a descriptor was put into a second object
    dropped,    \* history: files whose object was left or overwritten
    stray,      \* history: an object that closed or used another's file
    crash       \* what ended the program

kernel == <<file, opened>>
history == <<shared, dropped>>
vars == <<fd, guards, kernel, means, history, stray, crash>>

Good(o) == fd[o] # None

Open == {file[f] : f \in Fd} \ {0}

-----------------------------------------------------------------------------
(* Mistakes: variants of the definitions below that the code could have had. *)
(* Nothing uses them; the properties tell each of them from the code.       *)

\* close() leaves the number in the object.
DoCloseKeeps(o) ==
    /\ file' = [file EXCEPT ![fd[o]] = 0]
    /\ stray' = (stray \/ file[fd[o]] \notin {0, means[o]})
    /\ UNCHANGED <<fd, means>>

-----------------------------------------------------------------------------
Init ==
    /\ fd = [o \in Obj |-> None]
    /\ guards = {}
    /\ file = [f \in Fd |-> 0]
    /\ opened = 0
    /\ means = [o \in Obj |-> 0]
    /\ shared = FALSE
    /\ dropped = {}
    /\ stray = FALSE
    /\ crash = None

-----------------------------------------------------------------------------
(* The kernel.                                                              *)

\* A new file gets the lowest free number.
OpenFor(o) ==
    LET free == {f \in Fd : file[f] = 0}
    IN  /\ free # {} /\ opened < Files
        /\ opened' = opened + 1
        /\ file' = [file EXCEPT ![Min(free)] = opened + 1]
        /\ fd' = [fd EXCEPT ![o] = Min(free)]
        /\ means' = [means EXCEPT ![o] = opened + 1]

Forget(o) ==
    dropped' = IF Good(o) THEN dropped \cup {means[o]} ELSE dropped

-----------------------------------------------------------------------------
(* Operations.                                                              *)

\* create(): when ::socket fails the object is as good as new.  An option or
\* bind() that throws after it leaves the descriptor in the object, which a
\* caller cannot tell from one that was made: the step is the same.
Create(o) ==
    /\ IF Good(o) THEN crash' = "assert" /\ UNCHANGED <<fd, kernel, means>>
                  ELSE OpenFor(o) /\ UNCHANGED crash
    /\ UNCHANGED <<guards, history, stray>>

\* attach() of a descriptor that was accepted overwrites the one there was.
Attach(o) ==
    /\ OpenFor(o)
    /\ Forget(o)
    /\ UNCHANGED <<guards, shared, stray, crash>>

\* The default copies, and attach(other.fd()).
Copy(o, that) ==
    /\ o # that /\ Good(that)
    /\ fd' = [fd EXCEPT ![o] = fd[that]]
    /\ means' = [means EXCEPT ![o] = means[that]]
    /\ shared' = TRUE
    /\ Forget(o)
    /\ UNCHANGED <<guards, kernel, stray, crash>>

\* detach() gives the number to nobody; so does the end of the object.
Detach(o) ==
    /\ Good(o)
    /\ fd' = [fd EXCEPT ![o] = None]
    /\ means' = [means EXCEPT ![o] = 0]
    /\ Forget(o)
    /\ UNCHANGED <<guards, kernel, shared, stray, crash>>

\* close() closes whatever has the number now.
DoClose(o) ==
    /\ file' = [file EXCEPT ![fd[o]] = 0]
    /\ stray' = (stray \/ file[fd[o]] \notin {0, means[o]})
    /\ fd' = [fd EXCEPT ![o] = None]
    /\ means' = [means EXCEPT ![o] = 0]

Close(o) ==
    /\ Good(o)
    /\ DoClose(o)
    /\ UNCHANGED <<guards, opened, history, crash>>

\* send() and recv() go to whatever has the number, too.
Use(o) ==
    /\ Good(o)
    /\ stray' = (stray \/ file[fd[o]] \notin {0, means[o]})
    /\ UNCHANGED <<fd, guards, kernel, means, history, crash>>

\* A guard in a scope around the operations; it is not nested here.
Guard(o) ==
    /\ o \notin guards
    /\ guards' = guards \cup {o}
    /\ UNCHANGED <<fd, kernel, means, history, stray, crash>>

EndGuard(o) ==
    /\ o \in guards
    /\ guards' = guards \ {o}
    /\ IF Good(o) THEN DoClose(o) ELSE UNCHANGED <<fd, means, file, stray>>
    /\ UNCHANGED <<opened, history, crash>>

-----------------------------------------------------------------------------
Next ==
    /\ crash = None
    /\ \E o \in Obj :
        \/ Create(o)
        \/ Attach(o)
        \/ Detach(o)
        \/ Close(o)
        \/ Use(o)
        \/ Guard(o)
        \/ EndGuard(o)
        \/ \E that \in Obj : Copy(o, that)

Spec == Init /\ [][Next]_vars

-----------------------------------------------------------------------------
(* Properties.                                                              *)

TypeOK ==
    /\ fd \in [Obj -> Fd \cup {None}]
    /\ guards \subseteq Obj
    /\ file \in [Fd -> 0..Files] /\ opened \in 0..Files
    /\ means \in [Obj -> 0..Files]
    /\ shared \in BOOLEAN /\ stray \in BOOLEAN
    /\ dropped \subseteq 1..Files
    /\ crash \in {None, "assert"}

\* Every file that is open is the one some object got its descriptor for,
\* unless an object was detached or overwritten while it had it: create() that
\* throws halfway loses nothing (socket.hpp:76-110).
OpenIsHeld ==
    \A n \in Open : n \in dropped \/ \E o \in Obj : Good(o) /\ means[o] = n

\* A descriptor is closed, or used, as another's only after it was put into two
\* objects: close() forgets the number (socket.hpp:12-16, 122-126, 185-188).
StrayOnlyIfShared == stray => shared

\* While no descriptor was put into two objects, one that is good has its own
\* file: the number is forgotten before the kernel gives it to another one
\* (socket.hpp:112-126, 185-188).
GoodIsOpen ==
    shared \/ \A o \in Obj : Good(o) => file[fd[o]] = means[o]

\* Files and the objects that have their descriptors belong to each other,
\* until a descriptor is copied.
DescriptorsKept == OpenIsHeld /\ StrayOnlyIfShared /\ GoodIsOpen
=============================================================================
