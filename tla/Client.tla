------------------------------- MODULE Client -------------------------------
(***************************************************************************)
(* btpro::curl::client (curl/client.hpp): HTTP requests run by a libcurl    *)
(* multi handle, driven by libevent from one thread.                        *)
(*                                                                          *)
(* A request is a client_operation in one of two std::lists: running_, and  *)
(* complete_ for streams (websockets) whose socket libcurl has given up.    *)
(* Its end is done(), which calls the user's function.  That function may   *)
(* call client::get again, from inside the loops over the lists.            *)
(*                                                                          *)
(* One thread: the steps below are those of the call that is active, and    *)
(* pc says which one that is.                                               *)
(***************************************************************************)
EXTENDS Naturals, Sequences, SequencesExt

CONSTANTS
    Op,         \* requests that are ever made (bounds their number)
    Stream,     \* those that may become a stream
    None        \* no request: the end of a list

ASSUME ClientAssumption == Stream \subseteq Op /\ None \notin Op

VARIABLES
    running,    \* running_
    complete,   \* complete_
    life,       \* of the client_operation object
    resp,       \* requests whose resp_ is set
    strm,       \* requests whose resp_->stream() is true
    multi,      \* easy handles added to the multi handle
    sock,       \* requests whose socket has an event registered
    msgs,       \* requests with a CURLMSG_DONE not yet read
    timer,      \* timer_ is pending
    called,     \* how often the user's function was called
    pc,         \* the active call
    cur,        \* the request whose function is running, or the iterator
    crash       \* undefined behaviour that ended the program

lists   == <<running, complete>>
curl    == <<multi, sock, msgs, timer>>
request == <<life, resp, strm, called>>
vars    == <<lists, curl, request, pc, cur, crash>>

\* Where the client is.  "act": inside curl_multi_socket_action; "read": in
\* the loop over curl_multi_info_read; "force" and "clean...": in the loop of
\* dispatch_force; "...User": in the user's function called from there.
InForce == {"force", "cleanRunning", "cleanComplete"}
UserOf ==
    [p \in {"read"} \cup InForce |->
        CASE p = "read" -> "readUser"
          [] p = "force" -> "forceUser"
          [] p = "cleanRunning" -> "cleanRunningUser"
          [] p = "cleanComplete" -> "cleanCompleteUser"]
User == {UserOf[p] : p \in DOMAIN UserOf}
PC == {"idle", "act", "gone"} \cup DOMAIN UserOf \cup User

\* The list a loop of dispatch_force runs over.
Looped == IF pc \in {"cleanRunning", "cleanRunningUser"} THEN running
          ELSE complete

First(list) == IF list = <<>> THEN None ELSE Head(list)

\* The stored iterator of an operation: where its node is in a list.
Position(list, op) == CHOOSE i \in DOMAIN list : list[i] = op

\* ++iterator.
After(list, op) ==
    LET i == Position(list, op)
    IN  IF i = Len(list) THEN None ELSE list[i + 1]

\* The list without the node of an operation, if it is in this one.
Unlink(list, op) ==
    IF Contains(list, op) THEN RemoveAt(list, Position(list, op)) ELSE list

-----------------------------------------------------------------------------
(* Mistakes: variants of the definitions below that the code could have had. *)
(* Nothing uses them; the properties tell each of them from the code.       *)

\* Every operation whose socket is given up is moved, stream or not.
EventRemovedAny(op) ==
    /\ sock' = sock \ {op}
    /\ IF op \in sock
       THEN /\ running' = Unlink(running, op)
            /\ complete' = Append(Unlink(complete, op), op)
       ELSE UNCHANGED lists

\* The stream is put into complete_ and left in running_.
EventRemovedCopies(op) ==
    /\ sock' = sock \ {op}
    /\ IF op \in sock \cap strm
       THEN UNCHANGED running /\ complete' = Append(complete, op)
       ELSE UNCHANGED lists

\* The destructor cleans complete_ only.
DestructComplete ==
    /\ pc = "idle"
    /\ pc' = "cleanComplete" /\ cur' = First(complete)
    /\ UNCHANGED <<lists, curl, request, crash>>

\* One message is read per dispatch.
ReadEndsEarly ==
    /\ pc = "read"
    /\ pc' = "force" /\ cur' = First(complete)
    /\ UNCHANGED <<lists, curl, request, crash>>

\* Every response with a socket says that it is a stream.
BecomeStreamAny(op) ==
    /\ pc = "act"
    /\ op \in sock \ strm
    /\ strm' = strm \cup {op}
    /\ UNCHANGED <<lists, curl, life, resp, called, pc, cur, crash>>

-----------------------------------------------------------------------------
Init ==
    /\ running = <<>> /\ complete = <<>>
    /\ life = [op \in Op |-> "new"]
    /\ resp = {} /\ strm = {} /\ multi = {} /\ sock = {} /\ msgs = {}
    /\ timer = FALSE
    /\ called = [op \in Op |-> 0]
    /\ pc = "idle" /\ cur = None
    /\ crash = "no"

\* A dead object or a null pointer is used: the program ends.
Halt(why) == crash' = why /\ UNCHANGED <<lists, curl, request, pc, cur>>

-----------------------------------------------------------------------------
(* The caller: between two calls of the client, or in a function called by  *)
(* it.                                                                      *)

\* create_request: a new operation at the end of running_.
CreateRequest(op) ==
    /\ pc \in {"idle"} \cup User
    /\ life[op] = "new"
    /\ running' = Append(running, op)
    /\ life' = [life EXCEPT ![op] = "live"]

\* get() that does not throw: perform adds the easy handle, and libcurl asks
\* for the timer.  A caller's function may return without having set a response.
Get(op) ==
    /\ CreateRequest(op)
    /\ resp' \in {resp, resp \cup {op}}
    /\ multi' = multi \cup {op}
    /\ timer' = TRUE
    /\ UNCHANGED <<complete, sock, msgs, strm, called, pc, cur, crash>>

\* get() that fails: the caller's function throws before or after it has set
\* the response, or perform throws.  The operation stays in running_.
GetFails(op) ==
    /\ CreateRequest(op)
    /\ resp' \in {resp, resp \cup {op}}
    /\ UNCHANGED <<complete, curl, strm, called, pc, cur, crash>>

\* timer_cb and event_cb enter dispatch.
Dispatch ==
    /\ pc = "idle"
    /\ \/ timer /\ timer' = FALSE
       \/ sock # {} /\ UNCHANGED timer
    /\ pc' = "act"
    /\ UNCHANGED <<lists, multi, sock, msgs, request, cur, crash>>

\* ~client: clean() runs dispatch_force over running_, then over complete_.
Destruct ==
    /\ pc = "idle"
    /\ pc' = "cleanRunning" /\ cur' = First(running)
    /\ UNCHANGED <<lists, curl, request, crash>>

-----------------------------------------------------------------------------
(* Inside curl_multi_socket_action: libcurl calls back.                     *)

\* timer_fn arms or removes the timer.
TimerFn ==
    /\ pc = "act"
    /\ timer' = ~timer
    /\ UNCHANGED <<lists, multi, sock, msgs, request, pc, cur, crash>>

\* sock_fn without an event: add_event.  (set_event changes only the mask.)
AddEvent(op) ==
    /\ pc = "act"
    /\ op \in multi \ (sock \cup msgs)
    /\ sock' = sock \cup {op}
    /\ UNCHANGED <<lists, multi, msgs, timer, request, pc, cur, crash>>

\* sock_fn with CURL_POLL_REMOVE: remove_event destroys the event; assign
\* moves a stream to the end of complete_, whichever list it is in.
EventRemoved(op) ==
    /\ sock' = sock \ {op}
    /\ IF op \in sock \cap strm
       THEN /\ running' = Unlink(running, op)
            /\ complete' = Append(Unlink(complete, op), op)
       ELSE UNCHANGED lists

\* assign asks the operation whether it is a stream, through its resp_.
RemoveEvent(op) ==
    /\ pc = "act"
    /\ op \in sock
    /\ IF op \in resp
       THEN /\ EventRemoved(op)
            /\ UNCHANGED <<multi, msgs, timer, request, pc, cur, crash>>
       ELSE Halt("null")

\* The answer of a websocket has arrived: stream() turns true.
BecomeStream(op) ==
    /\ pc = "act"
    /\ op \in (Stream \cap sock \cap resp) \ strm
    /\ strm' = strm \cup {op}
    /\ UNCHANGED <<lists, curl, life, resp, called, pc, cur, crash>>

\* libcurl is through with a transfer: it gives up the socket and queues
\* the message.
Complete(op) ==
    /\ pc = "act"
    /\ op \in multi \ msgs
    /\ IF op \in sock \ resp
       THEN Halt("null")
       ELSE /\ EventRemoved(op)
            /\ msgs' = msgs \cup {op}
            /\ UNCHANGED <<multi, timer, request, pc, cur, crash>>

\* socket_action returns; libcurl has the timer armed for a transfer that
\* waits for no socket.  When it returns an error the messages are not read.
ActReturns ==
    /\ pc = "act"
    /\ multi \ (sock \cup msgs) # {} => timer
    /\ \/ pc' = "read" /\ UNCHANGED cur
       \/ pc' = "force" /\ cur' = First(complete)
    /\ UNCHANGED <<lists, curl, request, crash>>

-----------------------------------------------------------------------------
(* The loops of dispatch, dispatch_force and clean.                         *)

\* remove(easy), then done() of the operation, which enters the function the
\* caller gave to get().
RemoveAndCall(op) ==
    /\ multi' = multi \ {op}
    /\ msgs' = msgs \ {op}
    /\ EventRemoved(op)
    /\ called' = [called EXCEPT ![op] = @ + 1]
    /\ cur' = op
    /\ pc' = UserOf[pc]
    /\ UNCHANGED <<timer, life, resp, strm, crash>>

\* curl_multi_info_read gives a message.
ReadMessage(op) ==
    /\ pc = "read"
    /\ op \in msgs
    /\ IF op \in resp THEN RemoveAndCall(op) ELSE Halt("null")

\* client::done after the user's function: running_.erase(req.id()) unlinks
\* and destroys the operation, whichever list its node is in.
Erase ==
    /\ pc = "readUser"
    /\ running' = Unlink(running, cur)
    /\ complete' = Unlink(complete, cur)
    /\ life' = [life EXCEPT ![cur] = "dead"]
    /\ pc' = "read" /\ cur' = None
    /\ UNCHANGED <<curl, resp, strm, called, crash>>

\* No message is left: dispatch goes on with dispatch_force(complete_).
ReadEnds ==
    /\ pc = "read"
    /\ msgs = {}
    /\ pc' = "force" /\ cur' = First(complete)
    /\ UNCHANGED <<lists, curl, request, crash>>

\* The body of the loop of dispatch_force.
ForceOne ==
    /\ pc \in InForce
    /\ cur # None
    /\ IF cur \in resp THEN RemoveAndCall(cur) ELSE Halt("null")

\* The user's function returns to that loop, which goes on with the next
\* node.  If the node has moved to the other list, the end of the looped
\* list is never met, and the end of the other one is taken for a request.
ForceNext ==
    /\ pc \in User \ {"readUser"}
    /\ IF Contains(Looped, cur)
       THEN /\ cur' = After(Looped, cur)
            /\ pc' = CHOOSE p \in InForce : UserOf[p] = pc
            /\ UNCHANGED <<lists, curl, request, crash>>
       ELSE Halt("list")

\* list.clear() destroys every operation of the looped list.  The easy handle
\* is destroyed after resp_: when it still has a socket, libcurl calls
\* sock_fn, and op.stream() uses the null resp_.
ForceEnds ==
    /\ pc \in InForce
    /\ cur = None
    /\ IF ToSet(Looped) \cap sock # {} THEN Halt("null")
       ELSE LET gone == IF pc = "cleanComplete"
                        THEN ToSet(running) \cup ToSet(complete)
                        ELSE ToSet(Looped)
            IN  /\ life' = [op \in Op |->
                               IF op \in gone THEN "dead" ELSE life[op]]
                /\ multi' = multi \ gone
                /\ msgs' = msgs \ gone
                /\ running' = IF pc = "force" THEN running ELSE <<>>
                /\ complete' = IF pc = "cleanRunning" THEN complete ELSE <<>>
                /\ pc' = CASE pc = "force" -> "idle"
                           [] pc = "cleanRunning" -> "cleanComplete"
                           [] pc = "cleanComplete" -> "gone"
                /\ cur' = IF pc = "cleanRunning" THEN First(complete) ELSE None
                /\ timer' = (timer /\ pc # "cleanComplete")
                /\ UNCHANGED <<sock, resp, strm, called, crash>>

-----------------------------------------------------------------------------
\* The steps of a call into the client that has begun.
Inside ==
    /\ crash = "no"
    /\ \/ \E op \in Op : ReadMessage(op)
       \/ Erase \/ ReadEnds
       \/ ForceOne \/ ForceNext \/ ForceEnds

\* What libcurl and the caller do.
Outside ==
    /\ crash = "no"
    /\ \/ Dispatch \/ Destruct \/ TimerFn \/ ActReturns
       \/ \E op \in Op : \/ Get(op) \/ GetFails(op)
                          \/ AddEvent(op) \/ RemoveEvent(op)
                          \/ BecomeStream(op) \/ Complete(op)

Next == Inside \/ Outside

Spec == Init /\ [][Next]_vars

\* The loops of the client run on: user functions return.  Nothing is asked
\* of libcurl, of the event loop or of the caller.
Fairness == WF_vars(Inside)

FairSpec == Spec /\ Fairness

-----------------------------------------------------------------------------
(* Properties.                                                              *)

Live == {op \in Op : life[op] = "live"}

TypeOK ==
    /\ running \in Seq(Op) /\ complete \in Seq(Op)
    /\ life \in [Op -> {"new", "live", "dead"}]
    /\ resp \subseteq Op /\ strm \subseteq Stream
    /\ multi \subseteq Op /\ sock \subseteq Op /\ msgs \subseteq Op
    /\ timer \in BOOLEAN
    /\ called \in [Op -> Nat]
    /\ pc \in PC
    /\ cur \in Op \cup {None}
    /\ crash \in {"no", "null", "list"}

\* An operation that lives is in one of the two lists, once, and the lists
\* hold nothing else: splice and erase by the stored iterator never lose an
\* operation or leave a destroyed one behind (client.hpp, assign and done).
InOneList ==
    /\ \A i, j \in DOMAIN (running \o complete) :
          (running \o complete)[i] = (running \o complete)[j] => i = j
    /\ ToSet(running \o complete) = Live

\* libcurl holds the address of an operation (CURLOPT_PRIVATE) only while it
\* lives, so get_op never returns a destroyed one; and the iterator and the
\* operation whose function runs are alive.
NoDangling ==
    /\ sock \cup msgs \subseteq multi
    /\ multi \subseteq Live
    /\ cur # None => cur \in Live

\* The function given to get() is called at most once, also when its request
\* is in complete_, has a message pending, or when the client is destroyed
\* with the request unfinished.
AnsweredOnce == \A op \in Op : called[op] <= 1

\* A null resp_ is used in two ways only.  One is of an operation that never
\* got a response: when libcurl gives up its socket, when dispatch reads its
\* message, or by the destructor, which also meets those a failed get() left in
\* running_.  The other is of a stream that still has its socket, when the
\* clear() of a loop meets it, because it came into the list behind the one
\* whose function was running (client.hpp:256-270, 296-327, 512-528).
NullOnlyUnsetOrStream ==
    crash = "null" =>
        \/ pc = "act" /\ sock \ resp # {}
        \/ pc = "read" /\ msgs \ resp # {}
        \/ pc = "cleanRunning" /\ cur \in Op \ resp
        \/ cur = None /\ ToSet(Looped) \cap sock \cap strm # {}

\* A request that is no stream is destroyed only after its function was called:
\* nobody who asked waits for an answer that cannot come any more.  A stream may
\* be: the loop passes over it when the one before it moves behind it, and then
\* clears the list (client.hpp:268, 317-323).
NoneDroppedSilently == \A op \in Op \ Stream : life[op] = "dead" => called[op] = 1

\* The loop of dispatch_force leaves its list only in the destructor, over a
\* stream that still had its socket; in dispatch the lists can be changed
\* under the loop by splices and by new requests, and it stays in its list.
ListLeftOnlyInDestructor ==
    crash = "list" => pc = "cleanRunningUser" /\ cur \in strm

\* A message that dispatch finds is answered in that dispatch, whatever the
\* functions called before it ask of the client, unless the loop comes first to
\* the message of an operation that has no response.
MessageAnswered ==
    \A op \in Op : (pc = "read" /\ op \in msgs) ~>
        \/ called[op] > 0
        \/ crash = "null" /\ msgs \ resp # {}

\* The lists, libcurl and the loops know the operations that live and no others.
ListsHoldLiving == InOneList /\ NoDangling

\* Who asks is answered, once: whatever ends a request calls its function
\* first, and no other end of it calls the function again (client.hpp, done,
\* dispatch_force and the destructor).
EachAnswered == AnsweredOnce /\ NoneDroppedSilently

\* The ways a client goes wrong are these.
FailuresKnown == NullOnlyUnsetOrStream /\ ListLeftOnlyInDestructor
=============================================================================
