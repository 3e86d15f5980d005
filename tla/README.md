# A TLA+ model of btpro

btpro is a header-only C++ library over libevent, libcurl and wslay
(`src/include/btpro`). It has no tests and hardly any documentation; these
modules say what its state machines do, what they promise, and where the promise
ends.

Two generations of code live side by side. `btpro.hpp`, `queue.hpp`,
`functional.hpp`, `evtype.hpp`, `evcore.hpp`, `ev.hpp`, `buffer.hpp`,
`buffer_event.hpp`, `dns.hpp`, `uri.hpp` and `config.hpp` are the current one.
`tcp/*`, `curl/client.hpp`, `ssl/bevsock.hpp` and `wslay/context.hpp` still use
the earlier names (`evs` as a class, `evheap`, `queue_ref`, `queue_handle_t`) and
do not compile against it as they are; they are modelled by what their text says.

## Inventory

| part | files | state | operations | correct when |
|---|---|---|---|---|
| queue and callbacks | `queue.hpp`, `functional.hpp`, `thread.hpp` | the event_base a queue owns; the registered once events; the closures on the heap | constructors, move, assign, destroy; dispatch, loop, loopexit, loop_break; once in 14 forms, to itself or to another queue | a base has one owner; a closure is deleted once, after its function; a posted function is called once or not at all; a break ends the loop |
| curl client | `curl/client.hpp`, `curl/request.hpp`, `curl/resp.hpp` | the lists `running_` and `complete_`, the multi handle, a timer, one event per socket | get, timer_fn, sock_fn, timer_cb, event_cb, dispatch, dispatch_force, the destructor | an operation is in one list while libcurl knows it; its function is called once; a null response is not used |
| events | `evtype.hpp`, `evcore.hpp`, `ev.hpp` | an `event` on the heap or in the object, the handler beside it | create, add, remove, active, destroy, exec, moves | the event never fires on a dead handler |
| buffer | `buffer.hpp`, `curl/io/buffer.hpp` | an evbuffer, owned or referred to | append, prepend, drain, copyout, remove, write, moves | bytes keep their order and are in one buffer; a reference does not free |
| buffered sockets | `buffer_event.hpp`, `tcp/bev.hpp`, `tcp/bevfn.hpp`, `ssl/bevsock.hpp` | a bufferevent and its callbacks | create, attach, destroy, connect, enable, read, write, set | freed once; not used by a callback after destroy |
| listening sockets | `tcp/listener.hpp`, `tcp/acceptor.hpp`, `tcp/acceptorfn.hpp` | an evconnlistener and the handler | listen, close, enable, disable, dispatch, on_throw | an accepted descriptor has an owner; the handler lives while the listener does |
| websocket framing | `wslay/context.hpp` | a wslay context, its handler | client, server, queue_msg, queue_close, receive, write, destroy | freed once, calls back the object that has it, writes all it took up before a close frame |
| response headers | `curl/header/store.hpp`, `curl/header/parser.hpp`, `curl/resp.hpp` | a multimap from the hash of a key, the body | insert, find, parse, clear_value, done | a header is found whatever the case of its key; a response has the body of its own transfer |
| request headers | `curl/slist.hpp`, `curl/request.hpp` | a curl_slist | push, reset, perform | libcurl reads no list that was freed |
| DNS base | `dns.hpp`, `queue.hpp` | an evdns_base, on the event_base of a queue | create, assign, move; of the queue also destroy | freed once, before its event_base |
| socket addresses | `sock_addr.hpp`, `ip/addr.hpp`, `ipv4/addr.hpp`, `ipv6/addr.hpp` | storage, and a pointer to it | copy, assign, resize, clear | a copy refers to its own storage; a length fits it |
| sockets | `socket.hpp`, `sock_opt.hpp` | a descriptor | create, bind, listen, accept, close | a descriptor is closed once |
| time and results | `btpro.hpp` | none | make_timeval, check_result, check_pointer | seconds and microseconds add up to the duration |
| the rest | `config.hpp`, `uri.hpp`, `curl/option.hpp`, `curl/info.hpp`, the rest of `ssl/*`, `ipv4/multicast_*`, platform layer | a handle at most | single calls | - |

How the parts interact. A queue drives everything by callbacks: libevent keeps an
address (a closure, an `ev` handler, an acceptor, a client) and hands it back
when an event fires, so most of what can go wrong is a life that ends before an
event does. Threads meet in a queue: `once(queue& other, ...)` posts from the
thread that runs one base to the base another thread runs (`use_threads`). The
curl client is called back by libcurl from inside the calls it makes, and calls
functions that may call the client again.

What is hard is therefore interleaving (two threads, a requeue), re-entrance (a
callback that changes the list being iterated), lifetimes, and steps of which a
later one fails (a closure allocated, then `event_base_once` refuses it). Nothing
is persisted, so there is no recovery. `PROJECT.json` lists each hazard at its
line with the properties that cover it, or with a note why none does.

## Modules

| module | of | beside it |
|---|---|---|
| `Queue` | queue and callbacks | `Delivery`, its contract; `QueueRefines`; `QueueProofs` |
| `Client` | curl client | `ClientProofs` |
| `Ev` | events | `EvProofs` |
| `Buffer` | buffer | `ByteStrings`, its contract; `BufferProofs` |
| `BufferEvent` | buffered sockets | `BufferEventProofs` |
| `Acceptor` | listening sockets | `SocketsProofs` |
| `Framing` | websocket framing | `ExchangeProofs` |
| `Response` | response headers and body | `ResponseProofs`, `ExchangeProofs` |
| `OutHeaders` | request headers | `ExchangeProofs` |
| `Address` | socket addresses | `SocketsProofs` |
| `Socket` | sockets | `SocketsProofs` |
| `Dns` | DNS base | `SocketsProofs` |

The order was that of importance: the queue, on which everything runs, then the
client, whose lists change under its loops, then the objects whose address
libevent or wslay keeps, then the value types. Every module has its state as
variables, one action per operation, constants with a named assumption, a type
invariant, and properties that are conjunctions of named parts. No operator is
recursive. `None` is a null pointer, and `"raw"` is storage without an object in
it. The variable `crash` is undefined behaviour or a failed assertion; nothing
happens after it, and most properties say who may come to it. A module also has
some *mistakes*: variants of a definition that the code could have had, each of
which breaks one of the properties.

History variables (`moved`, `copied`, `orphan`, `left` and the like) say by which
legal step an object got into a state where the code gives no promise. A property
is then of the form "only those go wrong": the code leaves such doors open by
defaulted copies and moves, and the models show that there are no others.

The MC modules give TLC its instances. `MCClient`, `MCOwners`, `MCSockets` and `MCExchange`
put components into one run that do not share state: the variable `part` chooses one
at the start, the others stay as they are, and so their states add up and do not
multiply. `MCOwners`, `MCExchange` and `MCBuffer` also use `part` to take one component
twice with different bounds.

Nothing in a run stops that the code would keep going; a model ends when what it
may create is used up, when an object is destroyed or after a crash. That is why
no run checks for deadlock.

## Queue

`Queue.tla` models `queue.hpp` and `functional.hpp`.

State. `handle[q]` is `hqueue_` of a queue object: a base, `None` after
`destroy()`, or `Raw` where no object lives. `base`, `loop`, `stop`, `exits`,
`pend` are what libevent knows of a base: whether it is live, who runs it, the
flags `event_break` and `event_gotterm`, the timer of loopexit, the registered
once events. `run` and `pc` are the callback that the thread of a base is in.
`call`, `ran`, `heap`, `obj`, `lost` are the posts: the arguments, how often the
user's function was entered, the heap closure, the caller's function object, and
the cells whose event was refused or died with its base. `crash` is the
undefined behaviour (or failed assertion) that ended the program.

One post has up to two *cells*, each with a closure of its own: what `once()`
gives to libevent, and, for a post to another queue, what the outer closure
posts there. `Kind` says which of the overloads of `proxy_call` a cell took:
an rvalue is moved to the heap ("own"), an lvalue `std::function` or `timer_fn`
goes by address ("ref"), `timer_requeue` and its two siblings build a closure
with references ("outer"), which builds the second one ("inner"). An lvalue
lambda is copied by its conversion to `std::function` and is then an "own".

Actions follow the functions: `Create`, `MoveConstruct`, `MoveAssign`, `Assign`,
`Destroy`, `Destruct`, `Dispatch`, `Loop`, `LoopExit`, `LoopBreak`, `Once`,
`OnceOther`; `Fire`, `CallUser`, `Requeue` and `Finish` are the four parts of a
callback, between which other threads move. `ExitFires` and `LoopReturn` are
libevent's loop; `DropCallable` is the caller whose function goes out of scope.
What is libevent's is marked external in the map. When an event becomes active
(time, readiness of a socket) is left open, so that socket and timer posts are
the same. A queue may be destroyed only while no thread is in its loop, which is
what libevent asks. The timer, socket and generic forms differ in the arguments
that are passed on only.

`Keeps` is what a caller keeps for a post, which no comment states. With
`"objects"` the function, unless the closure owns it, and the other queue are not
destroyed before the function was called; queues may still be moved and assigned,
as long as the other queue then has a base. With `"base"` the other queue is left
its base: it is not moved, assigned or destroyed. With `{}` callers may do
anything. The first is what safety needs, the second what it takes for the
function to run where it was sent: the two are apart because the outer closure
looks the base up only when it runs (`queue.hpp:315`).

`Delivery.tla` is the contract of `once` as a state machine of five fates: a call
is refused or accepted; an accepted function is called once, or dropped, and
never both. `QueueRefines.tla` maps Queue to it.

| run | instance | shows |
|---|---|---|
| `queue_posts` | 2 objects, 3 bases, 2 posts, `Keeps = {}`; no loop_break, loopexit and loop(flags), which `queue_live` has | types, `UniqueOwner` through every move, `NoUseAfterFree`, `OnlyLostLeak`, and that Queue implements Delivery: called at most once, and not forgotten |
| `queue_sent` | the same, `Keeps = {"base"}` | `CalledWhereSent`: the thread of the base the other queue holds calls the function, though functions and this queue may go |
| `queue_live` | 2 objects, 2 bases, 1 post, `Keeps = {"objects"}`, fair | `NoCrash`, moves of the other queue on the way and every way to stop a loop included; `BreakEndsLoop`, `Delivered` |
| `queue_dispatch_doc` | 1 of each | `DispatchTellsEvents`, the comment of dispatch(), is violated |

Bounds. Two objects and two bases give every move and a post between two threads;
a third base lets both objects be moved (each move construction makes a base)
while a post is on its way. Two posts let one be on its way while the other is
called, of one function or of two; the steps of one post read nothing of the
others but the function and the queue they share, so a third brings nothing new.
`Base` and `Post` bound what is ever created. Stopping states are states where
all posts and bases are used up, hence no deadlock check.

Fairness (`FairSpec`): a thread inside `event_base_loop` goes on: it fires an
event while one is ready, runs its callback to the end and leaves the loop when
it can. That is one weak fairness condition per base and step of the loop, what a
scheduler gives a running thread if user functions return. Nobody is obliged to
call dispatch, to post or to break.

Findings. `dispatch()` returns `true` when `event_base_dispatch` returned 0, which
means "ended, by a stop or otherwise" and not "has events", as
`queue.hpp:111-112` has it.

### Proofs

`QueueProofs.tla` proves, for any sets of queues, bases, posts and functions and
whatever callers keep: `TypeCorrect`, `Ownership` (`UniqueOwner`),
`ClosureSafety` (`NoUseAfterFree` and `OnePlace`), `LeakFreedom`
(`OnlyLostLeak`), `CalledAtMostOnce` (`AtMostOnce`), `NothingForgotten`
(`NotForgotten`); the last two and `OnePlace` are in no run, where `DeliverySpec`
stands for them. The only assumption is `ConstantsAssumption`: the special values
are not members of the other sets, and rvalue functions are functions.

None of these is inductive. `AtMostOnce` needs that a cell that waits has not been
called yet (`NotYetCalled`), which needs that a hop exists only after the outer
callback has done its work (`CellsInOrder`), that an event is in one place
(`OnePlace`), and that a base is in a callback exactly when `pc` says so
(`PcMatchesRun`). `OnlyLostLeak` needs that nothing is deleted for an lvalue
(`RefOwnsNothing`). `IInv` is their conjunction. `UniqueOwner` is inductive with
the types alone and is proved apart (`OwnerInductive`); the rest is `CellInv`, one
lemma per group of actions that touches cells: those that leave them alone,
destroying a base, firing, calling, finishing, posting, requeueing.

`DeliveryRefined` is `Spec => DeliverySpec`: each step of Queue is a step of
Delivery or leaves the fates as they are. `Fire`, `Finish` and all steps of objects
and loops stutter; `Once` accepts or refuses; a failed hop and a destroyed base drop;
`CallUser` delivers. It needs one more invariant, that only accepted posts have cells
that wait or hops that were lost (`DInv`).

`CarefulCallersAreSafe` (`NoCrash`) assumes `"objects" \in Keeps`, as its run has
it. `CareInv` adds to `DInv` what such callers keep, step by step: the function that
the closure of a post refers to is not dead, until its callback has returned
(`FunctionKept`), and the queue an awaited post was sent to holds a base
(`QueueKept`). The second is what makes the inner once() of a requeue safe although it
comes in another thread and later, and a move in between leaves it true: the base is
then another one. `SentFunctionRunsThere` (`CalledWhereSent`) assumes
`"base" \in Keeps`; `SentInv` says that the queue an awaited post was sent to is there
(`QueueThere`) and that what was called ran on the base it holds. Both need that a
post whose event waits, or whose hop was taken, is awaited (`WaitingAwaited`).

The liveness properties `BreakEndsLoop` and `Delivered` are model-checked only.

## Client

`Client.tla` models `curl/client.hpp`: the lists `running_` and `complete_` as
sequences, for each request its life, its response and whether it is a stream,
what libcurl holds (`multi`, `sock`, `msgs`), the timer, and `pc`, the call the one
thread is in.

The code between two callbacks is one step. `Get` and `GetFails` are `client::get`
from outside or from a user function; `Dispatch` is `timer_cb` or `event_cb`;
`TimerFn`, `AddEvent`, `RemoveEvent`, `BecomeStream`, `Complete` are what libcurl
does in `curl_multi_socket_action`; `ReadMessage`, `Erase`, `ReadEnds` are the loop
over the messages; `ForceOne`, `ForceNext`, `ForceEnds` the three parts of
`dispatch_force`, used by dispatch for `complete_` and by the destructor for both
lists. The user's function runs between `ReadMessage` and `Erase`, and between
`ForceOne` and `ForceNext`: there it may call `get`.

Assumed of libcurl: `socket_action` gives up a transfer's socket before it queues
the message; removing an easy handle gives up its socket (sock_fn with
CURL_POLL_REMOVE) and drops its message; a transfer without a socket has the timer
armed. Assumed of the caller: the client is not destroyed from inside a function it
calls. Nobody makes a caller's function set a response: `Get` and `GetFails` leave it
open whether it did (`client.hpp:512-528`). Assumed of the library
that implements std::list: erasing or splicing by an iterator unlinks that node,
whichever list it is in (the standard asks that it be in the list named).

No response of the repository is a stream at this commit: `websocket::stream_` is
never set. `Stream` is the set of requests whose response overrides `stream()` and
turns true; with `Stream = {}` the model is the code as it is used today.

| run | instance | shows |
|---|---|---|
| `client_loops` | 2 streams, 1 other request, fair | `ListsHoldLiving`: an operation that lives is in one list, once, and libcurl knows no other; `EachAnswered`: at most once, and before it is destroyed unless it is a stream; `FailuresKnown`: where a null response is used and where a loop runs off its list; `MessageAnswered`, which ends with the first message of an operation without a response |

The run has a second part, one buffer event (below), which is fair too.

Bounds. Three requests give a list with a first, a middle and a last node, one of
which can be the node of the loop while another is spliced and a third is made by
a callback. The number of requests is the only bound. Fairness is weak fairness of
the loops of the client alone: user functions return; libcurl, libevent and the
caller owe nothing.

What the run says of the code:

- A `get` whose function sets no response succeeds, and the operation goes on with a
  null one: it is used when libcurl gives up the socket, when the message of the end
  comes, or by the destructor.
- A `get` that fails leaves its operation in `running_`. With a response its
  function is called by the destructor although `get` threw; without one the
  destructor calls `done` of a null pointer.
- In the destructor `dispatch_force(running_)` over a stream with a socket splices
  the node it stands on into `complete_` and goes on there, past that list's end.
- When one stream's function runs in the loop over `complete_` and the stream
  still has its socket, it moves behind the next one; the loop can then pass over
  a stream, which `clear()` destroys without an answer (`client.hpp:268, 317-323`).
  `NoneDroppedSilently` is therefore stated for requests that are no streams.
- `complete_` is empty whenever no call is active, and a destructor whose loop
  over `running_` comes to its end finds it empty too: its second loop, over
  `complete_`, never has anything to do.

### Proofs

`ClientProofs.tla` proves `TypeOK`, `ListsHoldLiving`, `EachAnswered` and
`FailuresKnown` for any sets of requests and streams, from `ClientAssumption`.
None is inductive. `IInv` adds, by place of the active call, what the loops rely
on (`Places`): which list the current node is in, that what is ahead of it was not
called and, in the destructor, that what is behind it was; that outside the loops
nobody who lives was called; and that `complete_` is then empty. The lists are sequences without repetition
(`Apart`), about which the lemmas on `Unlink`, `Append` and `After` are proved
first, from positions and not by induction.

`PartsTypesCorrect` (`TypesOK`) is the type invariant of the run, in which either the
client or the bufferevents of `BufferEvent` move. Its invariant is that of
`ClientProofs` with that of `BufferEventProofs`, which is taken as an instance;
`EventsSame` says that the instance is about the component of the run.

## Events

`Ev.tla` models `evtype.hpp`, `evcore.hpp` and `ev.hpp`. An `ev` is a handler and,
declared after it, an event; `proxy_call(handler_)` gives libevent the handler's
address. State: for each object its life, the function in `handler_` (`hand`) and
`handle_`; for each event the address it holds (`arg`), the function it was created
for (`want`), `EV_PERSIST`; what libevent has (`pend`, `act`); the callback the loop
is in (`run`, `pc`). `loose` and `wrong` are history. A stack event is named by the
object it lies in, so that its storage can be reused; a heap event is a new name
each time (`HeapEvent` bounds how many).

Actions follow the members: `Default`, `Construct`, `Create`, `MoveConstruct`,
`MoveAssign`, `Add`, `Remove`, `Active`, `Destroy`, `Exec`; the destructor is the
two steps `DestructEvent` and `DestructHandler`, since another thread may be between
them. `Ready`, `Fire` and `Return` are libevent's loop, `CallHandler` the lambda that
it calls. `Create` is public in `evcore` only; an `evcore` with a handler of the
caller's is read as an `ev`.

Assumed of libevent: `event_del` waits for the callback of the event before it
deletes, unless that callback calls it (`MayDel`). Assumed of the caller: the
asserts hold, and a handler does not destroy the object it is called in.

| run | instance | shows |
|---|---|---|
| `owners`, first part | 2 objects with heap events, 1 with an event inside, 1 heap event, 2 functions | types; `EventsOwned`: through moves both ways, `create` over one, `destroy` and destructors an event has one owner, and libevent keeps none that was freed or whose storage is gone; `OnlyLooseGoWrong`: a dead handler, or one with another function, is called only in an object that is `loose` |

An object becomes loose in two ways. It is moved while it, or the other object, has
an event: the defaulted moves of `ev` leave libevent with the address of the
moved-from handler, which for a `std::function` is then empty and after its
destructor is dead. Or its handler destroys its own event: `event_del` then has
nothing to wait for, and another thread that destroys the object ends the handler
while it runs. Both are in the model; the properties say that nothing else goes
wrong. No line of the repository moves an `ev` that has an event.

Bounds: a move needs two objects, and the third, of the other kind, lets a stack
event and a heap event be in the loop together. No counter is bounded. There is no
liveness property: whether an event ever fires is the caller's and libevent's.

`EvProofs.tla` proves all three, of the component `Evs` of `MCOwners`, for any constants that meet
`EvAssumption` (the sets are apart). `IInv` adds to them that a live event whose
address was never left behind belongs to the object whose handler it calls, with the
function it was created for (`Addressed`); that the event in a stack object has no
other address (`StackArg`); and that the event in its callback has not been freed
(`Current`). `HandlerOutlivesEvent` is not inductive without them: nothing else ties
the running event to a live object.

## Buffer

`Buffer.tla` models `buffer.hpp` and `curl/io/buffer.hpp`. `handle[o]` is `hbuf_`
of a `buffer`, which frees it, or of a `buffer_ref`, which does not; `data[e]` are
the bytes of an evbuffer, each a value that is in one place at a time. `Input` and
`Output` are the ends of bufferevents, one side of which libevent has frozen. `job[t]`
is the read of several evbuffer calls that thread `t` is in: `drain(text)`, `str` and
`vector` ask for the size, copy, and drain (`Begin`, `CopyOut`, `DrainCopied`); the
`copyout` of `io::buffer` copies and drains what it got (`CopyFirst`). `Begin` is
inside `sync()` or not; the `copyout` of `io::buffer` never is. `locks` are the
evbuffers that were given a lock (`EnableLocking`); those of a bufferevent may have one
from the start. `LetIn` says when another thread gets into an evbuffer: `sync()` keeps
it off if there is a lock, and does nothing otherwise. Two threads in an evbuffer
without a lock are a data race (`Race`), after which nothing is promised.

Single calls are single actions: `Add` (append, append_ref, add_file, read),
`Prepend`, `Drain` (drain, remove, write to a descriptor), `RemoveInto`. A
parameter of type `buffer` is made by the move constructor, which makes an evbuffer
of its own: `AddBuffer`, `Reset` and `WriteBuffer` include that move and the end of
the parameter (`Consumed`). `MoveTerminates` is the noexcept move that cannot have
its evbuffer, `UseDead` a use of a reference whose evbuffer is gone.

`ByteStrings.tla` is what a buffer promises: a string per place, of which front
parts move to either side of another one, and nothing is ever in two. Buffer
implements it (`StringsSpec`); `Place` are the buffers and the ends, and the string
of a buffer is the data of its evbuffer.

| run | instance | shows |
|---|---|---|
| `buffer`, first part | 3 buffers, 2 references, an input and an output, 4 evbuffers, 2 bytes, no reading threads | types; `OneHolder`; `RefValid`: a reference taken from a buffer stays good until that one is moved, passed by value or destroyed; `StringsSpec` |
| `buffer`, second part | 2 objects at a time, buffers or references, an input and an output, 2 threads, with and without locks | the same, and `SoleReadsWhole`: a read that keeps the others off, `Sole`, gets all it was promised and drops exactly what it copied |

Bounds. Three buffers are the two of a move and a third one that a reference is to;
every one of them may hold an evbuffer while a fourth is the parameter's. Two bytes
give an order, two threads an interleaving. A read that is not `Sole` is one of an
evbuffer that has a lock, outside `sync()`: another thread may change the bytes between
its two calls, and the code promises nothing of it. The `copyout` of `io::buffer` is such
a read whenever its evbuffer has a lock.

`write(buffer)` calls itself with the argument and this exchanged until the stack
ends (`buffer.hpp:441`); the model has it as `crash = "stack"`. `append(buffer)` to
a frozen end throws after the bytes were taken from the argument: they go with the
parameter, which `ByteStrings` allows as bytes that leave.

`BufferProofs.tla` proves the types (`BufferTypeCorrect`) and all four properties
from `BufferAssumption`, which says that the objects are apart from the evbuffers and
both from the two ends of bufferevents. `OneHolder` (`BufferOwnership`) needs that the handles
of buffers are evbuffers of their own (`Handles`), `RefValid` (`ReferencesStayGood`)
that nobody else frees what a buffer holds. The types need that an object a thread
reads from keeps its evbuffer (`Jobs`), because no owner that is being read from is
moved or destroyed (`Movable`).

`BuffersAreStrings` is `Spec => StringsSpec`, and every action has its step: `Add`,
`Prepend` put bytes at an end, `Drain`, `DrainCopied`, `Destruct` let a front part leave,
`RemoveInto`, `AddBuffer`, `WriteBuffer` carry one over, moves exchange two places or
put a new empty string in one. The step has to name the places from the objects, and
that two places do not have one string is `OneHolder`; that bytes put are nowhere
else is an evbuffer that is not allocated having none (`Contents`).

`ReadersGetTheirBytes` is `Spec => SoleReadsWhole`. `Promise`: a read that keeps the
others off was promised no more than there is, `str` and `vector` all there is, and the
bytes it has copied are still at the front. That it stays so needs that no step of
another thread changes the bytes of the evbuffer (`SoleBytes`) or gives it a lock while
it is read without one (`SoleBefore`).

## Buffered sockets

`BufferEvent.tla` models `buffer_event.hpp`, its twin `tcp/bev.hpp`, the callback
object of `tcp/bevfn.hpp` and `ssl/bevsock.hpp`. `handle[o]` is `hbev_`; `state[b]`
goes from "live" to "closing" when it is freed and to "gone" when the loop finalises
it; `cb[b]` is the bevfn whose address libevent has, `fns[h]` which of its four
functions are set; `out[b]` are the writes in its output; `heap`, `mem`, `cleaned`
are the `std::function` of a write, the copy of its data, and how often the function
was called. `run` is the callback the loop is in: from there every operation may be
called, `Destroy` of the object itself included.

Actions: `Construct`, `Create`, `Attach`, `Destroy`, `Destruct`, `MoveConstruct`,
`MoveAssign`; `CreateTls`, `CreateTlsFails`, `ConnectTls`, `TlsOfNull` of bevtls;
`MakeHandler`,
`On`, `DropHandler`, `SetCallbacks`, `Connect`, `WriteOp`, `WriteRefused`. The loop
of libevent is `Event`, `Receive`, `Flush`, `Finalize` and, when a function returns,
`Leave`.

| run | instance | shows |
|---|---|---|
| `owners`, other parts | 2 objects, 2 bufferevents, 1 bevfn, and no writes; or 1 object and 2 writes | `OwnedUntilFreed`: one owner, one free, the SSL with it; a dead bevfn is called only for the very bufferevent whose handle was overwritten; `CleanupOnce` |
| `buffer_event_tls_doc` | 1 of each | `FailedSslKilled`, the comment of bevtls::create, is violated |
| `client_loops`, second part | 1 of each, fair | `ConnectAnswered`, `CleanupComes` |

Bounds. A move needs two objects, overwriting two bufferevents. Writes of two
objects do not meet, so that part has one. Fairness: weak fairness of a callback
that returns and of finalising what was freed; strong fairness of the answer to a
connection without TLS, which the kernel always gives in the end and between whose
occasions the loop may be in other callbacks. Of TLS nothing is asked: `CreateTls` without a
socket waits for `ConnectTls` (`ssl/bevsock.hpp:70-82`), and a peer that is silent in
the handshake is waited for for ever. Nobody has to send, to receive or to close.

What the run says: `create` and `attach` over a live bufferevent lose it
(`orphan`); a write that is refused leaves its function and copy on the heap
(`bev.hpp:254-326`). Finding: `create` of bevtls that fails leaks the `SSL`, of which
the comment at `ssl/bevsock.hpp:37` says that it is killed; `SSL_shutdown` frees
nothing.

`BufferEventProofs.tla` proves `BufferEventOwnership` (`OwnedUntilFreed`),
`WriteCleanup` (`CleanupOnce`) and the types, from `BufferEventAssumption`. Owners
and writes are two invariants: that a dead bevfn is not called needs that every live
bufferevent has a bevfn that is there unless its own handle was overwritten
(`CalledLives`);
`CleanupOnce` needs that a write is in one output, once (`OutOnce`), and in none
before it is made or after it is refused (`NewNowhere`, `LostApart`).

## Listening sockets

`Acceptor.tla` models `tcp/listener.hpp`, `tcp/acceptor.hpp` and
`tcp/acceptorfn.hpp`. `handle[o]` is `listener_`, `arg[l]` the object whose address
the listener has, `conn[c]` what became of a descriptor: "leaked" is accepted and
nobody's. Actions: `Make`, `MakeFn`, `Listen`, `Close`, `Destruct`, `MoveConstruct`,
`MoveAssign`, `SetHandler`, `Enable`; `Arrive` and `Accept` of the kernel and
libevent, `Dispatch` within `Accept`; `Take`, `Return` and `Throw` are what a handler
does. A handler may call every operation and destroy its object.

| run | instance | shows |
|---|---|---|
| `sockets`, part "acceptor" | 2 acceptors, 1 acceptorfn, 3 listeners, 2 addresses, 1 connection | `ListenersKept`: a listener and its object keep each other, also when `listen` is refused; `OnlyMovedGoWrong`: a dead object is called, one that does not own the listener, or one without a handler, only through a listener that a move took from its object |

Bounds. Two acceptors are what a move needs, a third listener lets one of them listen
anew meanwhile, two addresses let it be refused or not. Connections do not meet.

A descriptor is leaked when a handler throws, or returns without having taken it:
`socket` has no destructor and `on_throw` is not given it. A handler that destroys
its own acceptorfn and throws is used by the catch clause (`crash = "deadInCatch"`);
an acceptor's function that is destroyed or replaced while it runs is undefined.

`SocketsProofs.tla` proves `ListenerOwnership` (`ListenersKept`), `MovesOnly`
(`OnlyMovedGoWrong`) and the types of Acceptor. `IInv` adds that a dead object has no
listener, that a listener has the address of some object, and that an acceptor lives
without a function only when a move took its listener. `carried` are the listeners that
were moved, each for itself: a move excuses nothing of another listener. Nothing is
claimed of what a handler does with the connection it was given.

## Websocket framing

`Framing.tla` models `wslay/context.hpp`. `wslay[o]` is the event context of an
object, `user[n]` the address it calls back, `fns[h]` the member functions set in a
handler, `accepted`, `taken`, `begun` and `sent` the messages of an event context on
their way, `closing`, `stopped` and `deaf` those that queued a close frame, write no more
and read no more, `run` the call of `wslay_event_recv`. Actions: `Set`, `Construct`, `Copy`,
`Destruct`, `Make` (client, server), `MakeFails`, `Destroy`, `Hold`, `HolderEnds`,
`Misuse`, `QueueMsg`, `QueueClose`, `Receive`, `WriteRest`, `WriteClose` and `WriteMsg`
(write, one frame at a time), and the callbacks `RecvCb`, `Partial`, `MsgCb`, `Invalid`,
`CallbackReturns`. wslay finishes the message it has begun, then sends a close frame
before the messages in its queue and writes no more; `due` is what it had taken up when
the close frame was queued. Masks are asked for by the frames of a client (`Masks`);
`genmask` fails when `RAND_bytes` returns -1, and takes its 0 for random bytes (`NoMask`).

| run | instance | shows |
|---|---|---|
| `exchange`, parts "contexts" and "messages" | 2 objects, 1 handler, 2 event contexts without messages; or one of them with 2 messages | `KnowsItsObject`, `ContextsApart`: only copies share an event context, and only those left without `destroy()` are called dead; `OnlyCloseOvertakes`: what is accepted is written in order and without gaps, up to the close frame, and only the masks of a client end that earlier |
| `framing_null_doc` | 1 of each | `NullNeverCalled`, which the assertions of `handler` say, is violated |

Neither the destructor nor `client()` and `server()` free an event context: `left`
and `over` are those. Finding: `wslay_message` asserts `receive_fn_` and calls
`message_fn_` (`context.hpp:59-61`), so a handler with only `set(receive_fn)` passes
the assertion and calls a null pointer to member. Messages that were queued before a
close frame are lost when wslay has not taken them up yet; `queue_close` tells nobody, not
even when wslay refuses the frame.

`ExchangeProofs.tla` proves `CalledBackObject`, `ContextSafety`, `CloseOvertakes` and
the types. `IInv` adds that what was not made is nobody's (`Fresh`), and that
`wslay_event_recv` runs on a live event context unless a callback freed it
(`Current`), and where an event context is with its messages (`Written`): it has sent
what it took up but for the one it has begun, and takes none after a close frame.

## Transfers: Response and OutHeaders

`Response.tla` is `curl/header/store.hpp`, `curl/header/parser.hpp`,
`curl/io/buffer.hpp` (writecb) and `get_resp` of `curl/resp.hpp`. A key is a name
and whether it is written in upper case; `Hash` is the code's: `tolower` has
`(c > 'A') && (c < 'Z')`, so that names with an a or a z (`Edge`) have two hashes.
`store` is the multimap, `body` says of each piece the transfer it came in, `phase`
is libcurl's place, `sink` the response it has the address of. A transfer is
`Perform`, `Line` (or `NamelessLine`), `EndOfHeaders` (which may be followed by another
block, a redirect), `Chunk`, `Fails` when a callback throws or refuses, `End`. `Done` is
separate, because `operation::perform` does not call it: between transfers it may come
once, never or again. `Reset`, `ResetInDone`, `ClearValue` are the caller's. A response
is a `get_resp` or a `websocket` (`kind`), whose `assign` is empty: libcurl then keeps
the addresses of the one before (`Assign`, `DeadCalled`). Where among equal keys a new
value goes the container decides (`Inserted`).

`OutHeaders.tla` is `curl/slist.hpp` and what `curl/request.hpp` and
`client_operation` do with a list: `Construct`, `Push`, `PushFails`, the implicit
copies, `Reset`, `Destruct`, `Apply`, `Perform`; `Send` and `End` are libcurl's.

| run `exchange` | instance | shows |
|---|---|---|
| "headers" | 2 names, one of them with an edge letter, 2 values, 3 lines, 2 transfers | `StoreKeepsSent`: every line that was sent is found as its name was spelled and its value is in the store, over redirects and transfers; what is stored was sent under that name, as often |
| "bodies" | 1 name, 3 pieces, 3 responses, 2 transfers | `TransfersApart`: a body is of its own transfer unless an earlier one was left there; libcurl calls a response that was replaced only when the last one is a websocket |
| "lists" | 2 operations, 2 lists of the caller, 2 curl_slists | `HeadersKept`: a list is freed with its object; libcurl reads no freed one in an operation that was given its own headers only; a running transfer has what was pushed |
| `response_case_doc` (of `Response` itself) | 1 name with an edge letter, 1 line | `CaseIgnored`: a header is found in whatever case it is asked for, is violated |

Bounds. Three lines are a first value, a repeat and one between; two transfers let
the headers or the body of one be there in the next; a response may be replaced
twice in a transfer. What the runs say of the code: an operation that is performed
again keeps the headers of the time before, and its body when nobody took it; a name with
an A or a Z in it is not found in another case (a finding); a failed append drops all headers pushed
so far, and says nothing; a `basic_slist` of the caller that is copied is freed
twice, and one that is applied to a handle has to outlive the transfer.

### Proofs

`ExchangeProofs.tla` is about `PartsSpec`, the specification of the run, as
`SocketsProofs.tla` is of its own: `ExchangeInvariance` is the conjunction of the
inductive invariants of Framing, of OutHeaders (`OutInv`) and of the instance of
Response that runs. `ResponseProofs.tla` proves that of Response, for any constants.

- `HeadersSent` (`HeadersKept`). That libcurl reads no freed list depends on the
  handle and the object having the same one, so `OutInv` says of each operation what
  its handle has (`HandleHas`): nothing, its own list, or a lost one, unless it was
  given a list. A list that was not made is nobody's (`Unmade`), and an object that
  does not live has none (`Bare`).
- `StoreAnswers` (`StoreKeepsSent`). `insert` looks at one element only, yet the
  claim is about all: `KeyStored` says that under a key, in all the cases that hash to
  it, every value that was sent is in the store, no more often than it was sent, and
  that one is in front as soon as a line was sent. Each of the four cases of `Inserted`
  is a lemma on counting (`TimesPut`, `TimesFirst`), for any place the container
  chooses, and a line that is sent one on the positions of `seen` (`LineSent`). They are
  proved by bijections of positions, without induction.
- `TransfersStayApart` (`TransfersApart`). What is in the buffer between transfers
  was left there (`LeftOver`), what was recorded is of transfers that began (`Begun`),
  and libcurl has the address of the response that is there unless that is a websocket
  (`Points`). The code keeps the last one by the order in `client_operation::reset`
  (`client.hpp:123-128`).

`OutHeadersAssumption` and `ResponseAssumption` say that `None` is not one of the
words that `crash` takes, and that there is a first response.

## Value types: Address, Socket, Dns

`Address.tla`: `ip::addr` is a pointer and a length, and `v4::addr`, `v6::addr` and
`sock_addr` have the storage it points to. `sa()` follows the pointer, `port()` and
`assign()` go to the storage. Lengths are numbers of bytes, because `v6::addr` takes
46, the size of a text, for that of its address (`ipv6/addr.hpp:15`), which `Take`
passes on; ports are cut to 16 bits (`Record`). Copies of v4 and v6 are the default
ones (`Copy`), `sock_addr` has its own (`CopySs`). `Receive` is `recvfrom` of a datagram;
on a connected stream it sets a length of 0 and leaves the family (`ReceiveStream`,
`streamed`).

`Socket.tla`: a descriptor in an object that is copied freely. A file gets the lowest
free number, so a number that was closed is another's soon. `means[o]` is the file
an object got its descriptor for, `stray` that another's was closed or used.

`Dns.tla`: dns objects and queues are variables of nested scopes (`scope`), which end
in reverse order. `held` is `hqueue_` or `hdns_`, `on[n]` the event_base that an
evdns_base was made on. Queues have all that moves or frees an event_base: `MakeQueue`,
`MoveQueue` (which makes a second one for the other queue), `MoveAssignQueue`,
`AssignQueue`, `Destroy` and the end of the scope. `AssignQueue` overwrites the pointer
and frees nothing: the event_base it had is lost, and lives. `Construct` may throw after
`evdns_base_new` (`lost`). `uprooted` are the evdns_bases that an assignment gave to an
object, or whose event_base left its queue by a move or `destroy()` while they lived.

| run `sockets` | instance | shows |
|---|---|---|
| "address" | 2 v4, 1 v6, 2 sock_addr, 1 ip::addr, 1 host, ports 0 and 65616 | `ShapeKept`: an address that is no default copy shows its own storage, with the length of its family or the zero of a stream, and no copy goes past a storage unless a v6::addr is in play; `Values`: without default copies a step changes one address only |
| "socket" | 3 objects, 2 numbers, 3 files | `DescriptorsKept`: an open file is held by its object, another's is touched only after a copy; `create` that fails halfway loses nothing |
| "dns" | 2 queues, 3 event_bases, 2 objects, 2 evdns_bases | `FreedInTime`: one live owner until it is freed; an evdns_base goes before its event_base, but for those uprooted |

Bounds of "address": `OneCopy`, at most one default copy lives, and `FewAddresses`,
at most `MaxAddresses` = 4 objects live. A copy concerns two objects, a conversion
three. Port 65616 is 80 modulo 2^16.

`SocketsProofs.tla` proves all properties of the three modules, of `PartsSpec`, the
specification of the run: it runs one component and leaves the variables of the others
alone, so the invariant is `PartsInv`, the conjunction of the four.

- `FilesBelong` (`DescriptorsKept`). That no object closes another's file is about
  what a number meant when the object got it, so `SockInv` says that a file has one
  number, that an object that has it has that number, and nobody a file that was not
  opened yet (`HeldFiles`). Until a descriptor is copied no two objects have one
  (`OneEach`). A new file gets the lowest free number, of which `LowestFree` says that
  there is one and that it was free.
- `BasesFreedInTime` (`FreedInTime`). That an evdns_base is freed before its event_base
  comes from the order of scopes: unless it was uprooted, or its event_base was lost, the
  queue that has the event_base is further out than the object that has the evdns_base
  (`BelowQueue`). Leaving the innermost scope keeps it, and every step that moves or frees
  an event_base in another way records what it uproots. What was forgotten is not freed
  (`LostLive`).
- `AddressesKeepShape` (`ShapeKept`). The lengths that exist are those of families, 0, and
  46, which comes from `v6::addr` only (`Lengths`); what is shown fits the storage
  because a v4::addr never has a v6 family (`PerFamily`). From there it spreads by
  `CopySs`, `Take` and `Receive`.
- `AddressesAreValues` (`Values`), an action property: `ChangesOne` for each step.

The proofs need that the classes of addresses are apart, and `None` not one of the
words that `crash` takes; `AddressAssumption` and `DnsAssumption` say so.

## What is proved, and what is not

| module | for all constants | model-checked only |
|---|---|---|
| Queue | types, `UniqueOwner`, `NoUseAfterFree`, `OnePlace`, `OnlyLostLeak`, `AtMostOnce`, `NotForgotten`, `DeliverySpec`; of callers that keep the objects `NoCrash`, the base `CalledWhereSent` | `BreakEndsLoop`, `Delivered` |
| Client | types, with those of BufferEvent in its run, `ListsHoldLiving`, `EachAnswered`, `FailuresKnown` | `MessageAnswered` |
| Ev | types, `EventsOwned`, `OnlyLooseGoWrong` | |
| Buffer | types, `OneHolder`, `RefValid`, `StringsSpec`, `SoleReadsWhole` | |
| BufferEvent | types, `OwnedUntilFreed`, `CleanupOnce` | `ConnectAnswered`, `CleanupComes` |
| Acceptor | types, `ListenersKept`, `OnlyMovedGoWrong` | |
| Socket | types, `DescriptorsKept` | |
| Address | types, `ShapeKept`, `Values` | |
| Dns | types, `FreedInTime` | |
| Framing | types, `KnowsItsObject`, `ContextsApart`, `OnlyCloseOvertakes` | |
| Response | types, `StoreKeepsSent`, `TransfersApart` | |
| OutHeaders | types, `HeadersKept` | |

Each proof is the same argument: the initial states satisfy the inductive invariant,
each action preserves it (one lemma or step per action or group of actions), and it
implies the property. The assumptions are the named ones of each module, about
constants only: the sets are apart, `None` is in none of them and no name of a
crash, and a bound that stands for what is there at the start is not 0. `Keeps` is the
one hypothesis beside them, in two theorems of Queue, and has that value in the runs of
their properties.

Liveness under fairness and ENABLED are out of the prover's reach, and so is
induction over data: what a recursive definition computes for every input.

## Observed in the code, outside the properties

- `client::event_cb` passes `((EV_READ|EV_READ) & kind) >> 1`: libcurl is never told
  that a socket can be written to. What libcurl does with the mask is not modelled.
- `make_timeval` of a negative duration gives negative microseconds.
- `base_resp` has no virtual destructor, and an operation deletes its response
  through it.
- `operation()` is noexcept and calls `create_handle`, which throws.
- `sock_fn` lets exceptions of `add_event` and `assign` go through libcurl's C code.
- `readcb` returns 0 when it throws, which libcurl takes for the end of the upload.
- `genmask` takes a return of 0 of `RAND_bytes`, a failure, for random bytes.

## Not modelled

Left out for good, with the component they belong to:

- *Queue*: queries without state change, priorities. *Client*: the error function,
  options, exceptions that pass through libcurl (undefined). *Events*: `attach`,
  priorities, queries. *Buffer*: search, peeking, `expand`, `evbuffer_ptr`. *Buffered
  sockets*: enable and disable, `read`, `set(fd)` and `set(queue)`, `lock` and `sync` of a
  bufferevent, watermarks, timeouts, priorities. *Listening sockets*: a `listener` by
  itself with `set`, `clear` and `swap`, and `set(throw_t)`. *Framing*: two options of
  wslay, and callbacks that throw through it. *Responses*: the error function, `readcb`.
- *Sockets*: `sock_opt.hpp`, one `setsockopt` for each option. *DNS*: `config.hpp`, a
  `unique_ptr` with a getter.
- *Time and results*: `make_timeval` is one expression; `check_result` and
  `check_pointer` are the failures in the other modules.
- *URI*: a view on `evhttp_uri`, whose parsing is libevent's. *Curl options and
  infos*: typed wrappers of single libcurl calls. *TLS and digests*: set-up calls of
  OpenSSL and pure conversions; `ssl/context.hpp` repeats the ownership of
  `buffer.hpp`. *Platform layer*: names. *Multicast options*: two structures.
- *The former curl interface* is commented out or replaced; nothing includes it.

## Running

    tlc -workers 2 -config QueuePosts.cfg MCQueue.tla
    tlc -workers 2 -config ClientLoops.cfg MCClient.tla
    tlapm ClientProofs.tla

The other configurations: `Queue*.cfg` with `MCQueue`, `Owners.cfg` with `MCOwners`,
`Buffer.cfg` with `MCBuffer`,
`Sockets.cfg` with `MCSockets`, `Exchange.cfg` with `MCExchange`,
`FramingNullDoc.cfg`, `BufferEventTlsDoc.cfg`, `ResponseCaseDoc.cfg` with `Framing`,
`BufferEvent` and `Response` themselves.
