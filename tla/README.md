# TLA+ specifications of easy_grpc

easy_grpc wraps the C core of gRPC behind futures and streams of futures. This
directory models the parts of it that carry state across threads and
completions: the future and stream storages of the `variadic_future` library and
the chains built from them, the four kinds of calls from the client's stub to
the server's handler, and the server with its listeners and completion queues.
The specifications are checked with TLC on small instances, and every safety
property those runs check is also proved with TLAPS, for any number of values,
messages, futures, calls and queues.

## 1. Inventory

| component | source | state | operations |
|---|---|---|---|
| future storage | `variadic_future/include/var_future/impl/{storage_impl,storage_decl,promise,future}.h` | `state_` (ready, finished), `ref_count_`, `callback_`, `finished_` | `get_future`, `finish`, `set_value`, `set_exception`, the two destructors, `finally`/`then`/`then_expect` |
| continuations | `impl/{then,then_expect,join,async,utils}.h` | one storage per link, `join`'s landing and its count | run, pass the result or the first error on |
| stream storage | `impl/stream/*.h` | `state_` (ready, complete, fail), `mtx_`, `fullfilled_`, `callback_`, `error_`, `ref_count_` | `push`, `complete`, `set_exception`, destructors, `for_each` |
| completion queue | `src/easy_grpc/completion_queue.cpp` | a grpc queue, one worker thread | `worker_main`: take an event, run `exec` with the flags of its tag, delete the object when `exec` returns true; shutdown and join |
| server handlers | `include/easy_grpc/server/methods/{unary,client_streaming,server_streaming,bidir_streaming}.h` | the call, flags, `pending_ops_`, `reader_prom_` | `perform`, `push`, `finish`, `fail`, `exec` |
| client sessions | `include/easy_grpc/client/stub_impl.h` | the call, flags, `pending_ops_`, `rep_` | constructor, the `for_each` and `finally` lambdas, `exec` |
| listener | `server/methods/listener.h` | the pending call | `inject`, `exec` |
| server | `src/easy_grpc/server/{server,config}.cpp` | `impl_`, `shutdown_queue_`, queues, features | start, move, `cleanup_` |
| reflection | `src/easy_grpc_reflection/reflection_impl.cpp` | a reply stream | answers requests inside the handler's `exec` |

**How they interact.** A call object hands grpc core batches of operations with
its own address, and four flag bits, as tag. The one worker thread of a
completion queue calls `exec` for each completion. The other side of a call
object is a stream or a future: the application's thread that pushes, ends or
resolves it runs the object's lambdas synchronously. So every call object is
entered by two threads, and its deletion is decided by a flag of a completion.
The listener starts a handler's `perform` on the worker of the queue the
handler's own completions come to; `perform` is therefore never concurrent with
that handler's `exec`, but the method's reply may already be pushed by another
thread. The worker then lets the listener ask for the next call, while the
thread that destroys the `Server` may be shutting it down.

**What is hard.** The lock-free meeting of promise and future; N callbacks on N
threads that count each other in `join`; the unlocked fast path of
`Stream_storage::push`; who closes a call when the stream ends at the same time
as a batch completes; completions that come after the object was deleted; work
done after `start_batch` that `exec` already depends on; a call that breaks at
any point; a shutdown that meets calls in every stage. `PROJECT.json` lists
these hazards line by line.

**What makes each part correct.** A storage delivers what it was given once, in
order, to the handler, whatever the timing, and frees itself once. A chain is
settled once, as its futures were. A call object never has two messages in the
same direction in flight and never ends a direction twice (grpc core would
refuse the batch, and the code asserts that it does not), sends messages in the
order in which they were pushed and the end after the last, is deleted exactly
when grpc core is done with it, and does get there once its streams have ended.
Over both sides: what one application pushed is what the other one received,
and each learns how the call ended. A server answers every call it was given,
by the method's own result, and leaves no listener or handler behind.

## 2. Modules

| module | models | how |
|---|---|---|
| `OneShot` | what a promise/future pair promises | resolve once, attach once, deliver after both |
| `FutureStorage` | storage, promise and future | one program counter per thread (`ppc`, `fpc`), one step per atomic access |
| `FutureStorage_proofs` | | theorems about `FutureStorage` |
| `Continuations` | `join`, `then`, `then_expect`, `async` | a storage is a `OneShot` here: its handler is one step |
| `Continuations_proofs` | | theorems about `Continuations` |
| `StreamChannel` | what a stream promises | FIFO delivery, then the ending |
| `StreamStorage` | stream storage, promise, future, `for_each` | one step per critical section, except for the drain: one per value |
| `StreamStorage_proofs` | | theorems about `StreamStorage` |
| `GrpcCall` | grpc core, external | the contract of `grpc_call_start_batch` and the completion queue |
| `GrpcCall_proofs` | | lemmas about queues, messages and batches that the next four use |
| `ServerStreaming`, `ClientStreaming`, `BidirStreaming` | the handlers of the server | steps of the worker and of the method's thread on one `GrpcCall` |
| `ServerStreamingCall`, `ClientStreamingCall`, `BidirCall` | the sessions of the client in `stub_impl.h` | the same on the client's `GrpcCall` |
| `Reflection` | the method a bidirectional handler serves: any, or the reflection service | extends `BidirStreaming` |
| `ServerStreamingRpc`, `ClientStreamingRpc`, `BidirRpc` | one call from end to end | compose a session and a handler |
| `ServerStreamingRpc_proofs`, `ClientStreamingRpc_proofs`, `BidirRpc_proofs` | | theorems about the two sides of a call and about both |
| `Server` | `Server`, `Method_listener`, `Unary_call_handler`, `start_unary_call`, `Completion_queue` | one step per event a worker takes, and per call of the application |
| `Server_proofs` | | theorems about `Server` |

Variables have the names of the C++ members without the trailing underscore,
actions the names of the functions. An action named `exec_...` is one branch of
`exec`. Definitions introduced by a comment "A bug: ..." are wrong variants of
the definition that follows them; each one breaks a property and shows that the
property depends on the line it changes.

**Abstractions.** Messages are numbered in the order of `push`, so that order
and loss are visible and content is not. Serialization, metadata and logging
are left out. In `FutureStorage` the three storage operations `fullfill`,
`finish` and `fail` differ only in how the handler's argument is built, which
is kept (`op`); the handler is what `finally` attaches, and `then` and
`then_expect` attach theirs in the same way. In the call modules a promise
(`reader`, `rep`, `stream`) has just the states its storage goes through: no
storage, open, complete, failed; that its operations are safe from two threads
is what `StreamStorage` shows. A section under `mtx_` is one step, because
nothing outside the mutex reads what it writes; the exceptions are modelled as
separate steps (`ServerStreaming!unlock`, `ClientStreamingCall!ConstructorEnds`,
the two halves of `BidirStreaming`'s `perform`, and in `Server` the `inject`
that follows a `perform`: the worker takes no other event in between, but the
server may be shut down).

**grpc core.** `GrpcCall` states what is assumed: a batch is refused when it
repeats an outstanding send or receive, or ends a direction again; an accepted
batch completes once; batches complete in any order; the worker takes
completions in the order in which they were queued; messages keep their order.
Each side has a `wire`, what it has sent, and an `end`. A receive of the peer
completes at any time after the message is there: delivery needs no step of its
own, since a batch may always complete later. One flag, `broken`, stands for the
cancellation, the deadline and the lost connection of a call. Once it is set,
receives may complete empty although messages were sent, and the client's status
is an error.

`Server` assumes of the shutdown: requests for a call that are waiting, or made
later, fail; calls no listener has taken are rejected; the notification comes
when each call taken is over, that is, its batch has completed or the call is
broken. A queue that is shut down accepts nothing new.

**Undefined behaviour.** `exec_deleted` is the completion of a batch whose
object is gone. The model drops the event, so that what happens before it can
still be checked; the properties named `NoEventAfterDelete` and
`DeletedWhenDone` say when it does not happen. An assertion that fails ends its
program: `crashed` and, for the bidirectional call, `Stopped`, after which
neither side moves. `callback_` of a stream storage starts as null or as
garbage, because the code does not initialise it.

## 3. Runs

The passing runs check deadlock too; a state in which the system may rest is a
`Done` disjunct of the next-state relation.

| run | bounds | checks |
|---|---|---|
| `future_storage` | 2 values, 1 error | types, no use after free, one delivery, nothing lost, no race on `finished_`, no leak, refinement of `OneShot`, eventual delivery |
| `stream_storage` | 2 values, 1 error, 3 pushes | no use after free, one thread delivers at a time, nothing lost or reordered, no leak, refinement of `StreamChannel` (the ending comes after the last value), eventual final outcome |
| `continuations` | 3 futures | the joined future and the chain are settled once, with the first error by position or what the callback made of the values; eventually, once the futures are |
| `server` | 2 calls, 2 queues | every client gets its own method's result; the shutdown ends; nothing is left on a queue that was joined; features outlive the calls; every call is answered |
| `server_streaming` | 3 replies | batches accepted, replies in order then status, no event after deletion unless `fail` cut in; the client's stream ends as the method's did, with every reply, or with an error if the call broke; both objects are reclaimed |
| `client_streaming` | 3 requests | the same for requests and the one reply, early or late; the reader learns of the end |
| `bidir` | 2 requests, 2 replies | the same for both directions, for a method that replies from a thread of its own and for the reflection service, whose client gets an answer to each request |

**Bounds.** The protocols have no counters: a handler looks only at whether
`pending_ops_` is empty, and the storages at whether a value is there. Three
messages give one that was sent, one in flight and one pending, which is every
case the code distinguishes. For the bidirectional call, whose two directions
multiply, two messages each way keep the run to about a minute: one in flight
and one pending, or one sent and one in flight. Three joined futures are the
fewest with a first, a last and one between, and so with every order of two
errors. Two calls on two queues give two calls on one listener, and a call
served while the other queue is already shut down. The passing runs fire every
action.

**Fairness.** The fair specification of each module assumes weak fairness of the
steps a running thread takes by itself: a thread inside a library call keeps
running, the worker of a queue takes what is queued, and grpc core completes
what it accepted. Nothing is assumed about the application: a stream need not be
pushed to or ended, and a method need not reply. `Server` is the exception: there
the methods settle their futures in the end, because `cleanup_` waits for them
without a deadline; and it assumes, as an order of calls, that the application
destroys its queues after the `Server`.

**Disagreements with documents, tests and assertions.** Each of these runs
checks one statement found in the repository and fails; its counterexample is
short and was compared with the code.

| run | statement | what the code does |
|---|---|---|
| `server_streaming_fail` | `docs/api.md:65` | a failed reply stream reaches the client as one that completed |
| `client_streaming_overtaken` | `tests/client_streaming.cpp:56` | `batch_in_flight_` is set after the batch it stands for has completed: the call hangs |
| `bidir_empty` | `docs/api.md:62` | a reply stream that finishes empty before the handshake never ends the call |
| `bidir_finish` | `assert`, `stub_impl.h:631` | the status is asked for twice when the replies end while the client's close is in flight |
| `reflection` | `assert`, `stream_promise.h:43` and `57` | a request after one that could not be answered is answered on a promise that has ended |

The models also contain, without a run of their own:

- dropping a stream nobody read destroys through the uninitialised `callback_`
  (`stream_storage_impl.h:31`; `StreamStorage`, `callback` goes from `"garbage"`
  to `"wild"`);
- an exception of a `for_each` callback does not fail the future of `for_each`,
  which `docs/api.md:38` promises (`StreamStorage`, `threw`);
- the reader of a cancelled call is completed where `docs/api.md:39` says failed
  (`ClientStreaming!exec_null`, `BidirStreaming!exec_recv`);
- the bidirectional `fail` sends OK as well, and leaks its handler
  (`BidirStreaming!fail`);
- a reply can be handled before `get_future` has allocated its stream's storage
  (`stub_impl.h:302` and `764`; `crashed` in `ServerStreamingCall` and
  `BidirCall`);
- an empty request stream that ends before the handshake is never closed
  (`stub_impl.h:656`; `BidirCall`);
- `then` queues a failure like a callback, where the comment at `future.h:79` has
  it assigned in the thread that fulfills (`Continuations!RunFail`);
- moving a `Server` leaves `features_` behind: the services of a moved server are
  gone with the object it was moved from (`server.cpp:125`; `Server!Move`,
  `DestroyMovedFrom`);
- a client that leaves lets the shutdown end while its method is at work or its
  handler about to be performed: the reply is then started on a queue that is
  shut down, or `inject` is (`Server`, `handler` `"lost"`, `refused`).

The passing runs of the same modules carry the exclusion of exactly these cases
in their properties: `overtaken`, `crashed`, `early`, `misused`, `moved` and
`refused` are there for them.

## 4. Proofs

`FutureStorage_proofs` proves, for all sets of values and errors that do not
contain `None` and `Moved` (`OutcomesAreObjects`): `TypeCorrect`, `Invariant`,
`MemorySafe`, `DeliversAtMostOnce`, `LosesNothing`, `RaceFree`, `LeaksNothing`
and `Refinement`.

None of the safety properties is inductive. That a storage is not used after
it was freed needs the reference count to equal the number of owners
(`Counted`), the storage to live exactly as long as it is counted or being
destroyed by its last owner (`Lifetime`), and each thread to hold its
reference wherever it touches the storage (`PromiseThread`, `FutureThread`).
That the handler runs once needs to know which of the two `fetch_or` came
second: `Bits` says what each bit tells of `finished_` and `callback_`, and
`Handover` that at any time at most one thread has run the handler or is about
to, and that once the promise's operation is over either the handler has run or
the outcome is in `finished_`, waiting for the future. `IInv` is the
conjunction. The run `future_storage` checks the properties themselves; the proof
shows that `Init` implies it (`InitInv`), that every action preserves each of its
parts (`TypeStep`, `InvStep`, one case per action), and that it implies the
safety properties (`SafetyFromInv`). The refinement maps `outcome` and
`delivered` to themselves and `attached` to the ready bit; every step is a
`Resolve`, `Attach` or `Deliver` step of `OneShot`, or changes none of its
variables (`RefineStep`).

`Continuations_proofs` proves `ChainCorrect`, that is `ChainSound`, for every number
N > 1 of joined futures (`NAssumption`); the run checks it for three. The
invariant has two ideas. The first is that `fullfilled` is the cardinality of the
set of callbacks that have pinged (`Joining`): it becomes N in one step only, the
one with which that set becomes all of `Sources`, and by then every slot holds
what its future was settled with. The second is that a task of the chain is in
the queue at most once and before anything has run (`ChainTasks`), and that
nothing has run unless the task said so (`Ran`); `QueueChain` covers the one step
that queues it, the last `ping` or `then`, whichever comes later. `AsyncTasks`, that
a task of `async` is queued once and its future is unsettled until then, is needed
because that task settles a future without looking. `NotBegun` ties the parts
together: a future that is not settled has not pinged, so the chain has not begun,
and no step on a future can disturb it. `SoundFromInv` goes from positions to
`FirstError`, with `LeastExists` and `FirstErrorIs` for `get_first_error`.

`StreamStorage_proofs` proves `MemorySafe`, `DeliveredByOneThread`, `LosesNothing`,
`LeaksNothing` and `Refinement` for all values, all errors and every number of
pushes, assuming that `None` is no ending and `Complete` no error
(`EndingsAreNotNone`, `CompleteIsNoError`). The lifetime is that of the future
storage: `Counted`, `Lifetime`, `PromiseThread` and `FutureThread`. What is new is
the fast path, where `push` looks at the ready bit without the mutex. `Bits` says
why that is sound: the bit is set at the end of the drain, when `fullfilled_` is
empty, and stays; only a promise that has seen it runs the callback; and complete
and fail are not set before the last push is over. Then `NothingLost`, which says
that what was received, what is queued and what `push` holds is together what was
pushed, is kept by each step (`PushKeeps`, `BufferKeeps`, `DirectKeeps` and
`DrainKeeps` state this for the sequences alone), and `Finalized` orders the end of `for_each` after it. The
refinement maps the steps that hand a value to the callback to `Deliver`, those that
resolve the future of `for_each` to `Finalize`, and all others but a push and the
ending to a stutter.

`Server_proofs` proves `CallsAnswered`, `QueuesReclaimed` and `FeaturesOutlive` for all
sets of calls and queues, with no assumption on them. The central part is
`EventState`: a queue holds exactly the events its listener and its handlers wait
for, one each (`Unrepeated`). So taking an event moves one object only, a handler
is performed and deleted once, and a worker that finds its queue empty and shut
down has left nothing (`JoinState`). `Phases` and `CallPhases` relate the server's
phase to its listeners and calls: nobody waits for a server that is not up, and a
destroyed one has only broken calls at work. `CallState` says that a call is served
on one queue and what is sent is what its method returned; with it `Answered` is
inductive.

The three modules about calls share `GrpcCall_proofs`, whose lemmas say what a
batch, its completion and the taking of an event do to a call of any type
(`StartFields`, `AskFields`, `EndFields`, `RefusedFields`, `CompleteFields`,
`TakeFields`), that a queue of distinct events behaves like a set (`Enqueue`,
`Dequeue`), and that `pending_ops_` is always the tail of what was pushed
(`PendingPush`, `PendingSend`). Each module states one invariant for both sides, in
the same three layers:

- what is outstanding. For each kind of batch, the batch and its completion are
  never there at once or twice, and the flags of the object say which there are:
  `InFlight`, `OneBatch`, `OneReceive`, `OneReply`, and for the bidirectional call
  `OneOfEach`, `Sends`, `Reads` and their counterparts for the session. This is what
  the guards of `push`, `finish` and `exec` rely on, and from it follows that no
  batch is refused;
- how it ends and what was sent. A direction is closed once, after the last
  message, and the object is deleted when the last completion has been handled
  (`Endings`, `Ends`, `SessionEnds`); what is on the wire and what is pending is
  what was pushed, in order (`Order`, `SessionOrder`);
- what one side has heard of the other (`Heard`; `HandlerHeard` and `SessionHeard`):
  never more than is on the wire, and told of the end of an unbroken call only
  after all of it. For `BidirRpc`, `Answers` adds that the reflection service has
  given one answer per request it has read, but for the one it works on.

A step changes one side. Its lemma shows that it keeps that side's part and that
the wire only grows, and not after its end (`WireGrows`, `SessionWireGrows`), which
is all the other side's `Heard` depends on; so the cases of the two sides are not
multiplied. The theorems, for any number of messages:

- `ServerStreamingRpc_proofs`: `HandlerNotRefused`, `StatusAfterReplies`, `DeletedLast`,
  `SessionIsSafe` and `ClientSeesAll`, that a stream the client sees complete has
  every reply and one that fails belongs to a broken call, for a method that did
  not fail;
- `ClientStreamingRpc_proofs`: `SessionNotRefused`, `CloseAfterRequests`, `DeletedLast`,
  `HandlerIsSafe` and `ReaderHasAll`. `OneBatch` covers the constructor that sets
  `batch_in_flight_` late: what is lost then is progress, which
  `client_streaming_overtaken` shows, and not safety;
- `BidirRpc_proofs`: `HandlerNotRefused`, `StatusAfterReplies`, `DeletedLast`,
  `SessionIsSafe` and `ClientSeesAll`, with any method or the reflection service.
  The session's part holds with the exception `early`, the disagreement that
  `bidir_finish` shows: `SessionEnds` says that this is the only way in which the
  status is asked for while the close is in flight.

Before they were proved, the invariants were checked with TLC on small instances.

Only model-checked: `EventuallyDelivered`, `EventuallyFinal`, `ChainSettles`,
`ShutdownEnds`, `EveryCallAnswered`, `ReaderEnds` and the three `RpcEnds`. They are
liveness under fairness, which the prover does not handle. The statements of the
violation runs are false and have no theorem. What grpc core promises is an
assumption of all theorems about calls and the server.

## 5. Plan

1. Done: storages, chains, the calls from end to end, the server, and the proofs
   of every safety property the runs check.
2. Left: further action properties, stated for TLC first, where they say more
   than the invariants do (what has been heard of a call is never taken back), and
   shorter proofs where the lemmas of `GrpcCall_proofs` can carry more.

## 6. Not modelled

The protoc plugin generates text. Serialization and the type traits are
templates over protobuf. `Environment` and `Channel` pass handles through.
`Config` collects what the constructor of `Server` is given. Two deadlocks are
out of the models because they need an application that calls back: a `for_each`
callback that pushes to its own stream while it is drained
(`stream_storage_impl.h:122`), and a reader of a bidirectional call that pushes a
request from its callback (`stub_impl.h:715`); both lock a mutex the same thread
holds. A method of a streaming handler that throws ends the program
(`client_streaming.h:45`). Callbacks passed to `finally` do not throw, which the
library's README demands.

Memory orders: every atomic of the storages except the reference count uses the
default sequentially consistent order, which the interleaving model has, and the
count's decrement is `acq_rel`. Failures of allocation are left out. The width of
`ref_count_` (8 bits) cannot matter with the two owners of `FutureStorage`.

Nearly all lines of the repository are third-party: asio under
`variadic_future/examples`, two copies of `nonstd::expected`, and doctest. They
are not modelled; the repository's own library code with state is.
