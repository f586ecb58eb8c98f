# Skitr in TLA+

Specifications of [Skitr](../src/README.md), a small JSON-RPC 2.0 framework in
C++: the method registry, the dispatcher, the TCP server, the JSON protocol, the
Value type and the two programs, with TLC runs on small instances and TLAPS
proofs for all instances.
`PROJECT.json` lists the runs, the mutants they are tested with, the source
lines of every definition, the hazards and the theorems.

## The system

| Component | State | Operations | Interacts with |
|---|---|---|---|
| `registry::MethodRegistry` | `methods_` (name to handler), `mutex_` | `registerMethod`, `hasMethod`, `getHandler`, `unregisterMethod`, `listMethods`, `size` | called by any thread; hands out copies of handlers |
| `runtime::Dispatcher` | a reference to the registry | `dispatch` | asks the registry twice, runs the handler unlocked |
| `transport::Server` | `is_running_`, `acceptor_`, `io_ctx_`, two threads | constructor, `start`, `stop`, destructor, `acceptLoop` | one controlling thread; spawns detached connection threads |
| `Server::Impl::handleConnection` | socket, streambuf | read a line, parse, dispatch, serialize, write, repeat | the client's byte stream, the protocol functions, the dispatcher |
| `protocol` (`json_protocol.cpp`) | none | `from_json_request`, `to_json`, `from_json_response`, conversions | called by connections |
| `core` messages and errors | none | `RpcRequest`, `RpcResponse`, `RpcError`, factories | carried by all of the above |
| `core::Value` | a type tag and a variant; arrays and objects shared through `shared_ptr` | copies, moves, accessors, setters, `pushBack`, `operator[]`, `toString` | parameters, results and ids of calls |
| `main.cpp` | the registry, the dispatcher, the server, a signal flag | registers two handlers, starts, waits for a signal, stops | the controlling thread of the server |
| `client.cpp` | a socket | reads a line from the user, sends it, prints one answer line | a connection |

What is hard, and what makes each part correct:

* **Registry.** Threads race on one map. Iterators are used after the test
  that produced them, a list is copied element by element, `getHandler` throws
  with the mutex held. Correct: operations are atomic and their results are
  those of some sequential order; the mutex is always released.
* **Dispatcher.** Two registry calls with a gap, then a handler without a
  lock; four ways for it to end. Correct: exactly one of result and error,
  the id of the request, the handler of the requested method, and errors of
  the dispatcher only for a reason.
* **Server lifecycle.** Five kinds of thread, an acceptor that one thread
  closes while another is blocked in it, partial failures, restarts,
  destruction. Correct: `stop` returns, leaves no thread of the server, lets
  nobody in afterwards; no `std::terminate`; a running server serves.
* **Connection.** Lines are cut and batched arbitrarily; clients pipeline,
  half-close or vanish; serialization may throw. Correct: answers in order
  with the right ids, requests executed once and only when complete.
* **Protocol.** Absent and null differ in ids, params, results and data; JSON has
  no Binary, no DateTime, no NaN, and numbers a Value does not have. Correct:
  what was sent is what arrives, up to what JSON cannot carry.
* **Value.** Containers are shared until written, also between threads.
  Correct: nobody can tell.
* **Programs.** A signal may come at any moment, while a call blocks. Correct:
  the program ends, and until then the client shows each line its own answer.

## Modules

| Module | What it is |
|---|---|
| `RegistryInterface` | calls and results of the registry, shared by the next two |
| `AtomicRegistry` | abstract: every operation happens at one instant |
| `MethodRegistry` | `method_registry.cpp`, critical sections step by step; implements `AtomicRegistry` |
| `Dispatcher` | `dispatcher.cpp` on an atomic registry that others change |
| `Runtime` | `dispatcher.cpp` on `MethodRegistry`; implements `Dispatcher` |
| `Server` | lifecycle in `server.cpp`: `start`, `stop`, `~Impl`, `acceptLoop` |
| `ServerProgram` | `Server` controlled by `main.cpp` or by anybody else |
| `Connection` | `handleConnection` in `server.cpp` and any client |
| `ClientSession` | `Connection` with `client.cpp` or any other client |
| `JsonProtocol` | `json_protocol.cpp`: operators on documents and Values, which are trees |
| `RemoteCall` | one call from client to handler and back, on `JsonProtocol` |
| `ValueSemantics` | abstract: Values that share nothing |
| `CowValue` | `value.cpp`: blocks, use counts, copy-on-write; implements `ValueSemantics` |
| `PrivateValues` | abstract: threads with an array each that share nothing |
| `CowThreads` | `ensureUniqueArray` step by step in several threads; implements `PrivateValues` |
| `MC*` | what TLC needs to instantiate them; one `.cfg` per run |
| `*Proofs` | theorems and their TLAPS proofs |

How they are put together: `Runtime` extends `MethodRegistry` and instantiates
`Dispatcher`; `ServerProgram` extends `Server`; `ClientSession` extends
`Connection`; `RemoteCall` extends `JsonProtocol`. `Connection` presumes of the
dispatcher that it answers every request, once and with its id, which is
`AnswerIsValid` of `Dispatcher`; of the protocol, that every line is accepted or
rejected. Each handler runs in the thread of its connection, so connections
meet only in the registry (`Runtime`) and in Values they share (`CowThreads`).

Names are those of the source where TLA+ allows it. A mutant (a definition
whose comment says so) is a plausible mistake in the code; no action uses it.
For every property of every passing run a mutant is listed that the property
catches.

**MethodRegistry.** `pc[t]` is where thread `t` is between the lines of an
operation. `find` and the use of its result are separate steps, so are the
iterations of `listMethods`: that nothing comes between them is the work of
`mutex`, not of the model. A handler is a model value. One thread's argument
errors (empty name, empty handler) are thrown before the lock.

**Dispatcher.** A registry operation is one step, which `Refinement` in
`RuntimeProofs` justifies. `seen[w]` is a history variable: every
binding the requested name has had since `dispatch` was called. Registration
and unregistration by anyone, handlers included, are environment steps that
may come between any two steps of a dispatch. The answer is symbolic: which
handler returned or threw what.

**Runtime.** A thread is in the registry (`pc`, as in `MethodRegistry`), in
`dispatch` (`stage`, as in `Dispatcher`), or in both; a handler may make one call of the
registry, of any kind, before it ends. The refinement mapping says when
`dispatch` has asked the registry: when the result of the call is computed,
which is before the lock is released and before `dispatch` looks at it.

**Server.** `main` is the one thread that constructs, starts, stops and
destroys, as in `main.cpp` and in the integration test; `loop` is the accept
thread; `io` the io thread, which returns at once since nothing asynchronous is
ever posted; `conn[c]` is a client's connection, from the backlog to its
detached thread. `acceptor_` is closed by one thread while another uses it: the
model has both outcomes a platform may give to the `accept` that is blocked
then, by the constant `CloseWakesAccept`. On Linux, `close` does not wake it:
the accept keeps the listening socket alive and takes one more connection.
`Faults` says whether `accept` may fail and whether thread creation may.

**Connection.** A line is its number on the wire and a kind: a request, a
notification, a malformed line, or one whose parse error would quote bytes that
are not UTF-8 (which `dump()` rejects). `read_until` moves any number of tokens
to the buffer and stops once there is an end of line. `Serializable` is the
condition under which `to_json` does not throw. The client reads any number of
answers at a time (`Read`, counted by `taken`), or none: the stream holds `Window`
of them, and while a client that is there leaves as many unread the server is
`Stalled` in `write`. A response counts as one unit of the stream.

**ClientSession.** `program` is the place of `client.cpp` between user, socket
and flag, or `other`: then the client is as free as in `Connection`. An answer
is read with whatever else has come, and only its first line survives the
streambuf: `taken` is what has left the stream and `shown` what the user saw. The
`write` of `client.cpp` does not block: with one line outstanding the server is
never far from its next read.

**ServerProgram.** `program` is the place of `main()`, or `other` for a controlling
thread that calls in any order. A call of `start`, `stop` or the destructor is
under way as long as `Server`'s `main` is not back.

**JsonProtocol, RemoteCall.** A Value or a document is a tree: a function from
the paths of its nodes (keys and indices) to the nodes, whose type or kind is what
core::Value or nlohmann::json says it is; the parser tells integers with a sign from
those without. A conversion that calls itself on every child is one that converts
every node, so nothing is recursive. `SignBit` is 2^63 and `IntSignBit` 2^31; strings are known
by name, and `notUtf8` is the one `dump()` rejects; doubles are 1/2 and NaN.
`Reread` is writing and parsing (what becomes unsigned, what becomes null). `Above`
puts an array or an object together and `Child` takes it apart; optional
fields, and the children that `Above` is given, are sets of at most one member. `RemoteCall`
runs the operators in the order of a call, with the handlers of `main.cpp` and one
that throws a server error; requests come from the library or as raw lines,
responses from this server or from another. A line that is not JSON is `Garbage`,
with one bit: whether what the error of the parser quotes of it is UTF-8.
The sum of `add` (`main.cpp:40`) is undefined in C++ when it does not fit an `int64_t`, and the
build asks for no trap and no wrap: `Add` then returns any `int64_t`.

**CowValue.** A heap of blocks; the program's variables are slots of block
`Stack`. Each operation of the class is one function from heap to heap, written
with the primitives of the code: `Make` (make_shared), `Put` (assignment,
which frees what loses its last pointer), `EnsureUnique`, `As` (non-const
`asArray`/`asObject`). `Contents` follows pointers to give what the program
sees, and is the refinement mapping to `ValueSemantics`; the variable `seen` holds
it, so that TLC follows the pointers of a state once. A program may keep the
reference it got (`Obtain`) and write through it (`WriteHeld`) until it copies
or changes a Value. `SelfNesting` says whether the program does `x[k] = x`, which
puts an object inside itself. `x = x.asArray()[i]` is modelled where C++ gives it a meaning
(the guard of `TakeOut`).

**CowThreads.** Threads hold copies of one array and write to them. Testing
`unique()`, the clone item by item, the swap of the pointer, the decrement of the old
count and the write are separate steps. A block that is freed is filled with
`Freed`, so that reading it too late shows. Steps interleave: the model does not
have the reorderings a relaxed `use_count()` formally permits
between another thread's last read and a write that depends on the count; the
decrement is a release, and hardware keeps writes behind the load they depend on.

## Runs

Runs expected to pass:

| Run | Bounds | Shows |
|---|---|---|
| `registry` | 2 threads, 2 names, 2 handlers | `MutualExclusion`, `IteratorsValid`, `ListIsSnapshot`; `Linearizable`: it implements `AtomicRegistry`; `LockIsReleased` on every path |
| `dispatcher` | 2 workers, 2 names, 2 handlers | `AnswerIsValid`, `HandlerWasRegistered`, `NotFoundWasMissing`, `OwnErrorMeansChange` |
| `runtime` | 2 threads, 1 name, 2 handlers, 1 nested call | `DispatchesAtomically`: the dispatcher on the locked registry implements the one on the atomic registry; `DispatchEnds`: a handler that uses the registry does not wait for itself |
| `server` | 3 clients, 2 starts, no faults, blocked accept woken, `main.cpp` or any controller | `NoTerminate`, `FirstRunListens`, `StopReturns`, `QueuedIsResolved`, `SignalEndsProgram` |
| `server_faults` | 3 clients, 2 starts, all faults, blocked accept not woken | `StopLeavesNothing`, `NobodyLeftQueued`, `NoAcceptAfterStop`; `StopWaitsOnlyForClient`: the one thing `stop` can wait for is a client to connect |
| `connection` | 3 lines, 2 answers unread before `write` blocks, `client.cpp` or any client | `RepliesInOrder`, `IdsMatch`, `ExecutedOnceAndWhole`, `ClosedForCause`, `LinesAreAnswered`; for the client program `AnswersAreOwn`, `SignalEndsSession` |
| `protocol` | 3-bit integers, 16-bit codes; Values and documents of every type, two levels deep | `NothingIsLost`, and in it `OnlyBytesGoUnanswered`: the only lines without an answer are those whose parse error quotes bytes that are not UTF-8; `ForwardingIsTransparent`, `IdComesBack`, `AddIsExact` |
| `cow` | 2 Values, both kinds, 1 slot, 4 blocks, no `x[k] = x` | `CopyOnWrite`: it implements `ValueSemantics`; `HeapOK`: counts are right and nothing leaks |
| `cow_threads` | 3 threads, 2 slots, 5 blocks | `WritesArePrivate`: it implements `PrivateValues`; `WriterIsAlone`; `HeapOK` |

Why these bounds are enough to be interesting: races on the registry and the
dispatcher are between two threads on one name, and a second name shows that
they do not interfere; two handlers on one name are an overwriting. Two starts are a restart; three clients give one being
served, one accepted and one in the backlog; three lines can be split over
reads at every place and still be batched, and a window of two blocks the answer to
the third. With three bits every number and sum is tried, and every wrap of
an unsigned number. Four blocks are two levels of a
container and the clones of both. Three threads give a writer, one that clones
and one that lets go of the same block; each holds at most two blocks and the last may be shared, so five never run
out. Two slots make a clone that can be half done. `cow` and `cow_threads` use the symmetry of variables and of
threads and blocks; neither checks liveness. The proofs remove the bounds.

Runs expected to find a violation, each a disagreement between the code and
what its documentation or tests say:

| Run | The code | What is said |
|---|---|---|
| `server_restart` | after stop and start, the server runs and does not listen | "can be started and stopped as needed" (`server.h:16`) |
| `server_shutdown` | connection threads outlive the server they refer to | "clean shutdown" (`main.cpp:23`) |
| `connection_notification` | notifications are answered | "no response should be sent" (`message.h:19`) |

Other disagreements the models make visible, for which there is no run:

* A method unregistered between the two registry calls of `dispatch` gives
  InternalError (`MethodGone`), not the MethodNotFound of
  `dispatcher_tests.cpp:33`, which has no such window.
* Any error of `accept` ends the accept loop for good (`AcceptFails`), with
  `is_running_` set: a run of `QueuedIsResolved` with `Faults = {"accept"}`
  fails. A connection thread that cannot be created terminates the process
  (`SpawnFails`); the runs and the theorem on `NoTerminate` are without that fault.
* Where closing a socket does not wake a blocked `accept` (Linux), `stop` returns
  only when one more client has connected; the test calls `server.stop();`
  (`server_integration_test.cpp:63`) and `server.h:16` says "stopped as needed".
  `StopReturns` fails with `CloseWakesAccept = FALSE`;
  `StopWaitsOnlyForClient` is what holds.
* A request whose answer is not UTF-8 (a handler's result or error may be
  anything), or a line whose parse error quotes half a character, is not
  answered, and its connection is closed with what was
  pipelined behind it (`ClosedForCause`, `OnlyBytesGoUnanswered`); `message.h:18` says "a response with
  the same 'id' must be sent back".
* `from_json_response` accepts a response that has neither `result` nor
  `error`, which `isValid` rejects (`message.h:44`); written again, it has a
  result that is null (`ForwardingIsTransparent`).
* An unsigned number above 2^63 - 1 is read as a negative one, so that such an
  id comes back as another; `message.h:31` says that it "must be the same as the
  'id' of the corresponding request". `IdComesBack` without its premise
  `Fits` fails; with it, nothing is said of such ids, so that code
  that sends them back unchanged satisfies it too.
* `x["k"] = x` puts the object inside itself, for `operator[]` has returned before the
  right-hand side is copied: the object is never freed, and `toString`, which
  returns a "textual representation" (`value.h:353`), does not end. With
  `SelfNesting = TRUE`, `HeapOK` fails after one step.
* `toString` of a DateTime lacks the closing quote, and of a container that was
  moved from it follows a null pointer (`value.cpp:212`). Not modelled.
* A response without an id has no member `id` (`Omitted`); `message.h:63` says
  it is null.
* `operator[]` and `pushBack` replace a Value of another type (`ForceAs`);
  `value.h:330` and `value.h:344` say they throw.
* A reference from `asArray()` or `asObject()` that is used after the Value was
  copied writes to the copy too: uniqueness is checked when the reference is
  obtained. `CopyOnWrite` is about programs that give references up before
  (`Becomes`).

### Fairness

* `MethodRegistry`: weak fairness of the steps of each thread inside an
  operation; the critical sections contain nothing that blocks. None on making
  calls, and no strong fairness on `Lock`: `std::mutex` promises none, so that
  every caller gets the lock is not claimed.
* `Runtime`: weak fairness of each thread inside a dispatch or the registry, so
  handlers end; none on calling anything. For want of a fair mutex,
  `DispatchEnds` is about threads whose rivals leave the registry alone at some time.
* `Server`, `ServerProgram`: weak fairness of the controlling thread inside `start`, `stop` and
  the destructor, of the accept thread and of the io thread: the scheduler runs
  threads that can run; so it is with `main()`. None on another controller calling `start` or
  `stop`, on signals, clients or faults.
* `ClientSession`: weak fairness of the connection thread and of the client
  program, which presumes that handlers return and the network delivers. None on
  the user, on signals or on another client, which need not read: `write` is
  disabled while it is stalled, and `LinesAreAnswered` excuses a server that is stalled
  for ever (`[]Stalled`).

Where a server or a connection may legitimately come to an end, the `.cfg` says
`CHECK_DEADLOCK FALSE`.

## Proofs

All theorems hold for every value of the constants that satisfies the `ASSUME`s:
any number of threads, names, handlers, clients, lines, blocks. What more a theorem
assumes is in its statement and below. TLC checked each inductive invariant
on the run's instance before it was proved.

* `RuntimeProofs`. In its first part, of `MethodRegistry`: `IInv` is `TypeOK`, `MutualExclusion`,
  `IteratorsValid`, `ListIsSnapshot` and what each place in the code implies of
  the call in progress. It is needed because `MutualExclusion` alone does not say that the
  map a thread read is still the map: a step of another thread changes the map
  only from inside the critical section, where by `MutualExclusion` nobody else
  is. `Refinement` then maps each step to a step of `AtomicRegistry` or to a
  stutter: an operation takes effect when its result is computed. Assumes only
  that the set of names is finite and that the special values are distinct.
  Of `Runtime`: `RuntimeIsRegistry`: every step of `Runtime` is one of
  `MethodRegistry` or leaves it alone, so `IInv` of the registry holds while
  handlers call it. `RuntimeInv` adds that a thread in `check` or `lookup` is in no
  other operation than its `hasMethod` or `getHandler`, and that the history
  contains the current binding. `RuntimeRefinement`
  (`DispatchesAtomically`) goes step by step: what the callers see of a thread
  (`ViewsOK`) changes when the registry computes the result of a lookup, and
  stays when `dispatch` calls or learns the result; the writes of
  other threads are `Bind` steps, everything else in the registry is a stutter.
  `AnswersOverLockedRegistry` then takes the theorems of `DispatcherProofs`
  through the refinement: they hold of the answers over the real lock.
* `DispatcherProofs`. `IInv` adds to `TypeOK` that `seen[w]` contains the current
  binding while a dispatch is under way, that a dispatch past `hasMethod` has
  seen a handler, and that the local handler is one that was seen. Every
  answer is then justified by `seen`.
* `ServerProofs`. `IInv` relates each place of the controlling thread to the
  two `std::thread`s and to whether their functions have ended: a thread is
  joinable exactly when it was launched and not joined, whichever step of
  `start` failed. `NeverTerminates` assumes that threads can be created
  (`"thread" \notin Faults`). `FirstRun` assumes that nothing fails
  (`Faults = {}`) and rests on `ListenInv`: until the first `stop`, the acceptor listens
  and its loop has not ended. `BacklogIsEmptied` holds with all faults:
  clients are queued only at an acceptor that listens, and a server that is not
  running any more has closed it.
  In the same module, of `ServerProgram`: `ProgramIsServer`: a server under `main.cpp`, or under
  any other controlling thread, is a behaviour of `Server`, so that its theorems
  hold (`ProgramKeepsPromises`). `ProgramListens`: with `main.cpp` in control
  and no faults, a running server always listens, since `main()` calls `start` once
  (`OnceInv`). Without that assumption it is false, which is what the run
  `server_restart` shows.
* `ConnectionProofs`. The invariant is about the stream. `RepliesInOrder` is not
  inductive, because nothing in it says which line comes next: `StreamInv`
  says that buffer and wire together are the text and the ends of the lines
  after `line`, and no more; `ExecutedInv` that what was executed are earlier
  lines in order; `ResponseInv` that the response at hand belongs to `line` and
  how many were written before; `ClosedInv` why the connection was closed.
  Four invariants follow, for any number of lines cut in any way.
  In the same module, of `ClientSession`: `SessionIsConnection`: the steps of the client program
  are steps a client of `Connection` may take, so the four invariants hold
  (`SessionKeepsPromises`). `UserSeesOwnAnswers` (`AnswersAreOwn`) needs besides
  that the program has at most one line outstanding (`PaceInv`): a
  second answer in the streambuf would be lost.
* `CowThreadsProofs`. `CountIsExact` (a count is the number of pointers) is kept
  by every step because a step moves one pointer at a time (`PointerMoves`).
  `WriterIsAlone` is not inductive: between `unique()` and the write nothing
  but the count stands between a writer and another thread that would copy the
  pointer. `AloneInv` says that no other pointer leads to a block found unique or
  just made, and `CloneInv` that a clone has the items of the block it
  is taken from, which is what makes the swap invisible. `SharingIsPrivate`
  (`WritesArePrivate`) follows: a write is one step of its thread, the
  clone none. It assumes, with `CowThreadsAssumption`, that `None` is no block
  and no array: it stands for the null pointer.

* `CowValueProofs`. `HeapIsSound` (`HeapOK`) assumes `~SelfNesting`: with `x[k] = x`
  it is false, as TLC shows with `SelfNesting = TRUE`. `HeapOK` is not inductive and not about one
  step: an operation puts a new block on the heap, a pointer in its place, and
  then frees what only the old pointer led to. Each primitive (`Put`, `Make`,
  `Release`) keeps a heap `Good`: `Sound` (no pointer dangles), `Acyclic` (the
  blocks can be ranked so that pointers rise) and `Tidy` (every block has a
  pointer). `Acyclic` is where copy-on-write matters: `x[k] = y` may only put
  another `y`'s block into a container that nothing but `x` points to, which is what
  `ensureUnique` establishes from a use count of one (`CountedOnly`,
  `PutUnshared`); `Tidy` rests on the cascade of frees ending within as many
  rounds as there are blocks (`SweepingEnds`). `HeapInv` adds that the variable
  a reference was obtained from still points to its block; TLC checked it with
  ranks up to `MaxBlocks`. That every block is reached from the variables, and
  on a way no longer than `MaxBlocks`, follows from the ranks. The recursive
  functions (`Release`, `NothingLeaks`) are handled by induction on a set of
  numbers (`Induction`), which the well-foundedness of `<` gives: the library's
  induction theorems take an operator and cannot be instantiated.
* `CopyOnWriteProofs`. `ValuesAreValues` (`CopyOnWrite`), under the same
  assumption: every step of `CowValue` is the step of `ValueSemantics` with the same name. What is seen of a block is
  the solution of an equation over the heap, `View`; in a sound heap without
  cycles it is the only one (`Agree`, by induction on how many blocks rank as
  high as a block), and `Contents` computes its part for the variables as long
  as there are no more than `MaxBlocks` blocks (`ContentsIsView`). A change at a
  place alters the view of the blocks above it and of no others (`AltersView`). So
  everything depends on the blocks above: `Owned` says that there are none but
  the variable an operation is about, `Shows` what is then seen of the whole
  heap, and each primitive is shown to keep the one and to establish the other
  (`PutShows`, `MakeCopyShows`: a clone is seen as its original,
  `EnsureUniqueShows`, `AsShows`, `ForceAsShows`, and `PutDeepShows` for
  `x[s][t] = n`, two levels down). `ViewInv` is the invariant: `seen` is the view of
  the variables, and while the program holds a reference, nothing but the
  variable it was obtained from has a pointer to its block, which is why writing
  through it is not seen elsewhere (`WriteHeldImplements`).

* `RemoteCallProofs`. None of the four invariants says what the line and the
  answer hold while the call is on its way, so none is inductive: `CallInv`
  says that `line` and `answer` hold what was written of the request and of the
  response, that `received` and `reply` are what is read of them, and that the
  response is the one `Respond` gives to the request, or the one to a line that
  is no request. What is left is about the conversions, and pointwise: a node
  that was written and parsed is the node, but for what JSON has no words for
  (`NodeAcross`); a node that was read is written as it was if its number fits
  (`NodeBack`). `AboveFacts` and `ChildFacts` (a tree put together from children
  has those children) lift this to messages: `RequestAcross`, `ResponseAcross`
  for what the library wrote, `RequestRead`, `ResponseRead` for what anybody
  wrote. `SumsAreExact` (`AddIsExact`) follows: a number that fits is not changed
  by any of the three conversions, and `Add` returns a sum that fits. `ObjectDumps` says what a message
  that can be written is made of; what was parsed consists of it (`RequestUtf8`), and
  the handlers keep it (`RespondUtf8`). The theorems assume
  (`JsonAssumption`, `RemoteCallAssumption`) that requests, lines, answers and
  codes are well formed: requests are made of Values, lines of what the
  parser makes of a text or garbage, codes are ints. Nothing bounds the trees, the
  integers or the numbers on a line.

Out of the prover's reach, and left to TLC: the liveness properties
(`LockIsReleased`, `DispatchEnds`, `StopReturns`, `QueuedIsResolved`,
`SignalEndsProgram`, `StopWaitsOnlyForClient`, `LinesAreAnswered`,
`SignalEndsSession`), for want of a rule for fairness.

## Not modelled

* Several threads calling `start` and `stop` of one server, and the data race on
  the acceptor beyond its outcomes: nothing documents these calls as safe from
  several threads, and the programs make them from one.
* Allocation failure: every operation of `Value` may throw `std::bad_alloc`
  half-way; nothing in the code handles it.
* `toString`, `escapeString` and the text of messages: formatting without state.
* `x = x.asArray()[i]` where nothing else holds the array and the item is not an
  array: `operator=` frees the array while it copies out of it, and C++ gives
  it no meaning. A reference kept while the Value is copied: it writes to the
  copy too. The guards of `CowValue` exclude both, and `CopyOnWrite` is about
  the other programs.
* A moved-from String or Binary is left empty; `Move` keeps a scalar as it was, as it is for the
  scalar type the model has.
* A constructor of `Server` that throws (a port in use): there is no server then,
  and `main()` ends. Nor a `start` that throws out of `main()` because a
  thread cannot be created: `ServerProgram` goes on polling there. No run has
  `main.cpp` in control with that fault, and what is proved for it is about any controlling thread.
* The in-place accessors of Binary and DateTime, which share nothing: one scalar
  type stands for all in `CowValue`.
* Handlers that change the registry from the destructor of an object captured by
  a handler that is erased while the mutex is held.
* The text of JSON: `nlohmann::json` is external, and modelled by what it changes.
* `connect` failing in `client.cpp` (an exit), the registration of the handlers
  in `main.cpp` (before any other thread exists), sleeping between two polls.
* Build files, tests and documentation as such.

## State

The models are complete up to the list above. Every invariant and every action
property that a run checks is proved, and so is every refinement; the liveness
properties are model-checked.

## Running

    tlc -config MCServer.cfg MCServer.tla
    tlapm RuntimeProofs.tla
