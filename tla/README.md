# NBRaft in TLA+

NBRaft is a C++ library that announces Raft on top of its own JSON-RPC. What the
repository contains at this commit is everything *below* Raft: a linked
concurrent queue, thread pools, sessions and their framing over asio, a server
with its acceptor and session table, an RPC client with its table of
outstanding calls, and the JSON-RPC messages. The classes named after Raft are
empty. This directory models that code, checks it with TLC and proves part of it
with TLAPS. Paths below are relative to `src/NBRaft/`.

To check a run: `tlc -config X.cfg M` with the module and configuration named in
section 5. To check the proofs: `tlapm M.tla` for the eight `*_proofs` modules.

## 1. Inventory

How the parts call each other, from top to bottom:

    RpcClientStub / OnceStub            RpcServer -> RpcService -> RpcProcedure
       | calls, submits                    ^ onDataReady     | submits
       v            v                      |                 v
    RpcClient   SimpleThreadPool        Session          StealThreadPool
       | send       (callers' jobs)        ^ |               | one queue per worker
       v                                   | v send          v
    BaseClient -- Session <== TCP ==> Session <- acceptor   ConcurrentQueue
                                           ^
                        BaseServer, ConnectionAcceptor, SessionManager, IOServicePool

| component | state | operations | what makes it hard | what makes it correct |
|---|---|---|---|---|
| ConcurrentQueue (`concurrentqueue.h`) | chain of nodes with owning `next` and raw `prev`, head and tail mutex, condition variable, `m_bstop`, `m_count` | push, wait_and_pop, wait_and_pop_timeout, try_pop, try_steal, Exit | two mutexes over one chain; notification without the mutex; both ends meet on a queue of one | the chain stays one chain; each element goes to one taker, oldest first except for thieves; nobody sleeps next to an element |
| StealThreadPool | a queue per worker, the submit index, `m_done`, per worker a failure count and a backoff | submit, worker loop, stealing, destruction | racy index; owner and thief on one queue; blocking tasks; sleeping workers | a task runs at most once, and runs while one worker is free; destruction ends |
| SimpleThreadPool | one task queue, mutex, condition variable, `m_stop`, `m_threadNum` | submit, worker loop, stop | notify after unlock, stop without the mutex | in order, at most once, no lost notification between submits |
| ParrallenThreadPool | a waiting queue per worker | submit, worker loop, destruction | lost wake-ups of the queue | (unused in the repository) |
| Session, Packet | send queue of at most 64, receive state, socket | send, handleWrite, head and body reads, close | senders race the io thread; buffer ownership; errors after accepted sends; width of the length field | one write at a time, in order, nothing skipped or doubled; an end that closes closes the other |
| CEventHandler, SessionManager | handler lists; table of sessions with a limit | addSession, removeSession, events | table without a lock, filled and emptied by different threads | the limit holds; slots belong to live sessions |
| BaseServer, ConnectionAcceptor, IOServicePool | `m_running`, listening thread, io_contexts and threads | start, stop, signal, handleAccept, round robin, Stop | two joins of one thread; session reads before it is registered | stop ends; slots come back; the program can exit |
| BaseClient | `m_running`, io thread, session | connect, disconnect, send | disconnect against callbacks; reconnecting on a stopped io_context | nothing moves after disconnect |
| RpcClient, stubs | table id -> record and callback | sync, async and once calls, onDataReady, clear, remove | late answers against reused ids; record read without the mutex; callback under the mutex | an answer reaches its own call; done means the callback is over; calls return |
| RpcServer, RpcService, RpcProcedure | two tables of procedures | registReturn, registNotify, onDataReady, dispatch to the pool, done | io threads and workers interleave; exceptions swallowed by the pool; error texts the client drops | an answer goes to its caller, once; the content of a message alone decides its fate; no message is left |
| JrpcProto, struct.h | messages | create, parse, validate, convert | optional fields, defaults, error codes | what one side creates the other accepts |
| RepeatingTimer | `m_running`, io_context, timer, thread | start, stop, move, destruction, handle_timer | threads and callback start and stop one timer; an io_context that stays stopped | no use ends the program; a started timer ticks until it is stopped |
| BehaviorTree | tree of nodes, each with status, current child and counter | builder, edits, tick, reset, abort | what a tick leaves behind in the nodes for the next one | results agree with the children's; a tick returns; a node is entered by onInitialize |
| Logger, AsyncLogger, FileLogAppender | levels, appender lists, queue and log thread, file with its error flag and time stamp | log, addAppender, delAppender, setLevel, reopen, destruction | two threads share one appender; notification against destruction; files that fail | lines arrive; a line is dropped only for a recent failure; the destructor returns |
| LogFormatter | items made from a pattern | init | look-ahead at the end of the pattern, errors half way | the items say what the pattern says |
| Config, EnvMgr, small utilities | maps | lookups, casts | none beyond one lock per call | - |
| Raft classes | none | none | there is no code | - |

`PROJECT.json` lists the components with their status, and under "hazards" the
places in the code where these difficulties bite, with the property that covers
each.

## 2. Modules

| module | models | implements |
|---|---|---|
| `Deque` | the promise of ConcurrentQueue: numbered elements, oldest or newest first, one holder each | |
| `ConcurrentQueue` | `concurrentqueue.h` | `Deque` |
| `Executor` | the promise of a thread pool | |
| `StealThreadPool` | `stealThreadPool.*`, on queues as `Deque` promises them | `Executor`, any order |
| `SimpleThreadPool` | `simplethreadpool.*` | `Executor`, in order |
| `Channel` | the promise of one direction of a connection | |
| `Session` | `session.cpp`, `packet.cpp`: two ends of a connection | `Channel` |
| `Server` | `baseserver`, `conacceptor`, `sessionmanager`, `ioservicepool` | |
| `RpcClient` | `rpcclient`, `rpcclientstub`, `baseclient` | |
| `JrpcProto` | `jrpcproto.*`, the validation in `rpcprocedure.h`: operators | |
| `RaftMessages` | `struct.h`: operators, on `JrpcProto` | |
| `RpcServer` | `rpcserver`, `rpcservice`, `rpcprocedure`, `rpcserverstub`, on `RaftMessages` | |
| `BehaviorTree` | `BehaviorTree.*` | |
| `AsyncLogger` | loggers and FileLogAppender of `log.*`, on `ConcurrentQueue` itself | |
| `LogFormatter` | `LogFormatter::init` of `log.cpp` | |
| `RepeatingTimer` | `raftrepeattimer.h` | |
| `MC*` | finite instances | |
| `ConcurrentQueue_proofs`, `StealThreadPool_proofs`, `SimpleThreadPool_proofs`, `RpcClient_proofs`, `RpcServer_proofs` | the inductive invariant of that module and the theorems of section 7 | |
| `Connections_proofs` | the same for `Session` and `Server` | |
| `Logging_proofs` | the same for `AsyncLogger` and `LogFormatter` | |
| `Standalone_proofs` | the same for `BehaviorTree` and `RepeatingTimer` | |

`Server`, `LogFormatter` and `RepeatingTimer` share a module of proofs with another one,
so what they would both call Init, Next, Spec or TypeOK carries their own name
(`ServerInit`, `FormatterSpec`, `TimerTypeOK`, ...).

How the modules meet: each lower module is replaced, in the module above, by its
abstract specification. `StealThreadPool` treats push, try_pop and try_steal as
single steps because `ConcurrentQueue` implements `Deque`. `RpcClient` uses of
the network only that requests and answers may be lost or arrive in any order
(less than `Channel` promises, because the server's pool reorders answers) and
of the pool that jobs are taken and workers may be busy (`Executor`). `Server`
keeps of a session its socket, its outstanding operations and how it closes.
`RpcServer` takes messages of a session in order (`Channel`) and starts its tasks
in any order (`Executor`). `AsyncLogger` is the one composition with a detailed
module: its queue is an instance of `ConcurrentQueue`, whose actions are the
conjuncts of its own, because what the logger's destructor needs, that its push
wakes the log thread, is not part of `Deque`.

**ConcurrentQueue.** A step is what runs under one mutex without anybody else
being able to look: the body of push under the tail mutex (`PushLink`), then its
notify (`PushNotify`). A waiting pop is `WaitLock`, `WaitCheck` (the predicate),
`WaitBlock`, and after a wake-up `WaitReacquire`; then `WaitPop` or
`WaitStopped`. Being between the predicate and the wait is a state of its own
("block"), so lost wake-ups exist in the model. When a notification meets a
thread there, it is lost: the history variable `missed` counts the notifications of
pushes that were, and `stranded` names the threads that Exit's own did not reach.
`WakeupsCoverItems` and `Delivered` allow one element to wait for each notification
missed and no more, `StopReleases` only the stranded to sleep on. Spurious wake-ups are
an action without fairness.

**StealThreadPool.** submit is three steps, `LoadIndex`, `StoreIndex`, `Push`,
because the index is an atomic that is loaded and stored, not incremented. The
worker is in "own" (try_pop), "scan" (try_steal of queue 0, 1, ... but its own),
"found", "run", "failed" or "pause".

**SimpleThreadPool.** `Test` is the wait's predicate under the mutex, `Sleep` the
atomic unlock and wait. stop is `SetStop`, then `NotifyStop`, both without the
mutex; workers between predicate and wait at that moment go into the history
variable `missed`. The joins of a pool with such a worker hang: `JoinsReturn`
excepts exactly these workers.

**Session.** One direction, with both ends. `Send` puts a message into the send
queue and starts a write if it is the only one; a write completes (`WriteOk`,
`WriteFails`) and its handler runs later (`WriteHandled`, `WriteErrorHandled`).
The receiver alternates between a head and a body read. `Size` keeps the width of
the length field, so a length of 65546 arrives as 10.

**Server.** `Main` calls start, which joins the listening thread, and stop
afterwards; `Other` calls stop at any time. handleAccept is `Accept`, `CheckRoom`
or `Refuse`, `Insert`, `Rearm`, each a step, while the io threads run `WriteDone`,
`OpFails`, `BeginClose`, `Erase`, `Shut` for their sessions. A session that was
closed before it was inserted is remembered in `early`: it keeps its slot for
ever, and the properties except exactly these.

**RpcClient.** A call is `Register`, the sleep, `Wake`, `Fetch`, `SeeDone` or
`GiveUp`, `Remove`; the io thread is `IoRead`, `IoStore` or `IoDrop`, `IoDone`.
m_mutex is free unless the io thread is in the callback (`MutexFree`); all other
holders hold it for one step. The number of a call is also the name of its record
and of its answer, which makes an answer in the wrong record visible although on
the wire there is only the id.

**RpcServer, JrpcProto, RaftMessages.** A message is the number it was sent as and one
of a few documents; a document keeps its members with their types and the number
in its term, which comes back in the result. There are also texts that are no JSON, and
JSON that is no object. `OnDataReady` is `Parsed`, which submits a task or refuses with
the text of an error code, or `NotParsed`: on an array or a scalar jsoncpp throws what
only the session catches, which closes. For each task one of
`Throw`, `CallReturn`, `CallNotify` happens in a worker; `Done` and `Fail` are
the procedure's. `fate` records what became of a message. Every error text carries
InternalError: createFromInt expects 0 to 4 and is given the JSON-RPC code
(`CreateFromInt`).

**BehaviorTree.** Recursion is an explicit stack of calls. `TreeTick` and `Descend` call
tick of a node, `Advance` goes on to the next child, `Leave` returns the node's result,
aborting what onTerminate aborts, and `Act` is the answer of an Action. Between ticks
children come and go and nodes are reset; the history variable `touched` names the
nodes whose children changed after they started.

**AsyncLogger.** `at` is where a thread is in the logger, `pc` where it is in the queue.
The appender's log is `TestDue`, `Reopen`, `Stamp`, `TestError`, `Write`: the code
holds the mutex only in reopen and write, and two threads share the appender. A
file may fail to open or to be written to, within the bound MaxTrouble.

**LogFormatter.** One iteration of the loop of init is one step: `Percent`, `Text`,
`PlainLetter`, `Date`, `DateAtEnd`; then `Build` makes the items. %d at the end of the
pattern reads the byte behind the terminator, which is any character. The history
variable `cuts` remembers where in the pattern each piece begins; RoundTrip uses it to
say that the items stand in the pattern one behind the other. The braces are called
"lb" and "rb".

**RepeatingTimer.** A user thread is inside start (`StartExchange`, `Spawn`, `Arm`) or stop
(`StopExchange`, `Halt`, `Join`, then the assignment or destruction that began with it);
the timer's thread is `Fires`, `Handle`, the callback, `Rearm`. `aborted` is
std::terminate.

## 3. Hazards and history variables

Some history variables mark a race the code loses or a use it does not support: `missed`
and `stranded` of ConcurrentQueue, `missed` of SimpleThreadPool, `early`, `clearedIds`
and `misused`. They are never read by a guard, they only weaken properties, and the runs
reach states with and without them. A property that excepts them does not show that the
race is not lost, since it is; it shows how far the damage goes, and that nothing else
does the same: no more elements stay behind than notifications were missed, only the
threads that Exit missed sleep on, only ids that were cleared receive the answer of
another call. The note of the hazard in `PROJECT.json` says so in each case. These are
the places where the code needs care:

* `concurrentqueue.h:97,172` and `simplethreadpool.cpp:45` notify without the
  mutex of the wait. A waiter between predicate and wait misses it. In the
  queue the element stays until the next push; at destruction the join hangs.
* `conacceptor.cpp:41`: the session reads before it is registered.
* `rpcclient.cpp:74`: clearing the table frees ids whose answers are on the way.
* `raftrepeattimer.h:72`: a callback that stops its own timer joins its own thread; a
  start that overlaps a stop assigns to a thread that is still joinable; a timer that is
  moved while it runs (`:31`), or started without a function, calls an empty one.

No document, comment or assertion of the repository promises otherwise, so they
are not listed as findings. More of this kind, seen while modelling:

* `jrpcproto.h:80`: the template for notifications creates a request with the id "",
  which the server takes for a call. `FateFits` treats it as what it is.
* `rpcserver.cpp:47` catches RpcException. A JSON array or scalar makes `isMember`
  (`jrpcproto.cpp:301`) throw another one; the client gets no text, its session closes.
* `struct.h:44`: `entries` of AppendEntries is null until something is assigned, and
  null fails the check for an array, so a heartbeat must assign an empty array.
* `raftrepeattimer.h:31,70`: a timer restarted after a stop, and one a running timer was
  moved to, never tick (`Ticks` excepts them).
* `log.cpp:505`: the log thread ends with the flag and leaves lines in the queue.
  `Logged` allows exactly these (`LeftInQueue`), and what was popped is written.
* `log.cpp:396`: after a failed write the stream is neither closed nor cleared, so the
  file is not opened again (`DropsAreFresh` excepts it).
* `log.cpp:272`: `%d` at the end of a pattern reads behind the string's terminator.

## 4. Finding

`BehaviorTree.h:47` says of onInitialize that it is executed once, when the node is
entered. A Selector that succeeds at an earlier child than in the last tick leaves
the later child Running; when the Selector is started again and comes to that
child, `tick` skips onInitialize. Run tree_enter shows it with a Selector and two
Actions in three ticks.

## 5. Runs

| run | module, configuration | what it asks | states |
|---|---|---|---|
| queue | MCConcurrentQueue, queue.cfg | chain, mutex, wake-up accounting, refinement of Deque; elements are taken, Exit frees waiters | 144,765 |
| steal_pool | MCStealThreadPool, steal_pool.cfg | refinement of Executor, tasks behind a blocking one run, joins return | 202,260 |
| simple_pool | MCSimpleThreadPool, simple_pool.cfg | refinement of Executor in order, no lost notification, joins return | 20,314 |
| session | MCSession, session.cfg | one write at a time, refinement of Channel, arrival, both ends close | 17,510 |
| server | MCServer, server.cfg | limit and slots; slots come back, stop ends, exit ends | 172,466 |
| rpc_client | MCRpcClient, rpc_client.cfg | answers reach their call, callback first, quiet after disconnect; calls and disconnect return | 190,426 |
| rpc_server | MCRpcServer, rpc_server.cfg | answers go to their callers, the content decides the fate, no message is left | 359,720 |
| tree | MCBehaviorTree, tree.cfg | results agree with the children's, ticks return | 1,177,627 |
| tree_enter | MCBehaviorTree, tree_enter.cfg | a node is entered by onInitialize: violated, see section 4 | - |
| logger | MCAsyncLogger, logger.cfg | lines are dropped only for a recent failure, lines arrive, the destructor returns | 559,464 |
| formatter | LogFormatter, formatter.cfg | the items say what the pattern says | 3,285,508 |
| timer | RepeatingTimer, timer.cfg | no use ends the program, a timer ticks until it is stopped | 248,882 |

The queue's, the session's and the client's runs check the type invariant too. The
other modules define one as well; their runs leave it out, and it is proved instead.

Bounds and why they suffice:

* *Queue.* Three elements and four threads: an empty queue, a queue of one in
  which head and tail meet, and one of two or more in which they do not; two
  producers and two waiters, so that one notification may go to the wrong waiter.
  Safety holds for every instance by proof.
* *StealThreadPool.* Two workers, two submitters that can compute the same index,
  three tasks of which the first blocks: the other two can both be queued behind
  it. One failure before backing off and a maximal backoff of 3 (not a power of
  two) reach the sleep, the doubling and the cap.
* *SimpleThreadPool.* Three workers, four tasks, one blocking: two notifications
  for two waiters while a third worker takes tasks without waiting.
* *Session.* A queue of two is full after two messages; the four lengths are the
  smallest, the largest allowed (1024), one more, and one that does not fit 16
  bits. Nothing in the code depends on larger numbers.
* *Server.* One slot, two io threads and two connections: a connection over the
  limit, and a slot that is freed and used again. The module keeps no more of a
  connection than its session, so a third one repeats what the second does.
* *RpcClient.* A direct caller, a pool worker, a controlling thread, two ids and
  two calls: an id is used again after its call timed out or was cleared, with the
  answer on the way, and two calls are outstanding together. Safety holds for
  every number of calls by proof.
* *RpcServer.* Two clients, either method registered for returns, for notifications,
  both or not at all; of three messages the first is one of thirteen (what the
  factories create, documents that lack or mistype something, texts that are no document), the other two
  are calls, one of which may use the same id in another session.
* *BehaviorTree.* Every tree of four nodes with two inner ones: composites and
  decorators inside each other, with two or three children; one edit between any two
  ticks; limits 0, 2 and -1 of Repeat; Parallel with the policies equal and different,
  and with no child. Ticks are unbounded.
* *Logger.* Two writers on one file, two lines, clock values 10, 12 and 13: less than
  and exactly three seconds apart. One change of a level or list, or one failure of
  the file, at any moment.
* *LogFormatter.* Seven characters hold a date with a format, text and a letter, or two
  of them; OneDate says the property is about patterns with one date.
* *RepeatingTimer.* Two timers, so that one can be moved to the other, and two threads
  against the timers' own. Steps are unbounded.

Deadlock checking is off in every run: every one of these systems may stop, be
it because the bound on elements, calls or connections is used up or because it
was shut down. What must not stop is stated by the liveness properties.

Every property of a run has a mutant in `PROJECT.json`: the name of an operator
and of its altered form, defined right before it in the module (a forgotten
pointer, a notify too few, a wrong guard). With the altered form TLC finds the
property violated.

## 6. Fairness

* Threads run: weak fairness of the steps of each thread inside an operation and
  of the loops of io threads, workers and the listening thread.
* A thread that wants a `std::mutex` again and again gets it: strong fairness of
  taking the mutex (`Acquire`, `Lock`, `Locked`). The C++ standard does not promise
  it, all implementations the project builds on give it as long as holders let go.
* Timed waits and sleeps end; timers expire. User callbacks, procedures, Actions of a
  tree and tasks return, except the tasks in `Blocking`.
* The log thread and the threads inside a logger need weak fairness only: the
  queue's mutexes have one consumer there and finitely many pushes.
* Nothing is assumed of callers, clients, the server's answers, the wire,
  signals, calls to stop, files, the clock of a log line, or spurious wake-ups.

## 7. Proofs

Every theorem holds for all values of the constants that the named assumptions of the
module allow: any number of threads, workers, elements, messages, timers, sessions, and
any limit. Each component has an inductive invariant (`IInv`, or with the component's name:
`TimerInv`, `FormatterInv`, ...), a lemma that the initial states satisfy it and one that
the steps keep it, with one case per action, and its theorems follow from these. TLC
checked every inductive invariant on the instance of the run first.

| module | theorems, all of the form Spec => ... |
|---|---|
| `ConcurrentQueue_proofs` | `[]TypeOK`, `[]ChainInv`, `[]TakeInv`, `[]WakeupsCoverItems`, `ImplementsDeque` |
| `StealThreadPool_proofs` | `[]TypeOK`, `ImplementsExecutor` |
| `SimpleThreadPool_proofs` | `[]TypeOK`, `ImplementsExecutor` (in order) |
| `Connections_proofs`, Session | `[]TypeOK`, `[]WriteChain`, `ImplementsChannel` |
| `Connections_proofs`, Server | `[]ServerTypeOK`, `[]Capacity`, `[]SlotInv` |
| `RpcClient_proofs` | `[]TypeOK`, `[]ResponseMatchesCall`, `[]DoneAfterCallback`, `QuietAfterDisconnect` |
| `RpcServer_proofs` | `[]TypeOK`, `[]FateFits`, `[]AnswersMatch` |
| `Standalone_proofs`, BehaviorTree | `[]TypeOK`, `[]StatusAgrees`, `[](TreeInv /\ StackInv)` |
| `Standalone_proofs`, RepeatingTimer | `[]TimerTypeOK`, `[]Survives` |
| `Logging_proofs`, AsyncLogger | `[]TypeOK`, `[]DropsAreFresh`; of its queue: `QP!Spec`, `ImplementsDeque`, `[]WakeupsCoverItems` |
| `Logging_proofs`, LogFormatter | `[]FormatterTypeOK`, `[]RoundTrip` |

So every safety invariant, action property and refinement that a run checks is also a
theorem; what the runs add is liveness.

The refinements go action by action: each step of the code is a step of the abstract
specification or leaves its variables alone, given `IInv`.

**ConcurrentQueue**, from `QueueAssumption`. The inductive invariant is TypeOK,
ChainInv, TakeInv and HolderInv. ChainInv alone is not inductive: TrySteal follows prev
without the head mutex's predicate, so it needs that a thread with both mutexes excludes
one that is past its predicate (TakeInv), and the refinement needs that an element in
somebody's hands is not in the chain any more (HolderInv). The chain is described
without reachability: next leads from each node to the least greater node owned, prev
back again, which makes every step local. One lemma for each of the three steps that
change the chain (`PushLinkChain`, `UnlinkHeadChain`, `TryStealChain`), one for those
that only move a thread, and one case per action. WakeupsCoverItems counts, and is not
inductive as it stands: it speaks of sleeping threads only, so the step from the
predicate into the wait would find nothing known. `CoverInv` counts the threads in
between among the sleepers: such a thread saw an empty queue, and a push that notifies
while it is there is counted in `missed`. The sets that are counted are finite, because only
finitely many threads are ever inside an operation (`WakeInv`); the set of threads
itself need not be.

**StealThreadPool**, from `PoolAssumption`. A task that was submitted is in one queue,
in the hands of one worker or finished (`PlaceInv`), and no queue holds it twice
(`QueueInv`, with three lemmas on what push, try_pop and try_steal do to a sequence
without duplicates). So the step from a queue into a worker's hands is the abstract
Begin, and no pair of owner and thief can start a task twice. The racy index does not
matter here: any index is some worker's. `BoundInv` says that the submits under way keep
within the bound on tasks.

**SimpleThreadPool**, from `PoolAssumption`. The same with one queue, which is sorted
(`PlaceInv`): that is what makes the tasks start in order. `IdleInv` ties m_threadNum to
the workers that are not running a task, so its range is proved and not assumed.

**Session**, from `SessionAssumption`. WriteChain (in pointwise form, `ChainInv`) needs
that a write has one outcome, or a handler that runs late would start a second write.
The refinement says that accepted, queued, written, travelling and delivered messages
are consecutive pieces of one sequence: the queue is the end of what was accepted
(`QueueInv`), the wire continues what was delivered and is followed by the queue
(`NetInv`), and the header the receiver has read is that of the message in front of it
(`BodyInv`). The last held of no induction at first: it needs that a body is on its way
as long as both ends are open.

**Server**, from `ServerAssumption`. Capacity is not inductive: between the test for
room and the insertion other threads act. `ListenInv` keeps the room (they only erase,
and one thread accepts). SlotInv needs `CloseInv`, which follows the thread that closes
a session through its two steps, and the history variable `early` for the session that
closes before it is inserted; `UnusedInv` says that a session nobody has connected to is
nowhere.

**RpcClient**, from `ClientAssumption`: `[]TypeOK` (in three parts, the wire, the tables
and the calls, which keeps each step of its proof small), `[]ResponseMatchesCall`,
`[]DoneAfterCallback` and the action property `QuietAfterDisconnect`.
ResponseMatchesCall says nothing about messages; its strengthening does. `SafeInv`:
while the request or the answer of a call is in flight and its id was never cleared, the
record under the id is the call's own and has no answer yet. That needs `HoldInv` (a
thread between register and remove has its own record under its id, so it removes no
other, and it only gets to remove when the answer is there), `RecordsInv` (the record
under an id belongs to a call with that id), `FreshInv` (a call that has not registered
has nothing in flight and no record), `OwnerInv` (a call is made by one thread, or waits
in the pool for one) and `WireInv` (a call's request and its answer are not in two
places at once). So an id is refused to other calls as long as an answer for it may
come. QuietAfterDisconnect rests on `QuietInv`: once joined, the io_context is stopped
and the io thread ended, and connecting again only starts a thread that ends at once.

**RpcServer**, from `RpcServerAssumption` and `Numbered`. The second says that the term
in the parameters of a request is the number of the message. It is no condition on
clients: it is how the model labels requests, and the only way to tell answers apart
that carry the same id. The invariant says where a message is until its fate is settled:
unread in the inbox of its own session (`InboxInv`), a task not yet started (`TaskInv`),
or with a procedure that was called once (`BusyInv`). FateFits follows step by step,
because the registered procedures no longer change when messages arrive (`RunningInv`).
For AnswersMatch, `OutInv` names the request of each response by the number in its
result; a request is answered when its fate is still open, so its number is in no
earlier response. A session may close from outside or on a message that throws; both are
one lemma (`SessionCloses`), and for the second the message is settled as well. The last part counts: a session has received as many messages as
requests of its client were answered or refused.

**RepeatingTimer**, without assumptions. The invariant has the form of the property: as
long as nothing was misused, m_running, the thread and its loop agree (`ThreadInv`), a
thread inside a function of a timer finds it as it left it (`InsideInv`), and whoever
starts, assigns to or destroys a timer is alone in that (`AloneInv`). Each disjunct of
`misused` was needed in one case of the proof, and TLC finds a state that violates
Survives when any of them is dropped.

**BehaviorTree**, from `TreeAssumption`: any number of nodes of any kinds, any edits. The
result of a node is made by a loop over its children, which other calls interrupt, so
StatusAgrees needs to know what the loop has found so far. `LoopInv` says it for every
call in progress: all children before the current one succeeded (Sequence), failed (both
Selectors), or have the results that were counted (Parallel). A Sequence resumes where it
was, so for it this also follows a tick that left it Running, unless its children were
edited since (`touched`). To keep it while a child runs, a call may only change nodes
under its own: `StackInv` says that the calls lead from the root down, each to the child
of the one before, and `TreeInv` that children have one parent and a greater number, so no
node is called twice and what a call changes or aborts lies under it. `KeptInv` is what a
node leaves for its next tick. The abort of a subtree is the smallest set closed under
AbortedBy, which replaces the recursion of Parallel::onTerminate and makes the lemma about
it (`AbortFacts`) a matter of sets. The proof found a case that the property had left
out and the run did not have: a Parallel without children that requires one for both
counts to neither result and stays Running (`BehaviorTree.cpp`, Parallel::onUpdate).

**AsyncLogger**, from `LoggerAssumption`. The queue is an instance of `ConcurrentQueue`,
and so are its proofs: that the steps of the logger are steps of the queue
(`StepIsQueueStep`) needs no more than that each thread uses the queue from where the code
calls it, and the queue's invariant, its refinement and its wake-ups then hold of
m_queue. The logger's own proof takes from it that a popped element is one that was
pushed (`PopsPushed`), which is a line or the destructor's nullptr. DropsAreFresh is about
two threads that test and stamp m_lastTime without the mutex: `ErrorInv` says that while
the file is not open, and no write failed, m_lastTime, the time of every line about to be
stamped, and three seconds less than the time of every line about to be tested for the
error are at most the time of the failure. It holds because a failure is noted at the
current time, and no line is from the future (`ClockInv`).

**LogFormatter**, from `FormatterAssumption`: any characters, patterns of any length. The
concatenation of the items is a recursive definition, which the provers cannot reason
about; `cuts` makes the property one about places in the pattern instead, each item
between two neighbouring cuts. `ScanInv` says that the text collected so far stands
behind the last cut, up to the character looked at, or that a % stands there; `PieceInv`
that every piece stands between its cuts. Of a %d it can say so only while it is the one
that owns dateformat, which is what OneDate is for. The braces of a date without a format
are chosen in the last step, from what stands in the pattern.

Only model-checked: all liveness. Fairness and ENABLED are outside what the prover
handles.

## 8. What is not modelled, and why

* The Raft classes: no code. Config, EnvMgr and the utilities: conversions of text
  and wrappers of the standard library.
* ParrallenThreadPool: one waiting queue per worker, which nothing uses.
* The text of messages and log lines, the bytes of packets.
* Notify calls of the client: they only send. Responses with an error object: nothing
  creates one.
* LogManager and AsyncLogManager (find or create under a lock), console appenders.
* Uses outside what the classes support: an appender list changed while a thread walks
  it (the code follows an iterator to an erased element), logging to an AsyncLogger
  that is being destroyed, a procedure registered while the server runs, a child
  removed from a running node, a decorator without a child, a timer moved or destroyed
  while another thread is inside one of its functions.
* Threads that cannot be created (the catch blocks of the pools' constructors), and
  the futures of submit: what a task returns or throws is not part of a pool.
* Lengths 65532 to 65535, for which SendPacket's size + 4 wraps: the constructor
  then writes out of its buffer.
* The races inside `std::unordered_map` of SessionManager: undefined behaviour whose
  outcome has no useful model. The order of the accesses is modelled.
* Destruction of a server object while its sessions live on in the io pool.
* Callbacks that call disconnect or make a call on the same client: the first joins
  itself, the second locks a mutex it holds.

## 9. What could come next

* The invariants that liveness would rest on (that some step of a thread is enabled as
  long as its operation has not ended) can be stated and proved without ENABLED, action
  by action, for the queue and the pools first.
* ParrallenThreadPool, if something comes to use it, on `Deque` as StealThreadPool is.
* The Raft classes, once there is code: `RpcServer` and `RpcClient` are what they would run on.
