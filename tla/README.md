# TLA+ models of askYangc/algorithm

The repository is a collection of C, C++ and Go components: timers
(`timer/`), event loops and server frameworks (`framework/`), tools
(`tools/`) and reusable demos (`demo/`, `design_patterns/`). This directory
holds TLA+ modules for the components that carry state and concurrency of
their own, the TLC configurations that check them on small instances, and
proofs that TLAPS checks for every instance.

Run a model with `tlc -config X.cfg M` and a proof module with `tlapm M.tla`.
`PROJECT.json` lists the components, the runs, which source lines every
definition stands for, the hazards the properties are aimed at, and a mutant
for every property: a plausible bug of the code that the property catches.

## Inventory

### Timers

**Timing wheel** (`timer/timewheel/itimer/itimer.c`, the same code in
`itimer_pool/itimer_internal.c`). State: `timer_jiffies`, five vectors of
lists, and in each node its links, `expires`, `state` and `core`. Operations:
`itimer_node_init/destroy/add/del/mod`, `itimer_core_init/destroy/run`. One
thread; callbacks call back in the middle of a tick. Hard: 32-bit differences
around the wrap, cascades at the edges of the vectors, callbacks that delete
or destroy nodes of the batch being walked. Correct if every node fires at
exactly its tick, once, and links and `node->core` agree.

**Timer manager** (same file). State: the manager's clock (`current`,
`millisec`, `jiffies`) and periodic events (`period`, `slap`, `repeat`,
`running`, `mgr`). It drives the core one tick per interval and arms an event
again in `itimer_evt_cb`. Hard: periods finer than or not dividing the
interval, jumps of the clock, the loop of callbacks that may stop, restart or
destroy the event it is about. Correct if an event is called exactly once per
period and exactly `repeat` times.

**Timer pool with threads** (`timer/timewheel/itimer_pool_thread`). A timer
thread runs the core and pushes tasks to a queue per user thread; user threads
set and unset timers by handle and run their tasks. Shared: the pool and its
buckets (one lock), the core (one lock), up to 48 queues (a lock each, held
while callbacks run). Hard: `itimer_evt_cb` works between the locks; several
threads search for a queue at once; reuse of events. Correct if no call is
lost, doubled, or made by another thread, and no destroyed event is used.

**Timer pool** (`itimer_pool`): every thread has a manager of its own, and all
take their events from one pool, to which an event may return in its own
callback. **Min-heap timers** (`timer/min_heap`, `framework/zebra_epoll/min_heap.c`):
an array heap with growth and lazy deletion and 32-bit expiry; callbacks of a
tick add and delete. Correct if the node that is popped is the one whose
callback ran, and nothing due is left when the loop stops.

### Frameworks

**zebra_epoll** (`framework/zebra_epoll/cl_thread.c`). A master with lists of
read, write, timer, event, ready and unused "threads" (callbacks), a heap of
timers, a socket per descriptor with what is listened for, and the kernel's
epoll set. `cl_thread_fetch` returns the next callback; callbacks add, cancel
and stop. Hard: `s->op`/`s->type` mirror the kernel, thread objects are reused
before their callback returns, a timer is deleted lazily, one-shot and
persistent threads differ. Correct if every thread is in the one list of its
type, sockets and threads agree, a waiting thread is registered, and what is
due runs. `cl_thread_fetch_lock` lets other threads add timers.
**zebra** (`framework/zebra`): the older select version, with a list of timers
per interval of which only the head is looked at, and a clock that wraps.

**libco_pool** (`framework/libco_pool`). Coroutines of one thread with a call
stack, shared stacks that are copied on a switch, a wheel of time limits, poll,
conditions and an event loop (`co_routine.cpp`); a pool that allocates
coroutines and a coroutine that recovers ended ones (`co_routine_pool.cpp`);
socket calls that look blocking and switch instead, and an environment and a
`gethostbyname` per coroutine (`co_hook_sys_call.cpp`).
Hard: after a switch everything must be read again; a descriptor, a signal and
a time limit may wake one coroutine in one turn. Correct if a coroutine runs on
its own frames, is linked at most once, and its waits return.

**leaf** (`framework/go/leaf`): a Go server framework. Modules call each other
over channels (`chanrpc`), start goroutines with callbacks (`go`), use timers
and run a `skeleton` loop until they are shut down (`module`). Hard: bounded
channels in both directions, a shutdown that drains while others send, timers
and goroutines that come back after they were stopped. Correct if no server
blocks on an answer, results are true, and blocking calls and `Destroy` return.
**UDP sessions** (`network/udp`): sessions by id and by user and address,
reliable requests from a queue with a resend goroutine, ids that wrap. Hard:
loss, duplication and reordering; a reply racing the resend; clients that move;
the one goroutine of the server, which waits for room in a session's `RecvChan` with
the session's mutex in its hand.
**TCP** (`network/tcp`): a connection with a write goroutine, servers
with a limit, clients that dial again; `Close` and `Destroy` at any moment.
**Gate** (`network/receiver`, `network/processor`, `gate`): receivers that frame
messages, processors that encode and route them, and the agent that reads for a
module. Correct if handlers get the messages as they were written, in order.
**Cron expressions** (`timer/cronexpr.go`): bit sets of fields, and the next time
they match. **Database sessions** (`db/mongodb`): sessions given out from a heap
by their reference counts.

### Tools and demos

**Double buffering** (`demo/C/async_task/*/common/async_proc.c`,
`demo/C/asynclog/asynclog.c`, `demo/C/linkagelog/linkageasynclog.c`,
`demo/C++/AsyncLog`). Any thread appends to the current buffer under a lock; a
thread takes all buffers when one is full or after a time, processes them and
gives two back. Hard: the bookkeeping of spare buffers, the bounded list that
refuses silently, a stop whose notification is outside the lock. Correct if
messages are processed once and in order, no buffer is taken from an empty
list, and a stop returns. The log files below them (`logfile.c`, `LogFile.cpp`)
roll by size and by period and flush now and then, in the middle of an append.

`linkagelog` puts records with a header into such buffers.

**Tasks** (`async_task.c`, `db_tool.c`): records in those buffers carry SQL
statements, which are tried again on a new connection. Correct if each record is
handled once, in order, and what is reported as stored is. **Database helpers**
(`libco_pool/db_tool.c`, `ini_file.c`) read where to connect from a file that all
threads share and that they complete with defaults. Correct if a handle that is
opened again, however deep inside a helper, is connected to the database of its type.
**Conditions** (`demo/C++/mutex`, `demo/C/condition`): a mutex, a condition, a latch,
and a queue and a ring for a producer and a consumer. Correct if nobody waits for
what is already there and the latch lets nobody pass early.
**memcached helpers** (`async_task/original/common/memcached_api.c`): processes
share an array of numbers, an index of packets, ids and a table of venders, with
append, increment and cas, and records under keys made from their kind and ids.
**Scripts** (`demo/python/tools/db/db.py`, `demo/php/tools/db/mysql.php`):
connections that are made again, nested transactions, repeated statements.
**Deadlock detector** (`tools/dead_lock_stub`): wrappers of lock and unlock
record who holds and who asks; a topological sort of the wait-for graph finds
cycles. **Leak checker** (`demo/C/check_mem_leaks`): wrappers of malloc and free
with a table. In both, the record and the real call are separate steps.
**Signals and delegates** (`demo/C++/SignalSlot`, `demo/C++/mydelegate`): lists
of observers that are copied when they are changed under a notification.
**easy_grpc** (`demo/C++/easy_grpc`): calls served from a completion queue by
several threads. **Red-black tree**, **lists** and **buffers** (`demo/C/rbtree`,
`demo/C/list`, `demo/C/flex_buffer`, `demo/C/asynclog/arbuffer.h`): the structures the
programs are built from. Correct if links, colours and indexes agree after any
sequence of operations, also of a loop's body on what the loop walks.
**Language demos**, **design patterns**: see "Not modelled".

## Modules

| module | models | state and actions |
|---|---|---|
| `TimerSpec` | abstract timer | clock, ticks asked for and due, batch of the tick; arm, disarm, advance, fire |
| `TimerWheel` | `itimer_core`, `itimer_node` | `at[n]` is the list a node is on; one action per operation; `Tick`, `Fire`, `Return`, `RunDone` are the loop of `itimer_internal_update` |
| `TimerMgr` | `itimer_mgr`, `itimer_evt` | uses `TimerSpec` as its core; `MgrRun`, `CoreRun`, `CoreRan`, `MgrRan` are the run loop, `EvtCb` and `EvtReturn` the callback loop |
| `TimerThread` | `itimer_pool_thread` | the timer thread's `Pop`, `CbCount`, `CbArm`, `CbStop`, `CbPush`, `CbEnd`; per user `Set`, `Probe`, `Start`, `Unset`, `Enter`, `Lock`, `Call`, `Return`, `Leave` |
| `ClThread` | `zebra_epoll/cl_thread.c` | the interface as `AddRead/AddWrite/AddTimer/AddEvent/Cancel/Stop`, `cl_thread_fetch` as `RunEvent/RunTimer/RunReady/Wait/DoEvent/NoneReady`, `cl_thread_fetch_lock` in one thread as the same (`FetchLock`); `Unlink` and `Without` are what deleting one thread and freeing many do to a list; the kernel's epoll set is a variable |
| `AsyncProc` | double buffering | `AppendProc`, `log_append`, `linkagelog_append`; the thread's `Top`, `Enter`, `Wake`, `Drop`, `Write`, `Recycle`; `StopClear`, `StopNotify`, `StopJoin` |
| `Skeleton` | leaf `chanrpc`, `go`, `timer`, `skeleton`, `module` | channels as bounded sequences, operations as records; a module's `Run`, its callbacks, `Close` of servers, clients and goroutines, `Destroy` |
| `UdpSession` | `udp_session.go`, `queue.go`, `cond.go` | the sending half at one end, the receiving half at the other, the network between them; `TransMsg` leaves one reply more than `RecvLen` in `recvChan` while it waits, which is `Locked`: the mutex of the connection is taken, and `ResendLock`, `RequestDelLock` and `Destory` wait |
| `UdpManager` | `udp_manager.go`, `udp_server.go`, `udp_user.go` | users, the hash of authenticating sessions, the map of sessions; lookups and what follows them are separate actions; per session the packets in `RecvChan` and the places of its goroutines; `Close` of the server as `ServerClose`, `ListenEnds`, `StopSession`, `Stop`, `StopEnds` |
| `TcpNet` | `tcp_conn.go`, `tcp_server.go`, `tcp_client.go` | connections with their write channel and goroutines; servers and clients are two initial states |
| `CoRoutine` | `co_routine.cpp`, `co_routine_pool.cpp` | call stack, shared stack, wheel, active list, condition, epoll set; user code is any sequence of calls |
| `CoHook` | `co_hook_sys_call.cpp` | descriptors with the user's and the kernel's flags, a call as tries and polls, in both variants of `read`, `write`, `sendto`, `recvfrom`, `send` and `recv` (`Read1` ... `Recv1`) |
| `CoEpoll` | `co_epoll.cpp` | the pair of a descriptor in `clsFdMap`, the filters of the kqueue, what a wait leaves in `events`; `Ctl`, `Del`, `Wait`, `Close` |
| `EchoServer` | `example_echosvr.cpp`, `example_echocli.cpp` | the stack of idle tasks, their connections, both ends of a connection, `errno`; from one poll to the next is one action |
| `CoEnv` | `co_hook_sys_call.cpp`, `co_routine_specific.h` | the list of names, the copy of each coroutine, `Setenv`, `Unsetenv`, `Getenv`; `GetHost`, `HostGrow`, `HostAnswer` |
| `DeadLock`, `MemLeaks` | the detectors, the former in C and in two versions of C++ | real calls and records as separate actions; `handed` of `DeadLock` has the locks whose new holder was recorded before the record of the last one was gone |
| `TimeHeap` | `min_heap.c` | the array itself, both ways to tick |
| `SelectThread` | `zebra/cl_thread.c` | lists, lists of timers per interval, descriptor sets, a clock of `Width` |
| `AsyncTask` | `async_task.c`, its `db_tool.c` | records of a batch, the configuration file, a connection, a server that executes late |
| `DbTool` | `libco_pool/db_tool.c`, `ini_file.c` | the lines of the file, per handle what was read, its connection and the helper it is in; a helper opens the handle again and is tried again in it |
| `Conditions` | `Mutex.h`, `Condition.h`, `CountDownLatch.h`, `thread_test.cpp`, `condition.c` and its `main.c`, `asynclog_start` | the mutex, who waits, and where each thread is; from a lock to the unlock or the wait is one action |
| `LinkageLog` | `linkage_log.c` | the records of a buffer and `remain`; one action per turn of the loop |
| `Memcached` | `memcached_api.c` | items with their cas; each command of the protocol is one action |
| `MysqlClient` | `db.py`, `mysql.php` | the client with what the server keeps of its session; `Begin`, `Statement`, `Try`, `End`, `Lose` |
| `TimerPool` | `itimer_pool` | the pool, an event's fields, a manager per thread; `ItimerSet`, `ItimerUnset`, `BeginTick`, `EvtCb`, `CallbackReturns`, `EndTick` |
| `AsyncLogging` | `AsyncLog.cpp`, `LogFile.cpp`, `logfile.c` | lines, buffers and the thread's `Loop`, `Wait`, `Swap`, `Write`, `Reuse`, `Stop`; files as sequences of lines |
| `FlexBuffer` | `flex_buffer.h`, `arbuffer.h` | blocks of bytes with both indexes, arrays of buffers |
| `ListHead` | `stlc_list.h` | `next`, `prev`, `pprev` as functions, one loop that walks |
| `RbTree` | `rbtree.c`, `rbtree.h` | children, parents and colours; a round of a colouring loop is one step |
| `Gate` | `network/receiver`, `network/processor`, `gate.go` | bytes on the wire, the agent's goroutine, `ChanCall`; `Register`, `Set`, `WriteMsg`, `ReadHead`, `ReadBody`, `Unmarshal`, `Route`, `Serve` |
| `CronExpr` | `cronexpr.go` | `Parse`, and `Next` as one action per loop, on the clock of a zone whose offset `Truncate` takes off |
| `SessionHeap` | `mongodb.go` | the heap's array, counts and places |
| `Signals` | `SignalSlot.h`, both `mydelegate.h` | the lists shared pointers point to, one walk per thread |
| `EasyGrpc` | `grpc_server.h`, `grpc_client.h` | FuncImpls with `status_`, rpc threads, the completion queue, tasks of a client; `SyncDoRpc` and `SyncReturns` of a synchronous one |
| `MCTimerWheel` | | the calls of the programs of both wheel runs |
| `MCNet` | | `UdpSession`, `UdpManager` and `TcpNet`, one of which runs in a behaviour |
| `MCLibs` | | the 25 parts of which only safety is asked, one of which runs in a behaviour, on the variables `v1`, `v2` and so on that all of them share: `TimerThread`'s queues, `CoHook`, `CoEnv`, `CoEpoll`, `EchoServer`, `DeadLock`, `MemLeaks`, `TimeHeap`, `SelectThread`, `AsyncTask`, `DbTool`, `Memcached`, `MysqlClient`, `Signals`, `EasyGrpc`, `RbTree`, `ListHead`, `FlexBuffer`, `AsyncLogging`, `LinkageLog`, `Conditions`, `TimerPool`, `Gate`, `CronExpr`, `SessionHeap` |
| `TimerWheel_proofs`, `TimerMgr_proofs`, `TimerThread_proofs`, `AsyncProc_proofs`, `MCNet_proofs`, `CoRoutine_proofs`, `Skeleton_proofs`, `ClThread_proofs` | | theorems and lemmas, see "Proofs" |

Composition: `TimerWheel` implements `TimerSpec` (refinement mapping: a node
is due at the tick its list leads to), and `TimerMgr` is built on `TimerSpec`,
so what is checked of the manager holds over the wheel; `TimerPool` rests on it
too. `TimerThread` and `ClThread` abstract their timers to ticks left and to the set of armed threads;
what `ClThread` assumes of the heap is `HeapFires` of `TimeHeap`. `Skeleton`
composes the four parts of a leaf module with two modules and an agent.
`AsyncTask` and `LinkageLog` start from what `InOrder` says of `AsyncProc`: whole
records in the order of their appends.

Abstractions. A section under a lock that waits for nothing is one action;
what the code does between two sections is an action of its own. Shifts and
masks of the wheel are quotients and remainders by the sizes of the vectors. A
callback is the state in which the program may call any operation. Order
within one list of the wheel is left open. Messages are numbers in the order
of their appends, buffers are their messages and the bytes used. An assertion
that fails or a null pointer that is used sets `crash`, after which nothing
happens. Definitions named `X_Something` with a comment beginning "Mutant" are
faulty versions of `X` and no part of the specification.

## Runs

| run | bounds | shows |
|---|---|---|
| `wheel_exact` | one node, `tv1` of 2 and `tv2..tv5` of 3 lists (162 ticks) | the node fires at exactly its tick (`ImplementsTimer`), upper lists are ahead of their block (`BlockAhead`), a run ends (`RunEnds`) |
| `wheel_batch` | two nodes, vectors of 2 lists (32 ticks) | `CoreWhileLinked` and `ImplementsTimer` with nodes of one tick in each other's callbacks |
| `mgr` | two events, periods 1 and 3 ms with an interval of 2 ms, repeats 0 (for ever) and 3, clock jumps, 3 ticks | an event is called once per period and `repeat` times (`OnTime`), `MgrWhileArmed`, `RunEnds` |
| `thread_delivered` | two threads, two timers of two calls, bursts | `Accounted`, `Delivered` |
| `thread_assert` | one thread, one timer | finding, see below |
| `loop` | two descriptors, three threads of every kind | lists, heap, sockets and threads agree, also after a stop (`Placed`), `NoLostEvent`, `QueuedRuns` |
| `loop_cancel_ready` | one descriptor, three threads | finding, see below |
| `async` | the three programs, 7 messages of 1 or 2 bytes, buffers of 3, lists of 3 | `NeverShort`, `InOrder`, `ThreadProgresses` |
| `modules` | two modules and an agent, channels of length 1, 3 operations | `AnswerHasRoom`, `ResultIsTrue`, `LinearOrder`, `StoppedSilent`, `CallsReturn` |
| `net` | 4 requests with ids modulo 3 and packets up to 2 requests late; one user at two addresses with 2 session ids; two TCP connections where one is allowed | `RequestsInOrder` and `RequestAcked`, `OnePerUser`, `CloseFlushes` and `CloseReturns` |
| `coroutines` | two coroutines on one shared stack and the recovering one, a descriptor, a wheel of 2 slots | `StackIsMine`, `LinkedOnce`, `PollReturns` |
| `libs` | see `Libs.cfg` and below | eleven invariants, each about the parts it names |

The invariants of `libs`:

| invariant | parts | says |
|---|---|---|
| `TasksOfOwner` | `TimerThread` | a queue belongs to one thread, and its tasks are that thread's |
| `HookedCalls` | `CoHook`, `CoEnv`, `CoEpoll`, `EchoServer` | a hooked call on a blocking descriptor blocks no other coroutine and comes back with all bytes, without `EAGAIN`; `connect` comes back with what became of the connection, but for `RefusedLate`; values of listed variables and answers of `gethostbyname` are the coroutine's own; a wait on the kqueue reports what was asked for, with the data of its descriptor; idle tasks have no connection, no two tasks share one, and a client reads the echo of what it wrote |
| `DetectorsTrue` | `DeadLock`, `MemLeaks` | deadlocks are reported with their locks, and only deadlocks once the records are up to date; what is shown as leaked is allocated, and the reverse |
| `TimersFire` | `TimeHeap`, `SelectThread` | each timer runs once, when it is due; the right descriptors are watched |
| `RecordsKept` | `AsyncTask`, `DbTool`, `Memcached`, `MysqlClient` | records are handled once, what is reported as stored is, in the database the configuration names, shared numbers are not lost or given twice, a record that is read is one that was stored under that key, transactions are whole |
| `CalledOnce` | `Signals`, `EasyGrpc` | a notification reaches everybody once; a call is handled once |
| `StructuresAgree` | `RbTree`, `ListHead`, `FlexBuffer` | balanced search tree, agreeing links, bytes given back in order, no block lost |
| `LogKept` | `AsyncLogging`, `LinkageLog`, `Conditions` | each line in one file, once, in order, but those dropped on purpose; records of equal length are counted right; nobody is left waiting, queue and ring keep their order, the latch lets nobody pass early |
| `PoolKeeps` | `TimerPool` | events are not shared and are called as often as their periods passed |
| `GateDelivers` | `Gate` | handlers and module get the messages written, complete and in order |
| `LeafTrue` | `CronExpr`, `SessionHeap` | `Next` is a match after its argument, and the first one where the zone is a whole number of hours off; elsewhere it misses matches in one hour only (`Early`); the session given is one with the fewest users |

Why the bounds are enough. The wheel needs three lists in `tv5` for a distance
that reaches it (half of the counter's range is overdue), and the distances
asked for are the first and the last of every vector, from every tick: the
clock runs through its whole range and wraps. Two nodes are enough for every
relation between the node whose callback runs and another one of its batch.
Two events of the manager give every order of callbacks in a tick; the periods
are finer than a tick and not a multiple of it, and the time stamps jump
beyond the limit in both directions. In `libs`, two threads whose searches both
begin at the last of two queues wrap to queue 0; threads that outnumber the
queues are covered by the theorem `OwnTasks`. Two descriptors and three threads
give both directions of one descriptor beside another one, reuse of a thread
object, and a report that makes several threads ready. Seven messages overfill
the list of buffers, so that both rules that lose messages apply.
Channels of length 1 are full after one send, which is where senders, answers
and shutdowns meet; two modules and an agent give a caller that is also called,
one that is shut down before the other, and one outside the shutdown. Four
requests with ids modulo 3 let an id come back while its packets are still on
the way. Two addresses and two sessions give a client that moves while an
older session is authenticating or ending, and a walk of `Stop` with one session
closed and one not. A `RecvChan` of length 1 is full after one packet, so that
`TransMsg` waits while the agent is in every one of its places. A wheel of two slots is passed in
one step of the clock. In `libs`, three threads and two locks, one of them
recursive, make cycles and waiters outside of them; two blocks and three threads
let an address change hands twice; four timers in an array of two grow it and
have a node with two children; the clock of the select loop has 8 values and
runs to 10, so that it wraps; two clients of memcached race in every command.
Seven keys make a red-black tree with every case of both colouring loops, and
one of them has a second structure for `rb_replace_node`. Four lines of up to a
whole buffer, files of three bytes and three times of the day roll a file for
both reasons and drop buffers. Two threads that share two events let one take
the event in whose callback the other still is; periods of 1 and 3 with an
interval of 2 give several calls in a tick and none. Bytes with three values make
length fields overflow. Zones that are 4, 2 and 3 seconds off with hours of 4 and minutes
of 2 are a whole hour, half an hour, and half an hour and a second. Months of 2 and 3
days with a week of 3 let both kinds of days meet at every end. Two devices with two sub-devices and two values tell
apart every key of the records. `Venders` has an id above 255, where the 8 bits of
`mc_get_vender_id` matter. Two types of database, the global one with a name of its
own, and `Openings` of two (a helper opens the handle, and the statement of the
opening opens it again) give every nesting that differs. `LastItem` and `BUF_MAX` of
4 items let the queue and the ring be empty, waited for and ahead; two `Counters`
and two `Waiters` of the latch differ in which goes first. Records of three lengths
around `HeaderLen` give a rest that is smaller than, equal to and larger than a
header. One of the two calls of gRPC is synchronous (`SyncRequests`).
Two descriptors and `MaxEvents` of 3 let one descriptor fire twice around the
other, and fill the result. Three connections are one more than the tasks of the echo
server, so that one waits in the backlog while two clients come and go.
`LastTick`, `LastHandle`, `LastMsg`, `MaxThreads`, `MaxOps`, `MaxFires`,
`MaxReq`, `MaxCid`, `MaxMsg`, `MaxDepth`, `MaxBytes`, `MaxRecords`, `MaxId`,
`MaxSize`, `MaxLines`, `ConfLines`, `Openings`, `MaxSent`, `MaxMsgs`, `MaxSets`, `MaxHeld`, `MaxStmts`, `MaxBegins` and
the `Clock` constants bound counters that the programs do not bound.

Fairness. `TimerWheel` and `TimerMgr`: the thread in a run keeps running and
its callbacks return. `TimerThread`: all threads keep running, callbacks
return, user threads call `itimer_update_timer` again and again (the examples
do so in a loop with a sleep), and the timer thread gets the lock of a queue
that is free again and again. `ClThread`: callbacks return and the loop goes on
where it does not wait for the kernel; nothing is assumed of what the kernel
reports. `AsyncProc`: the thread keeps running and its wait ends, which the
timeout of `condition_waitForSeconds` gives; appends are not fair.
`Skeleton`: goroutines run, functions and callbacks return, and a channel that
can be read is read; a select with several ready cases takes none of them
for granted beyond that. `UdpSession`: the goroutines run, the resend goroutine gets
a mutex that is free again and again (`sync.Mutex` lets no waiter starve), a session
whose agent is over is closed (`tDie` expires), and a packet that is sent again and
again arrives (strong fairness of the arrivals, the usual assumption on a network that
only loses). `UdpManager`: as long as some goroutine of a session, the server's or the one
in `Close` has a step to do (`Due`), such steps are done: weaker than fairness of each
goroutine. An agent ends once its closed `RecvChan` is empty. `TcpNet`: goroutines
run, and an agent ends when its connection is closed. The formulas stand in `MCNet`, each
for its part. `CoRoutine`: the loop goes
on, time passes, and a coroutine that runs again and again gives up the thread
again and again.

`CHECK_DEADLOCK FALSE` is set where a program may stop for good: a stopped
master or a crashed process, a stopped buffering thread, closed servers and
sessions, threads in a deadlock that the detector is to find.

## Proofs

TLAPS checks every theorem below for all values of the constants that satisfy
the named assumption, and nothing else is assumed. Each follows the same
argument: an invariant `IInv` that holds initially, is kept by every action (one
lemma or one step per action), and implies the property; `PTL` combines the
three. Every `IInv` was checked by TLC on the instance of its run before it was
proved.

| module | theorem | states |
|---|---|---|
| `TimerWheel_proofs` | `TypeCorrect`, `CoreAgrees` | `TypeOK`, `CoreWhileLinked` |
| | `BlocksAhead` | `BlockAhead` |
| | `WheelImplementsTimer` | `ImplementsTimer`: the refinement of `TimerSpec` |
| `TimerMgr_proofs` | `ManagerWhileArmed` | `MgrWhileArmed` |
| | `EventsRepeatExactly` | an event is called exactly `repeat` times |
| | `EventsOnTime` | `OnTime`, for clocks that do not wrap (`NoWrap`) |
| `TimerThread_proofs` | `AllAccounted` | `Accounted` |
| | `TypeCorrect`, `OwnTasks`, `Uncrashed` | `TypeOK`, `TasksOfOwner` and `NoCrash` of `TimerThread`, which the run `libs` asks for together |
| `AsyncProc_proofs` | `EnoughBuffers`, `ListsBounded`, `TypeCorrect` | `NeverShort`, the limit of the list, `TypeOK` |
| | `MessagesInOrder` | `InOrder` |
| `ClThread_proofs` | `EveryThreadPlaced` | `Placed` |
| | `NoEventLost` | `NoLostEvent` |
| `MCNet_proofs` | `UserHasOneSession` | `OnePerUser` |
| | `CloseLosesNothing` | `CloseFlushes` |
| | `RequestsArriveInOrder` | `RequestsInOrder` |
| `CoRoutine_proofs` | `FramesAreMine`, `WaitersLinkedOnce` | `StackIsMine`, `LinkedOnce` |
| `Skeleton_proofs` | `LinearInOrder` | `LinearOrder` |
| | `ServerNeverBlocks` | `AnswerHasRoom` |
| | `EveryResultTrue` | `ResultIsTrue` |
| | `StoppedForGood` | `StoppedSilent`, an action property |

Four of the modules begin with the arithmetic they need: quotients and
remainders by numbers that are not known (`DivMod`, `Remainder`, `NextIs`),
distances on a counter that wraps (`WrapSub`, `WrapAdd`, `NearSame`).

`TimerWheel_proofs`, for vectors of any sizes above 1, any set of nodes and any
calls (`SizeAssumption`).

- `CoreWhileLinked` is not inductive: `itimer_core_destroy` clears the vectors
  only, so it would leave a node of the local list linked to a dead core.
  `IInv` adds that the local list is empty outside a run and that a core that is
  not live does not run. A tick is handled by a lemma about cascades: they move
  nodes between lists and link or unlink none (`CascadeAllLinks`).
- `BlockAhead` says where the ticks of a list are, relative to the clock; it is
  inductive with `IInv`. That `ListOf` keeps it is arithmetic: a vector's lists
  divide its span, and its span divides the counter's. A step of the clock
  leaves a list ahead of its block unless the clock enters that block, which is
  when `cascade` empties it, the upper vectors first.
- `WheelImplementsTimer` maps a node's list to the tick at which it is due
  (`DueOf`). With `BlockAhead`, a node that is added is due at the tick it asked
  for, a cascade changes no `DueOf` and keeps the nodes that are due now in the
  batch, and every other step is a stutter of `TimerSpec`.

`TimerMgr_proofs`, for any events, periods, counts and clock jumps
(`MgrAssumption`). `Started` ties being armed to having been started, and a
bounded event that is armed to a call that is left; `Counted` adds what was called,
what the loop of `itimer_evt_cb` still has to call (it may be stopped in the
middle) and what is armed.

- `EventsOnTime`: after every tick an event has been called once for every
  period that has passed since it was started. `Planned` says where `slap` is: at the
  start plus `period` for each call made, each call of a loop under way and one more,
  with the node due at a tick that is not past and less than a tick after `slap`;
  `slap` is at most a period beyond the last time stamp at which the event was looked
  for. `Clock` says that the core and the manager keep step and that a run ends by
  `LastTick`. The theorem has the assumption `NoWrap`: the time stamps of a
  run of `LastTick` ticks, and the `slap`s in them, are below `W`. The instance of
  `mgr` satisfies it, and it is needed: with a start at 58 and a counter of 64,
  TLC finds `OnTime` violated, as `while (current >= evt->slap)` (`itimer.c:329`)
  compares numbers of which one has wrapped. For the width of the code this says
  that a manager that is given milliseconds from 0 is exact for 49 days.

`TimerThread_proofs`, for any user threads, events, number of queues, periods,
counts and bursts (`ThreadAssumption`).

- `Queues` is the invariant of everything but the assertions, whatever is unset and
  when. That a thread has one queue is not inductive, because `GetTask` does not
  remember queue 0 and searches again on every call. `Path` says what such a search
  has passed: a thread that has queue 0 took it after a wrap, so every queue from
  the place where it starts to the last one is another thread's, and stays so,
  as no queue is ever given back; a search that is under way has met only queues of
  others. `Locks` and `Tasks` say that the holder of a lock is in its own queue and
  that a callback has a task to remove; `Uses` ties events to handles, to the
  threads that are about to start them and to the tasks they push.
- `Uncrashed` needs `Unsets # "any"`, which is what the finding `thread_assert` is about.
  `Safe` then says that the event of an `itimer_evt_cb` stays initialised and that
  an event that has ended is the one of the callback under way and on no list.
- `AllAccounted`, under the same condition: `Balance` is `Accounted` without its
  choice of an event. An expiry moves from what is owed to the queue (`CbPush`), from
  there to the calls made (`Call`) and out of the queue (`Return`), which the lemmas
  about `Count` follow; every other step keeps all three (`StillBalance`).

`AsyncProc_proofs`, for any buffer size, list limit of at least 2 and message
sizes (`AsyncAssumption`). The strengthening `Spares` says, for each place of the
thread, which spare buffers it has and how many are in `buffersToWrite`:
`nextBuffer_` is missing only while a full buffer waits in the list, so a batch
that gives away two buffers has taken at least two.

- `MessagesInOrder`: the messages stand in one line, those processed first, then those
  in the rest of `buffersToWrite`, in `buffers_` and in `currentBuffer_`. The
  line is increasing and has every message but those counted as lost
  (`Line`, `Joined`). `Joined` of a list of buffers is their concatenation, so
  an append, a swap and a write move a boundary between two of the four parts and
  leave the line as it is; dropping and overwriting buffers removes whole pieces of it
  (`Places` and the lemmas about concatenations).

`ClThread_proofs`, for any descriptors and any number of threads
(`ClAssumption`).

- `Placed`: the lists and the types agree (`Linked`), what the heap may return are the timers,
  and a socket points to exactly the threads that wait for it or became ready
  (`SocketsAgree`). Every operation takes a thread out of its list and puts it at
  an end of another one, so `Linked` is about lists and types that
  need not be those of one state, and the two halves of a move are lemmas
  (`DelLinked`, `PutLinked`). `cl_thread_stop` frees what is in four of the lists and
  both threads of each socket, and `SocketsAgree` says that this leaves none in the others.
- `NoLostEvent` needs what `cl_thread_socket_set` relies on, `KernelAgrees`: the two threads of a
  descriptor differ, `s->op` is `CL_EPOLL_ADD` exactly while nothing is
  registered, and epoll listens for each direction that a thread waits for or
  that is persistent. So no `epoll_ctl` fails, and rearming one direction
  keeps the other.

`MCNet_proofs` (`NetAssumption`), on the module in which one of the three parts
runs, so that its runs and its proofs are about the same definitions.

- `UserHasOneSession`, for any users, addresses and number of sessions: a new
  session of a user closes the one before, but lookup and creation are two
  actions. `LastAuthIsOpen` says that before `Stop` the open session of a user
  is the last one authenticated, and that `Stop` finds the goroutine of the
  server between two packets.
- `CloseLosesNothing`, for channels of any capacity: what is in the channel and
  what was written are, together, the messages accepted, and the `nil` of
  `Close` is behind them, once (`Pending`, `Flushed`).
- `RequestsArriveInOrder`, for every number of requests and every width of the
  number in a packet. A reply that is later than a turn of the numbers would be
  taken for another one, so `NetAssumption` has `Lag < Wrap`: a packet that is that
  late is dropped by the network. `WayInv` says of every packet on the way what
  is known at both ends; `NearSame` turns equal numbers into
  equal requests.

`CoRoutine_proofs`, for any coroutines, any of which share the stack, any
descriptors and any size of the wheel (`CoAssumption`). `Place` ties the state of
a coroutine to the list it is in. That a coroutine which polls is never linked
twice needs the order inside `co_eventloop`: `co_epoll_wait` is called with an
active list that holds only signalled coroutines. `Framed` says that the frames
of a coroutine are on the stack or in its buffer, also of one that has been
swapped out by another that has ended since. The lists of the wheel that one step of the
clock passes are joined by a recursive function over their number; the lemmas
about it use a least counterexample.

`Skeleton_proofs`, for any modules, agents, channel lengths and numbers of
operations (`SkeletonAssumption`). The invariant follows an operation from its
start to its answer.

- `RpcInv`: a call is being sent, queued, executed or answered, one after the
  other, and `Open` of one that a server has says that no answer to it exists.
  `Counts`: `pendingAsynCall` is the number of calls without a callback. So when a
  server has an answer for a client, that client waits for at most `AsynLen - 1`
  others, and `KeysAre` (distinct calls, one answer each) bounds what is in its channel.
- `GoInv`: for two functions of a `LinearContext`, the second is behind the first
  in the list, at `mutexExecution` and in `ChanCb` (`Behind`). This is inductive only
  together with `Somewhere`: a function without its callback is in one of the
  three, so an operation that is started is behind all of them.
- `TimerInv`: a timer that can still run its callback has not. It is needed for
  "an operation ends once", as timers have no caller that waits. With `Silent` (a
  timer that was stopped has no callback) it gives `StoppedSilent`, since every other
  function that a step may start is not one of a timer.
- At the end of `Run` both counters are 0, so by `Counts` nothing is left
  without its callback.

Only model-checked: every liveness property and what rests on ENABLED (outside
what the prover handles), and of the safety properties the invariants of `MCLibs`, whose
parts use recursive operators (what it asks of `TimerThread` is proved in
`TimerThread_proofs`). All other invariants of the passing runs are theorems.

## Findings

- `thread_assert`: `itimer_evt_cb` of the threaded pool reads and arms an
  event outside the pool's lock. An `itimer_unset` in between destroys it, and
  `assert(node->state == ITIMER_NODE_STATE_OK)` fails
  (`itimer_internal.c:138`).
- `loop_cancel_ready`: `cl_thread_cancel` of a ready thread falls through to a
  store through a null pointer; the `break` after `cl_thread_cancel_ready` is
  missing (`cl_thread.c:347`).

Met while modelling, present in the models, and without a run of their own:

- `current >= evt->slap` in `itimer_evt_cb` compares wrapping counters as
  unsigned numbers: when `slap` wraps first, the loop runs ahead of the clock.
  The runs of `TimerMgr` stay away from the wrap of `current`.
- `GetTask` does not remember queue number 0 (`key != 0`), so a thread that has
  it waits for its own lock when a callback sets a timer. `thread_delivered`
  uses thread ids that never get queue 0.
- `cl_thread_stop` frees a ready thread with the ready list and again with its
  socket (`crash = "free"`).
- After a read thread became ready, adding or cancelling the write thread of
  its descriptor registers reading again, because `s->type` still has it.
- With a full list, `async_proc_append` and the batch overwrite a buffer that
  `alignflexbuffer_add_tail` refused: those messages are lost beside the ones
  the code reports as dropped. `InOrder` counts them as lost.
- `TimerPool`: an event that is to be called several times in a tick and is
  unset in its own callback may be another thread's by the time the callback
  returns; `itimer_evt_cb` then calls it, or clears `running` of its new owner.
- `TimeHeap` keeps its clock below 2^32 ms. When `expire` wraps (`min_heap.c`,
  32 bits), a timer that a callback adds becomes the first of the heap, and
  `pop_timer` frees it instead of the one that ran.
- `SelectThread`: intervals of 2^31 ms or more run at once.
- `CoRoutine`: a signal and a time limit of `co_cond_timedwait` in the same turn
  are reported as a timeout, and the signal is lost. `CoHook`: `connect` reports
  success for a connection that is refused while it waits, whose `POLLOUT` is set beside
  `POLLERR`; a blocking call would return `ECONNREFUSED`. `HookedCalls` names this
  exception (`RefusedLate`; without it TLC finds it violated);
  an accepted descriptor stays blocking until the program sets its flags.
- `CoEpoll`: a descriptor that is ready in both directions with another one between
  leaves a hole in `events`, which the program reads as a stale event. A
  second filter that is refused leaves the `udata` of the first one dangling, a
  descriptor that was closed without `EPOLL_CTL_DEL` cannot be added again, and
  `co_epoll_wait` gives its milliseconds as `tv_sec`.
- `UdpSession`, `UdpManager`: what the comment at `udp_conn.go:58` fears. `TransMsg` waits
  for room in `RecvChan` with the connection's mutex in its hand. If the agent has
  taken one reply and the channel is full again, `RequestDel` waits for that mutex
  (`udp_session.go:55`) and `TransMsg` for the agent: the session, every other session
  of the server, whose one goroutine this is, and `Close` stop for good. The same happens
  when the agent is over and packets still come. `RequestAcked` and `CloseReturns`
  have exactly these states as exceptions (`Blocked`, `Stuck`); without them TLC finds
  both violated.
- `UdpManager`: the goroutine of `SendList` ends with the first error of `WriteToUDP`
  (`udp_server.go:75`), `Close` of the socket included. Once `SendList` is full, whoever
  writes waits for good, and with it `Stop`. `Stop` walks `s.sessions` without
  `mutexConns` while agents delete from it (`udp_manager.go:337`), which the runtime may
  end with "concurrent map iteration and map write" (`server = "crash"`).
- `CronExpr`: `t.Truncate(time.Hour)` rounds the absolute time (`cronexpr.go:233`). In a
  zone that is not a whole number of hours off, `Next` goes on from the wrong minute:
  of `0 0 12 * * *` from 10:15 in +05:30 it comes to 12:30, and today's noon is missed.
  `CronNext` says what holds there: the result matches and is later, and what is
  missed is in the first minutes of one hour.
- `EchoServer`: a `read` that returns 0 leaves `errno` alone, and
  `if (errno == EAGAIN) continue;` (`example_echosvr.cpp:98`) then keeps an ended
  connection, and its task, for ever.
- `CoEnv`: the copies of the environment share their names, and
  `free_co_sysenv_arr` frees them with the first coroutine that is released.
  `co_gethostbyname` assigns `ret` the value of a condition, which is 0 whenever
  its loop has ended.
- `DeadLock`: between a real unlock and its record the detector may report a
  cycle that is none; more than 100 waiting threads overflow the queue. Version 1
  in C++ keeps the old thread for a lock that was handed over before the
  record of its unlock, and uses helpers only version 2 defines.
- `MemLeaks`: a `realloc` that moves a block allocated while the check was off
  may remove the entry of the thread that got the old address.
- `AsyncTask`: a statement whose answer was lost is sent again; the server may
  execute the first one after a newer statement. A plain call on a typed handle
  reopens the account database.
- `LinkageLog`: the loop of `do_linkageasynclog` never moves `hdr`, so of several
  records in a buffer the first one is handled each time. `RecordsCounted` says
  what is right nevertheless.
- `Conditions`: `mutex_test` of `thread_test.cpp` waits for its condition without
  holding the mutex, and once. A notification before the wait is lost, and `main`
  then waits for ever unless the wait ends for no reason. In `demo/C/condition/main.c`
  the consumer never ends, and `main` joins it.
- `Memcached`: a failed `cas` counts as a success, two processes that create an
  item overwrite each other, and a failed increment resets the packet index.
  `mc_get_vender_id` returns 8 bits of a 16-bit id, and `mc_set_history_context`
  stores `sizeof(u_int32_t)` bytes of a `dev_log_t`.
  Beside the model, `mc_get_cache_st` and `mc_get_rfdev_info` pass the address of
  a 16-bit length as one of a `size_t`.
- `MysqlClient`: a statement of a php transaction that is repeated on a new
  connection is stored at once, whatever becomes of the transaction; with
  autocommit a repeated statement of python may be stored twice; an inner rollback
  does nothing until the outermost one. `insert`, `select` and `update` of `db.py`
  ignore the result of `commit`, and the error branch of `__setautocommit` names
  an undefined variable.
- `AsyncLogging`: lines appended while the last round is written stay in the
  buffer at a stop. `logfile.c` never resets `writtenBytes_`: once a file was
  large, every append tries to roll. With `threadSafe`, the flush inside an append
  waits for the mutex the append holds (`crash = "locked"`).
- `Gate`: `Route` of the binary processor ends the process with `log.Fatal` when a
  peer sends a command that is not registered; json and protobuf close the
  connection. Beside the model, `tcph_receiver.go` asserts `tcp.TCPConn` of a
  pointer to one and panics on the first read.
- `Signals`: two calls of `notifyAll()` or `notifyAll(t1, t2)` at once call the
  observers of `addonce` twice, although the header says they are notified only
  once (`mydelegate_once/mydelegate.h:16`); `notifyAll(t1)` resets the list.
- `EasyGrpc`: `status_` is set after the event was asked for. A thread that
  handles the event first takes a request for an answer that has left, or
  answers twice. `running` is read before it is initialized, an event that is
  not ok takes its FuncImpl out of service, and `stop` keeps the destructor
  from joining the threads.

## Plan

1. The timers, the event loop and double buffering: done.
2. leaf (module framework, UDP sessions, TCP, gate), the coroutines with their
   hooked calls, and the libraries of `MCLibs`: done.
3. Proofs of the wheel, its manager, the threaded pool, the buffers, the event loop, the
   network layer, the coroutines and the module framework: done. A later proof of a part of
   `MCLibs` would first write its recursive operators as functions.

## Not modelled

The map covers 30 % of the lines of C and C++ and the Go and script components
beside them. A definition stands for one copy of its code, and about 9,300 of the
38,700 lines are exact copies of other files (the lists seven times, the buffers
three times, the deadlock stub, the red-black tree, the gRPC stubs, parts of
`async_task`). A further part differs from a modelled file only in names or
comments (`timer/min_heap`, the older `db_tool.c` and `async_proc.c`). What remains is:

- generated code: the protobuf and gRPC stubs of easy_grpc;
- copies of other projects without logic of this one: the register switch of libco;
- headers that declare structures and prototypes, logging macros;
- input and output: the parsing of ini files, escaping and building result structures in
  `db_tool.c`, `memcached_init`, leaf's console, configuration and cluster, Python
  tools other than the database class;
- example programs, tests, language and design pattern demos.

Of the modelled components, these details are left out. `cl_thread_fetch_lock` is modelled
for one thread (both loops): with timers added by other threads meanwhile the lists are shared
without a lock, and what happens depends on the memory model. In `TimerThread`, a node's
links and its `core` are cleared in one step; an `itimer_node_destroy` between the two
writes (`itimer_internal.c:274-278`, it locks `node->core` and then finds it null)
would keep the core locked. `itimer_evt_start` computes `slap` just before it locks the
core; the model counts the ticks that are left, in one step with the lock. In `AsyncProc` no
line is longer than a buffer; `asynclog.c` would copy it beyond the end
(`arbuffer.h:42`). In `UdpManager` a write to the closed `SendList` after `Close`, which
panics, is left out, `SendList` is full or not whatever its length, and session ids do not
start again after `Stop`. In `CronExpr` the offset of a zone stays: no clock is put
forward or back between the argument of `Next` and its result. `PROJECT.json` gives the
reason for each component.
