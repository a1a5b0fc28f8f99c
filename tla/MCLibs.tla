-------------------------------- MODULE MCLibs --------------------------------
(***************************************************************************)
(* The components that share no state and of which only safety is asked:   *)
(* the queues of the timer pool with threads, the hooked system calls of   *)
(* coroutines, the deadlock and leak detectors, the timer heap, the select *)
(* loop, the tasks with their database helpers, the database helpers of    *)
(* the coroutine pool, the memcached helpers, the signals and delegates,   *)
(* the asynchronous calls of gRPC, the red-black tree, the lists, the      *)
(* flexible buffers, the logging thread and its files, the records of      *)
(* linkage_log, condition variables and latches, the timer pool, leaf's    *)
(* gate, cron expressions and sessions, the database classes of the        *)
(* scripts, kqueue as epoll, and the echo server.                          *)
(* One of them runs in a behaviour and has the variables v1, v2 and so on  *)
(* for its own; those that it has no use for stay 0.                       *)
(***************************************************************************)
EXTENDS Integers

CONSTANTS Users, Evts, MAX_THREAD_TASK, WaitTimes, Repeats, Bursts, \* TimerThread
          LastHandle, Unsets,
          Callers, Sockets, MaxBytes,                               \* CoHook
          Threads, Locks, Recursive, MaxDepth, QueueMax,            \* DeadLock
          Workers, Blocks,                                          \* MemLeaks
          MaxNodes, Capacity, Timeouts, HeapClock,                  \* TimeHeap
          Structs, Socks, Intervals, Width, SelectClock,            \* SelectThread
          RowKeys, OtherHandles, Lengths, MaxRecords,               \* AsyncTask
          DbTypes, ConfLines, Openings,                             \* DbTool
          Clients, Sns, Packets, Venders, MaxId, Devs, Subs, Values,\* Memcached
          Notifiers, Observers,                                     \* Signals
          Impls, RpcThreads, Requests, SyncRequests,                \* EasyGrpc
          Keys, Twice,                                              \* RbTree
          ListNodes, Heads, ListNull, POISON,                       \* ListHead
          Buffers, InitSize, Puts, Gets, MaxSize, SlotMax,          \* FlexBuffer
          Size, Lens, MaxLines, MaxKept, rollSize_, checkEveryN_,   \* AsyncLogging
          kRollPerSeconds_, Times,
          HeaderLen, PayloadLens, Commands, MaxSent,                \* LinkageLog
          LastItem, BUF_MAX, Counters, Waiters, NoOwner,            \* Conditions
          PoolThreads, PoolEvts, AddSize, PoolInterval, Periods, PoolRepeats, \* TimerPool
          LastTick,
          Types, MsgLens, Base, DefaultMax, MaxMsgs, MaxSets,       \* Gate
          ChanLen,
          Week, Hours, Minutes, Seconds,                            \* CronExpr
          Goroutines, SessionNum, MaxHeld,                          \* SessionHeap
          MaxStmts, MaxBegins,                                      \* MysqlClient
          Coroutines, CoMain, EnvNames, EnvValues, HostBlocks,      \* CoEnv
          Fds, Users64, MaxEvents,                                  \* CoEpoll
          Tasks, Conns, Peers, Echoes                               \* EchoServer

VARIABLES part,                                    \* what runs
          v1, v2, v3, v4, v5, v6, v7, v8, v9, v10, \* its variables
          v11, v12, v13, v14, v15, v16, v17, v18

-----------------------------------------------------------------------------
\* The calendar and the expressions of CronExpr, SetMsgLen's arguments in Gate.

None == -1 \* as in CronExpr
Star == -2
Interval(start, end, incr) == [start |-> start, end |-> end, incr |-> incr]
MonthDays == <<2, 3>>
Starts == {7, 16, 38}
Zones == {-4, 2, 3}
Every == {Interval(Star, None, None)}
Only(v) == {Interval(v, None, None)}
Fields == [sec   |-> {Only(0), Every, Only(1)},
           min   |-> {Every, Only(1)},
           hour  |-> {Every, Only(0), {Interval(1, None, 2)}, {Interval(1, 0, None)}},
           dom   |-> {Every, Only(2), {Interval(1, None, 2)}, Only(1) \union Only(3),
                      {Interval(Star, None, 0)}},
           month |-> {Every, Only(1), {Interval(Star, None, 2)}, Only(2)},
           dow   |-> {Every, Only(0), {Interval(1, 2, None)}}]
Settings == {[len |-> 1, min |-> 0, max |-> 0]}

\* CoEnv: lists with a name twice, with one name, and without.
NameLists == {<<2, 1, 2>>, <<1>>, <<>>}

\* AsyncTask and DbTool: what the configuration files say to begin with.
TaskFiles == {[account |-> "own", sync |-> "absent", ssl |-> "own"]}
Line(type, field, value) == [key |-> <<type, field>>, value |-> value]
ConfFiles == {<<Line("local", "ip", "own"), Line("db", "name", "too long")>>,
              <<Line("db", "name", "own"), Line("db", "name", "def"),
                Line("global", "ssl", "own")>>}

-----------------------------------------------------------------------------
Q == INSTANCE TimerThread WITH
        Waits <- WaitTimes, evt <- v1, ghandle <- v2, timer <- v3, queue <- v4, user <- v5,
        crash <- v6, asked <- v7, done <- v8
H == INSTANCE CoHook WITH
        open <- v1, hook <- v2, flags <- v3, link <- v4, rx <- v5, tx <- v6, call <- v7,
        stuck <- v8
D == INSTANCE DeadLock WITH
        version <- v1, at <- v2, owner <- v3, depth <- v4, valid <- v5, lock_addr <- v6,
        thread_id <- v7, hold_count <- v8, handed <- v9
M == INSTANCE MemLeaks WITH
        mem_check <- v1, heap <- v2, infos <- v3, at <- v4, gaps <- v5
T == INSTANCE TimeHeap WITH
        MaxClock <- HeapClock, nodes <- v1, cursize <- v2, node <- v3, clock <- v4,
        at <- v5, cur <- v6, ran <- v7
S == INSTANCE SelectThread WITH
        MaxClock <- SelectClock, list <- v1, timer <- v2, fdset <- v3, u <- v4, clock <- v5,
        expiry <- v6, allocated <- v7
A == INSTANCE AsyncTask WITH
        Keys <- RowKeys, Users <- OtherHandles, Files <- TaskFiles, conf <- v1, conn <- v2,
        rows <- v3, late <- v4, call <- v5, batch <- v6, task <- v7, cur <- v8,
        remain <- v9, handled <- v10
J == INSTANCE DbTool WITH
        Keys <- RowKeys, Types <- DbTypes, Files <- ConfFiles, MaxLines <- ConfLines,
        MaxDepth <- Openings, conf <- v1, config <- v2, conn <- v3, rows <- v4, call <- v5
C == INSTANCE Memcached WITH
        topic <- v1, item <- v2, unique <- v3, call <- v4, free <- v5, returned <- v6,
        cached <- v7, ids <- v8, last <- v9, faults <- v10
N == INSTANCE Signals WITH
        kind <- v1, lists <- v2, cur <- v3, obs <- v4, pos <- v5, calling <- v6,
        added <- v7, live <- v8, untied <- v9, dying <- v10, calls <- v11, was <- v12,
        gone <- v13, total <- v14, overlap <- v15
G == INSTANCE EasyGrpc WITH
        server <- v1, started <- v2, at <- v3, status_ <- v4, ctx <- v5, open <- v6,
        cq <- v7, lost <- v8, task <- v9, running <- v10, calls <- v11, callbacks <- v12,
        crash <- v13, raced <- v14
R == INSTANCE RbTree WITH
        tree <- v1, fix <- v2, linked <- v3
L == INSTANCE ListHead WITH
        Nodes <- ListNodes, NULL <- ListNull, type <- v1, next <- v2, prev <- v3,
        pprev <- v4, order <- v5, walk <- v6
B == INSTANCE FlexBuffer WITH
        type <- v1, buf <- v2, arr <- v3, heap <- v4
O == INSTANCE AsyncLogging WITH
        kind <- v1, files <- v2, unflushed <- v3, writtenBytes_ <- v4, count_ <- v5,
        startOfPeriod_ <- v6, lastRoll_ <- v7, crash <- v8, current <- v9, next <- v10,
        buffers_ <- v11, running_ <- v12, pc <- v13, toWrite <- v14, new1 <- v15,
        new2 <- v16, n <- v17, lost <- v18
I == INSTANCE LinkageLog WITH
        sent <- v1, remain <- v2, loop <- v3, seen <- v4
K == INSTANCE Conditions WITH
        Nobody <- NoOwner, kind <- v1, mutex <- v2, waiting <- v3, at <- v4, q <- v5,
        cout <- v6, buf <- v7, head <- v8, tail <- v9, count <- v10, running <- v11,
        ready <- v12, made <- v13, got <- v14
P == INSTANCE TimerPool WITH
        Threads <- PoolThreads, interval <- PoolInterval, Repeats <- PoolRepeats,
        Evts <- PoolEvts, free <- v1, alloc <- v2, unuse <- v3, evt <- v4, current <- v5,
        batch <- v6, call <- v7, set <- v8, stray <- v9, rushed <- v10
W == INSTANCE Gate WITH
        Lens <- MsgLens, encoding <- v1, msgInfo <- v2, recv <- v3, phase <- v4, wire <- v5,
        cut <- v6, agent <- v7, chan <- v8, written <- v9, handled <- v10, served <- v11
E == INSTANCE CronExpr WITH
        expr <- v1, zone <- v2, from <- v3, t <- v4, initFlag <- v5, pc <- v6
U == INSTANCE SessionHeap WITH
        heap <- v1, ref <- v2, index <- v3, held <- v4, counter <- v5, seqs <- v6,
        fault <- v7
Y == INSTANCE MysqlClient WITH
        lang <- v1, default_autocommit <- v2, client <- v3, stmt <- v4, tried <- v5,
        txn <- v6, last <- v7
V == INSTANCE CoEnv WITH
        Main <- CoMain, Names <- EnvNames, Given <- NameLists, Values <- EnvValues,
        Hosts <- HostBlocks, uses <- v1, st <- v2, hooked <- v3, sysenv <- v4, copied <- v5,
        val <- v6, dangling <- v7, aborted <- v8, host <- v9, asks <- v10, wanted <- v11,
        want <- v12, answer <- v13
F == INSTANCE CoEpoll WITH
        map <- v1, kq <- v2, events <- v3, fired <- v4, ret <- v5, told <- v6, closed <- v7,
        half <- v8, stray <- v9
X == INSTANCE EchoServer WITH
        Requests <- Echoes, g_readwrite <- v1, fd <- v2, accepting <- v3, errno <- v4,
        server <- v5, client <- v6, up <- v7, down <- v8, peer <- v9

vars == <<part, v1, v2, v3, v4, v5, v6, v7, v8, v9, v10,
         v11, v12, v13, v14, v15, v16, v17, v18>>

\* The variables behind the nth: a part that has n leaves them 0.
After17 == <<v18>>
After16 == <<v17, After17>>
After15 == <<v16, After16>>
After14 == <<v15, After15>>
After13 == <<v14, After14>>
After12 == <<v13, After13>>
After11 == <<v12, After12>>
After10 == <<v11, After11>>
After9 == <<v10, After10>>
After8 == <<v9, After9>>
After7 == <<v8, After8>>
After6 == <<v7, After7>>
After5 == <<v6, After6>>
After4 == <<v5, After5>>
After3 == <<v4, After4>>

Zero17 == v18 = 0
Zero16 == v17 = 0 /\ Zero17
Zero15 == v16 = 0 /\ Zero16
Zero14 == v15 = 0 /\ Zero15
Zero13 == v14 = 0 /\ Zero14
Zero12 == v13 = 0 /\ Zero13
Zero11 == v12 = 0 /\ Zero12
Zero10 == v11 = 0 /\ Zero11
Zero9 == v10 = 0 /\ Zero10
Zero8 == v9 = 0 /\ Zero9
Zero7 == v8 = 0 /\ Zero8
Zero6 == v7 = 0 /\ Zero7
Zero5 == v6 = 0 /\ Zero6
Zero4 == v5 = 0 /\ Zero5
Zero3 == v4 = 0 /\ Zero4

Init ==
  \/ part = "queues" /\ Q!Init /\ Zero8
  \/ part = "hook" /\ H!Init /\ Zero8
  \/ part = "deadlock" /\ D!Init /\ Zero9
  \/ part = "leaks" /\ M!Init /\ Zero5
  \/ part = "heap" /\ T!Init /\ Zero7
  \/ part = "select" /\ S!Init /\ Zero7
  \/ part = "task" /\ A!Init /\ Zero10
  \/ part = "db" /\ J!Init /\ Zero5
  \/ part = "cache" /\ C!Init /\ Zero10
  \/ part = "signals" /\ N!Init /\ Zero15
  \/ part = "grpc" /\ G!Init /\ Zero14
  \/ part = "tree" /\ R!Init /\ Zero3
  \/ part = "lists" /\ L!Init /\ Zero6
  \/ part = "buffers" /\ B!Init /\ Zero4
  \/ part = "log" /\ O!Init
  \/ part = "linkage" /\ I!Init /\ Zero4
  \/ part = "cond" /\ K!Init /\ Zero14
  \/ part = "pool" /\ P!Init /\ Zero10
  \/ part = "gate" /\ W!Init /\ Zero11
  \/ part = "cron" /\ E!Init /\ Zero6
  \/ part = "sessions" /\ U!Init /\ Zero7
  \/ part = "mysql" /\ Y!Init /\ Zero7
  \/ part = "env" /\ V!Init /\ Zero13
  \/ part = "kqueue" /\ F!Init /\ Zero9
  \/ part = "echo" /\ X!Init /\ Zero9

Next ==
  /\ UNCHANGED part
  /\ \/ part = "queues" /\ UNCHANGED After8 /\ Q!Next
     \/ part = "hook" /\ UNCHANGED After8 /\ H!Next
     \/ part = "deadlock" /\ UNCHANGED After9 /\ D!Next
     \/ part = "leaks" /\ UNCHANGED After5 /\ M!Next
     \/ part = "heap" /\ UNCHANGED After7 /\ T!Next
     \/ part = "select" /\ UNCHANGED After7 /\ S!Next
     \/ part = "task" /\ UNCHANGED After10 /\ A!Next
     \/ part = "db" /\ UNCHANGED After5 /\ J!Next
     \/ part = "cache" /\ UNCHANGED After10 /\ C!Next
     \/ part = "signals" /\ UNCHANGED After15 /\ N!Next
     \/ part = "grpc" /\ UNCHANGED After14 /\ G!Next
     \/ part = "tree" /\ UNCHANGED After3 /\ R!Next
     \/ part = "lists" /\ UNCHANGED After6 /\ L!Next
     \/ part = "buffers" /\ UNCHANGED After4 /\ B!Next
     \/ part = "log" /\ O!Next
     \/ part = "linkage" /\ UNCHANGED After4 /\ I!Next
     \/ part = "cond" /\ UNCHANGED After14 /\ K!Next
     \/ part = "pool" /\ UNCHANGED After10 /\ P!Next
     \/ part = "gate" /\ UNCHANGED After11 /\ W!Next
     \/ part = "cron" /\ UNCHANGED After6 /\ E!Next
     \/ part = "sessions" /\ UNCHANGED After7 /\ U!Next
     \/ part = "mysql" /\ UNCHANGED After7 /\ Y!Next
     \/ part = "env" /\ UNCHANGED After13 /\ V!Next
     \/ part = "kqueue" /\ UNCHANGED After9 /\ F!Next
     \/ part = "echo" /\ UNCHANGED After9 /\ X!Next

Spec == Init /\ [][Next]_vars

-----------------------------------------------------------------------------
\* The promise of each part, asked of the states in which it runs.

\* TimerThread: a thread has one queue and finds only tasks of its own timers there, and
\* the timer thread never works on a destroyed event.
TasksOfOwner == part = "queues" => Q!TypeOK /\ Q!TasksOfOwner /\ Q!NoCrash

\* CoHook, CoEnv, CoEpoll and EchoServer: a hooked call on a blocking descriptor stops no other
\* coroutine and yet comes back with all its bytes, without EAGAIN, and from connect with what
\* has become of the connection, but for one that is refused while connect waits, which it does
\* not tell from an established one; of the environment and gethostbyname each coroutine has
\* its own; kqueue does what epoll would have done; each client of the coroutines of the echo
\* server gets its own echoes.
HookedCalls ==
  /\ part = "hook" => H!BlockingCalls
  /\ part = "env" => V!CoroutinesOwn
  /\ part = "kqueue" => F!KqueueServes
  /\ part = "echo" => X!EchoServes

\* DeadLock and MemLeaks: the detector reports deadlocks, and once the records are up to date
\* only deadlocks; the blocks the leak checker shows are those that are not freed.
DetectorsTrue ==
  /\ part = "deadlock" => D!FindsDeadLocks
  /\ part = "leaks" => M!LeaksAreReal

\* TimeHeap and SelectThread: every timer of the heap runs once, when it is due, and the
\* select loop misses no timer and watches the descriptors it should.
TimersFire ==
  /\ part = "heap" => T!HeapFires
  /\ part = "select" => S!SelectServes

\* AsyncTask, DbTool, Memcached and MysqlClient: all records are handled, and what is reported
\* as stored is, in the database the configuration names; numbers, packets and ids that
\* processes share in the cache are not lost or given twice; the transactions of the scripts
\* are stored as a whole or not at all.
RecordsKept ==
  /\ part = "task" => A!TasksStored
  /\ part = "db" => J!DbToolTrue
  /\ part = "cache" => C!CacheKeeps
  /\ part = "mysql" => Y!TransactionsWhole

\* Signals and EasyGrpc: a notification reaches everybody once while observers come and go;
\* every remote call is handled once and every FuncImpl serves again.
CalledOnce ==
  /\ part = "signals" => N!NotifiedOnce
  /\ part = "grpc" => G!RequestsServed

\* RbTree, ListHead and FlexBuffer: whatever is inserted, moved and removed in whatever order,
\* the tree stays a balanced search tree, the links of a list agree with each other and with
\* what it should list, and a buffer gives back the bytes that were put into it.
StructuresAgree ==
  /\ part = "tree" => R!RbTreeOk
  /\ part = "lists" => L!ListsAgree
  /\ part = "buffers" => B!BuffersKeep

\* AsyncLogging, LinkageLog and Conditions: no line is lost, doubled or out of order but those
\* dropped on purpose; the records of a buffer are counted right; nobody is left waiting for a
\* condition that holds, and the queue and the ring built on conditions keep their order.
LogKept ==
  /\ part = "log" => O!LogKept
  /\ part = "linkage" => I!RecordsCounted
  /\ part = "cond" => K!ConditionsHold

\* TimerPool: events of the pool are not shared, and each is called when and as often as asked.
PoolKeeps == part = "pool" => P!PoolKeeps

\* Gate: a handler gets the messages that were written, complete and in order.
GateDelivers == part = "gate" => W!GateDelivers

\* CronExpr and SessionHeap: Next is a time an expression names, and the first one where the
\* zone is a whole number of hours off; sessions are shared as evenly as the heap promises.
LeafTrue ==
  /\ part = "cron" => E!CronNext
  /\ part = "sessions" => U!SessionsShared
=============================================================================
