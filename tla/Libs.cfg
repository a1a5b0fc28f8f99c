SPECIFICATION Spec
CONSTANTS
  Users = {1, 3}
  Evts = {e1}
  MAX_THREAD_TASK = 2
  WaitTimes = {1}
  Repeats = {1}
  Bursts = {1}
  LastHandle = 2
  Unsets = "outside"
  Callers = {a, b}
  Sockets = {f}
  MaxBytes = 2
  Threads = {t1, t2, t3}
  Locks = {l1, l2}
  Recursive = {l2}
  MaxDepth = 2
  QueueMax = 3
  Workers = {t1, t2, t3}
  Blocks = {x, y}
  MaxNodes = 4
  Capacity = 2
  Timeouts = {0, 1}
  HeapClock = 2
  Structs = {1, 2, 3}
  Socks = {1}
  Intervals = {1, 2}
  Width = 8
  SelectClock = 10
  RowKeys = {k}
  OtherHandles = {"plain"}
  Lengths = {0}
  MaxRecords = 2
  DbTypes = {"local", "global"}
  ConfLines = 4
  Openings = 2
  Clients = {c1, c2}
  Sns = {1, 2, 3}
  Packets = {p, q, r}
  Venders = {1, 257}
  MaxId = 4
  Devs = {1, 2}
  Subs = {0, 1}
  Values = {11, 12}
  Notifiers = {n1, n2}
  Observers = {1, 2}
  Impls = {i1}
  RpcThreads = {g1, g2}
  Requests = {r1, r2}
  SyncRequests = {r2}
  Keys = {1, 2, 3, 4, 5, 6, 7}
  Twice = {4}
  ListNodes = {n1, n2, n3}
  Heads = {h1}
  ListNull = ListNull
  POISON = POISON
  Buffers = {b1, b2}
  InitSize = 3
  Puts = {2}
  Gets = {1}
  MaxSize = 3
  SlotMax = 1
  Size = 3
  Lens = {1, 3}
  MaxLines = 4
  MaxKept = 3
  rollSize_ = 3
  checkEveryN_ = 2
  kRollPerSeconds_ = 2
  Times = {1, 2, 3}
  HeaderLen = 2
  PayloadLens = {1, 2, 3}
  Commands = {"ADDDEV", "other"}
  MaxSent = 3
  LastItem = 3
  BUF_MAX = 4
  Counters = {w1, w2}
  Waiters = {s1, s2}
  NoOwner = NoOwner
  PoolThreads = {t1, t2}
  PoolEvts = {e1, e2}
  AddSize = 1
  PoolInterval = 2
  Periods = {1, 3}
  PoolRepeats = {0, 1}
  LastTick = 2
  Types = {"A", "B"}
  MsgLens = {3}
  Base = 3
  DefaultMax = 6
  MaxMsgs = 2
  MaxSets = 2
  ChanLen = 1
  Week = 3
  Hours = 2
  Minutes = 2
  Seconds = 2
  Goroutines = {g1, g2}
  SessionNum = 4
  MaxHeld = 3
  MaxStmts = 3
  MaxBegins = 2
  Coroutines = {c1}
  CoMain = CoMain
  EnvNames = {1, 2}
  EnvValues = {1}
  HostBlocks = {1, 2}
  Fds = {1, 2}
  Users64 = {1, 2}
  MaxEvents = 3
  Tasks = {1, 2}
  Conns = {1, 2, 3}
  Peers = {1, 2}
  Echoes = {1, 2}
INVARIANTS
  TasksOfOwner
  HookedCalls
  DetectorsTrue
  TimersFire
  RecordsKept
  CalledOnce
  StructuresAgree
  LogKept
  PoolKeeps
  GateDelivers
  LeafTrue
\* two threads in a deadlock, and coroutines whose calls are over, do nothing more
CHECK_DEADLOCK FALSE
