SPECIFICATION Spec
CONSTANTS
  Wrap = 3
  Lag = 2
  RecvLen = 1
  MaxAdd = 2
  MaxReq = 4
  Users = {u}
  Addrs = {x, y}
  MaxCid = 2
  Conns = {c1, c2}
  MaxConnNum = 1
  WriteLen = 1
  MaxMsg = 2
INVARIANTS
  RequestsInOrder
  OnePerUser
  CloseFlushes
PROPERTIES
  RequestAcked
  CloseReturns
\* a closed server or session does nothing more
CHECK_DEADLOCK FALSE
