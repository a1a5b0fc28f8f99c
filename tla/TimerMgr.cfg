CONSTANTS
  Evts = {e1, e2}
  None = None
  W = 64
  CAP = 28
  LIMIT = 8
  interval = 2
  Starts = {5}
  Periods = {1, 3}
  Repeats = {0, 3}
  Stamps = {4, 30}
  LastTick = 3
SPECIFICATION FairSpec
INVARIANTS OnTime MgrWhileArmed
PROPERTIES RunEnds
