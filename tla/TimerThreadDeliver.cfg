CONSTANTS
  Users = {1, 4}
  Evts = {e1, e2}
  MAX_THREAD_TASK = 3
  Waits = {1}
  Repeats = {2}
  Bursts = {1, 2}
  LastHandle = 2
  Unsets = "outside"
SPECIFICATION FairSpec
INVARIANTS Accounted
PROPERTIES Delivered
