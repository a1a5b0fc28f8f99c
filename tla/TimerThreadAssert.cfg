CONSTANTS
  Users = {1}
  Evts = {e1}
  MAX_THREAD_TASK = 2
  Waits = {1}
  Repeats = {0}
  Bursts = {1}
  LastHandle = 1
  Unsets = "any"
SPECIFICATION Spec
INVARIANTS AssertHolds
\* the process may end in a crash
CHECK_DEADLOCK FALSE
