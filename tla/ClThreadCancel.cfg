SPECIFICATION Spec
CONSTANTS
  Fds = {3}
  MaxThreads = 3
  Kinds = {"READ", "WRITE", "TIMER", "EVENT"}
INVARIANTS
  CancelReturns
\* a program may stop the master, and the process may end in a crash
CHECK_DEADLOCK FALSE
