SPECIFICATION Spec
CONSTANTS
  Cos = {a, b}
  Gc = g
  Shared = {a, b}
  Fds = {f}
  Size = 2
  Timeouts = {1, 2}
  FreeMax = 1
  MaxClock = 1
INVARIANTS
  StackIsMine
  LinkedOnce
PROPERTIES
  PollReturns
