SPECIFICATION Spec
CONSTANTS
  Modes = {"proc", "log", "linkage"}
  BUFMAX = 3
  MAXBUFFER = 2
  Sizes = {1, 2}
  LastMsg = 7
INVARIANTS
  NeverShort
  InOrder
PROPERTIES
  ThreadProgresses
\* a stopped component does nothing more
CHECK_DEADLOCK FALSE
