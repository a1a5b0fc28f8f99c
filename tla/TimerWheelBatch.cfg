\* two nodes of the same tick, in each other's callbacks
CONSTANTS
  Nodes = {n1, n2}
  ITVR_SIZE = 2
  ITVN_SIZE = 2
  Starts <- EdgeStarts
  Deltas <- FewDeltas
  RunAheads = {0}
SPECIFICATION Spec
INVARIANTS CoreWhileLinked
PROPERTIES ImplementsTimer
