\* one node: every vector, tv5 too, needs three lists in each
CONSTANTS
  Nodes = {n1}
  ITVR_SIZE = 2
  ITVN_SIZE = 3
  Starts <- EdgeStarts
  Deltas <- EdgeDeltas
  RunAheads = {0, 2}
SPECIFICATION FairSpec
INVARIANTS BlockAhead
PROPERTIES ImplementsTimer RunEnds
