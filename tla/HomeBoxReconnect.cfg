SPECIFICATION FairSpec
CONSTANTS
  Local = 2
  Remote = 1
  Pieces = 2
  MaxOutstanding = 3
  MaxOpens = 1
  MaxSwaps = 2
  MaxConnections = 2
INVARIANTS NothingLost
PROPERTIES OrderKept EventuallySaved
CHECK_DEADLOCK FALSE
