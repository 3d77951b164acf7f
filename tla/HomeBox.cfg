SPECIFICATION Spec
CONSTANTS
  Local = 2
  Remote = 1
  Pieces = 2
  MaxOutstanding = 7
  MaxOpens = 2
  MaxSwaps = 1
  MaxConnections = 1
INVARIANTS TypeOK NothingLost CapturedRight
PROPERTY SavedAfterGame
CHECK_DEADLOCK FALSE
