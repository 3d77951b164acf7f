SPECIFICATION Spec
CONSTANTS
  LengthSize = 2
  Sizes = {3, 5}
  CloseSize = 3
  MaxFrames = 2
  MaxBytes = 14
  Chunk = 9
  WireBytes = 9
  Total = 3
INVARIANT CloseIsDecoded
CHECK_DEADLOCK FALSE
