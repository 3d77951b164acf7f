SPECIFICATION FairSpec
CONSTANTS
  LengthSize = 2
  Sizes = {3, 5}
  CloseSize = 3
  MaxFrames = 2
  MaxBytes = 14
  Chunk = 9
  WireBytes = 9
  Total = 3
INVARIANTS FramesArriveWhole BytesCounted
PROPERTIES FailsOnlyWhenFull EventuallyDelivered
CHECK_DEADLOCK FALSE
