SPECIFICATION FairSpec
CONSTANTS
  FrameQueue = 2
  ImuQueue = 2
  TotalImgs = 7
INVARIANTS
  TypeOK
  ShiftedByLosses
  StuckOnlyAfterLosses
PROPERTIES
  EveryImageTracked
CHECK_DEADLOCK FALSE
