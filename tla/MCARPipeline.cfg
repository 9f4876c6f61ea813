SPECIFICATION Spec
CONSTANTS
  QueueSize <- MCQueueSize
  DupSemantics = "BLOCKING"
  Missing = {2}
  MaxFrames = 5
  MaxKeys = 2
INVARIANTS
  TypeOK
  PixelsOwned
  NoCircularWait
  PoseNotAhead
  KeyMovesOnce
