SPECIFICATION FairSpec
CONSTANTS
  QueueSize <- MCQueueSize
  DupSemantics = "NONBLOCKING"
  Missing = {1}
  MaxFrames = 4
  MaxKeys = 1
INVARIANTS
  PixelsOwned
  PoseNotAhead
PROPERTIES
  EveryFrameShown
