SPECIFICATION Spec
CONSTANTS
  Word = 4096
  FrameMeta = 112
  PtrMeta = 64
  PoseMeta = 80
  KeyMeta = 56
  MaxRuns = 5
  Delay = 1
  QueueSize = 2
  Classes <- MCClasses
  Sizes <- MCSizes
  Bags <- MCBags
  Folders <- MCFolders
INVARIANTS
  OnlyOwnKind
  OnlyKnownFaults
  LeaksOnlyUnsent
PROPERTY HeaderOfInput
CHECK_DEADLOCK FALSE
