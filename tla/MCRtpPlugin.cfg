SPECIFICATION Spec
CONSTANTS
  Word = 4096
  FrameMeta = 112
  PtrMeta = 64
  PoseMeta = 80
  KeyMeta = 56
  MAX_SESSION = 3
  Sessions = {s1, s2, s3, s4}
  NullPtr = NullPtr
  MaxSeq = 1
  Sizes <- MCSizes
  Areas <- MCAreas
INVARIANTS
  HandlesStand
  OnlyUnluckyStayOpen
  AnswersFit
