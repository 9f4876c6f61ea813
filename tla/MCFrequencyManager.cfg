SPECIFICATION Spec
CONSTANTS
  W = 8
  Second = 6
  DefaultPeriod = 5
  Frequencies <- MCFrequencies
  Offsets <- MCOffsets
  MaxNow = 24
INVARIANTS
  TypeOK
  SleepBounded
PROPERTIES
  Paced
