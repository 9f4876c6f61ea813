SPECIFICATION Spec
CONSTANTS
  NumPorts = 3
  Channel <- MCChannel
  OutSem <- MCOutSem
  InSem <- MCInSem
  Cap <- MCCap
  ElemSize <- MCElemSize
  Sizes = {1, 2}
  MaxSeq = 4
INVARIANTS
  TypeOK
  HeapOwned
  HeldAtHead
  NonblockingNeverWaits
  InOrder
  Gapless
PROPERTIES
  Channels
