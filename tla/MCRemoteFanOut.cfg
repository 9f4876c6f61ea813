SPECIFICATION Spec
CONSTANTS
  NumPorts = 3
  Channel <- MCChannel
  OutSem <- MCOutSem
  InSem <- MCInSem
  Cap <- MCCap
  ElemSize <- MCElemSize
  Sizes = {1, 2}
  MaxSeq = 3
INVARIANTS
  HeapOwned
  NonblockingNeverWaits
PROPERTIES
  Channels
