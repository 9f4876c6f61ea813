SPECIFICATION Spec
CONSTANTS
  NumPorts = 1
  Channel <- MCChannel
  OutSem <- MCOutSem
  InSem <- MCInSem
  Cap <- MCCap
  ElemSize <- MCElemSize
  Sizes = {1}
  MaxSeq = 3
INVARIANT
  NonblockingNeverWaits
