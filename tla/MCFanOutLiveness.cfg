SPECIFICATION FairSpec
CONSTANTS
  NumPorts = 3
  Channel <- MCChannel
  OutSem <- MCOutSem
  InSem <- MCInSem
  Cap <- MCCap
  ElemSize <- MCElemSize
  Sizes = {1}
  MaxSeq = 3
PROPERTIES
  SenderProceeds
  EveryFrameArrives
