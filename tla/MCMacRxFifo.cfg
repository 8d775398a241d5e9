\* The ring is never completely full and the FIFO never overruns.
SPECIFICATION FairSpec
CONSTANTS
  RING = 4
  OverflowLimit = 4
  RxErrors = {"RESP"}
  MaxBacklog = 3
PROPERTIES
  ImplementsRxFifo
  FrameHandedUp
  ReceiverRecovers
