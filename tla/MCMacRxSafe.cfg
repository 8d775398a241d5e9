\* Any traffic, overruns and bus errors, restarts included.
SPECIFICATION Spec
CONSTANTS
  RING = 3
  OverflowLimit = 4
  RxErrors = {"OVERRUN", "RESP"}
  MaxBacklog = 3
INVARIANTS
  RingRestocked
  CopyStable
  DmaHasBuffer
  InterruptNotLost
