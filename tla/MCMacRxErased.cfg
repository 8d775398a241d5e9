\* Any traffic and no errors: a frame received while the ring is full.
SPECIFICATION Spec
CONSTANTS
  RING = 3
  OverflowLimit = 4
  RxErrors = {}
  MaxBacklog = 3
INVARIANTS
  NoFrameErased
