\* Three senders, two-part packets, and every way a transmission can fail.
SPECIFICATION FairSpec
CONSTANTS
  t1 = t1
  t2 = t2
  t3 = t3
  Senders = {t1, t2, t3}
  NoTask = NoTask
  TX_RING = 4
  MaxPbufs = 2
  Faults = {"AMBA", "FATAL"}
INVARIANTS
  DmaReadsItsFrame
  PostFindsRingFree
  IrqRearmed
PROPERTIES
  FrameLands
  ImplementsTxSlot
\* A transmit fault stops the port: no completion interrupt, no semaphore.
CHECK_DEADLOCK FALSE
