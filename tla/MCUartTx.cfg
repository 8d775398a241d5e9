\* Two harts print, as in pse-blinky, and one GPIO interrupt prints as well.
SPECIFICATION FairSpec
CONSTANTS
  h0 = h0
  h1 = h1
  Harts = {h0, h1}
  IsrHart = h0
  Isr = Isr
  MaxGpio = 1
  TX_FIFO_SIZE = 2
  MaxLen = 5
INVARIANTS
  OneStringAtATime
  LossNeedsGpio
PROPERTY
  LockComesBack
