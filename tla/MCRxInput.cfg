SPECIFICATION FairSpec
CONSTANTS
  Pbufs = {b1, b2, b3}
  Pcbs = {c1, c2}
  Datagrams = {d1, d2}
  MboxSize = 2
  NumInpkt = 3
  NumMsgApi = 2
  MaxReass = 4
  NumReass = 1
  MaxChain = 2
INVARIANTS
  Conserved
  PendingIsQueued
  OnlyTheMailboxRefuses
PROPERTIES
  Reclaimed
