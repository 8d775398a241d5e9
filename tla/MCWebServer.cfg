SPECIFICATION FairSpec
CONSTANTS
  Conns = {c1, c2, c3}
  Silent = {c3}
  PoolSize = 2
  NumPcb = 2
  NumNetconn = 2
  AcceptSize = 1
  RecvSize = 1
  SndBuf = 1
  BodyLen = 1
  MaxSegs = 2
  PollsLeft = 1
INVARIANTS
  TypeOK
  AnsweredOnce
  PointersAgree
  PbufsAccounted
  WindowKept
  NeverDeaf
  ServerRuns
PROPERTY Turn
\* Starved, the system does stop.
CHECK_DEADLOCK FALSE
