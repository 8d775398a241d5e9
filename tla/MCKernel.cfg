\* Blocking calls, the tick and interrupts in any order.  The tasks may make no
\* further call while no interrupt but the timer's comes: nothing has to stop.
SPECIFICATION FairSpec
CONSTANTS
  hi = hi
  lo = lo
  idle = idle
  Tasks <- MCTasks
  Idle = idle
  Prio <- MCPrio
  Calls <- MCCalls
  Waits <- MCWaits
  QLen = 1
  TickRange = 4
  MaxPended = 1
  MaxLock = 1
INVARIANTS
  NoLostWakeup
  NoneStranded
  SleepExact
  TimeOutHonest
PROPERTIES
  ImplementsMailbox
  WokenRuns
