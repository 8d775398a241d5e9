\* Tasks, ticks and MAC interrupts in any order.  A hart that has returned
\* astray goes nowhere in the model.
SPECIFICATION FairSpec
CONSTANTS
  a = a
  b = b
  c = c
  Tasks = {a, b, c}
  Main = Main
  MaxDepth = 2
  BootNesting = 1000
INVARIANTS
  NestingIsTotal
  TrapNotReentered
PROPERTIES
  HearsAgain
CHECK_DEADLOCK FALSE
