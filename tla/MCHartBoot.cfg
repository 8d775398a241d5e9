\* Three harts to wake, after a reset that left any mark behind.
SPECIFICATION FairSpec
CONSTANTS
  LAST_HART = 3
  Leftovers = {"NONE", "IN_WFI", "PASSED_WFI"}
INVARIANTS
  NoHartLeftBehind
  ReleasedInTurn
  RetryNeverNeeded
PROPERTY
  E51Starts
\* The applications are not modelled, and harts 2.. sleep for good.
CHECK_DEADLOCK FALSE
