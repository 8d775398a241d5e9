\* The build of pse-blinky, which defines MPFS_HAL_LAST_HART=1.
SPECIFICATION Spec
CONSTANTS
  LAST_HART = 1
  Leftovers = {"NONE"}
INVARIANT
  ApplicationAfterSetup
CHECK_DEADLOCK FALSE
