\* Three requests at a time against a limit of three, for any number of windows.
CONSTANTS
  Hit = {r1, r2, r3}
  Max = 3
SPECIFICATION FairSpec
INVARIANTS DeadlineComing WithinLimit
PROPERTY RefusalEnds
CHECK_DEADLOCK FALSE
