\* Three users, four concurrent requests: a circle of three fits, and a fourth party.
CONSTANTS
  User = {u1, u2, u3}
  Tx = {t1, t2, t3, t4}
  None = None
SPECIFICATION Spec
SYMMETRY Symmetry
INVARIANTS CountsDriftByRepeats OnlyMutualFollowsDeadlock
CHECK_DEADLOCK FALSE
