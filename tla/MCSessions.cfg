\* One user, five requests, three seconds: a login and two racing refreshes or a
\* refresh racing a logout, with a repeat in the same second.
CONSTANTS
  User = {u1}
  Request = {r1, r2, r3, r4, r5}
  None = None
  Lifetime = 2
  MaxTime = 2
SPECIFICATION Spec
SYMMETRY Symmetry
INVARIANTS OneAccountPerEmail RotationWhenAlone LogoutWhenUnique
CHECK_DEADLOCK FALSE
