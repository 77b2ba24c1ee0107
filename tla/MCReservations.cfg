\* One user, one area, ranges over three instants, four requests: two overlapping
\* reservations, a cancellation and an approval that would bring the first back.
CONSTANTS
  User = {u1}
  Area = {a1}
  Request = {r1, r2, r3, r4}
  Horizon = 2
  None = None
SPECIFICATION Spec
SYMMETRY Symmetry
INVARIANTS NoOverlap ApprovedByManager
PROPERTY ImplementsBooking
CHECK_DEADLOCK FALSE
