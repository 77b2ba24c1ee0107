\* Two people, one building, two invitations, five requests.
CONSTANTS
  User = {u1, u2}
  Building = {b1}
  Invitation = {i1, i2}
  Request = {r1, r2, r3, r4, r5}
  None = None
SPECIFICATION Spec
SYMMETRY Symmetry
INVARIANTS SingleManager MembersHaveTitle AcceptedMeansJoined
PROPERTY OfficeKept
CHECK_DEADLOCK FALSE
