\* Two users, one connection each, to no building or to two; one direct message
\* and one broadcast; channels of capacity one.
CONSTANTS
  k1 = k1 k2 = k2 u1 = u1 u2 = u2 b1 = b1 b2 = b2
  Conn = {k1, k2}
  User = {u1, u2}
  Building = {b1, b2}
  UserOf <- MCUserOf
  Memberships <- MCTwo
  Message = {m1}
  Announcement = {a1}
  None = None
  SendCap = 1
  BroadcastCap = 1
SPECIFICATION Spec
SYMMETRY Swap
INVARIANTS NoChannelPanic IndexesAgree
PROPERTY ImplementsDelivery
CHECK_DEADLOCK FALSE
