\* One connection whose peer may stall for ever, with more payloads for it than
\* its channel and its WritePump can hold; every list of buildings.
CONSTANTS
  k1 = k1 k2 = k2 u1 = u1 u2 = u2 b1 = b1 b2 = b2
  Conn = {k1}
  User = {u1}
  Building = {b1, b2}
  UserOf <- MCOneConn
  Memberships <- MCLists
  Message = {m1, m2}
  Announcement = {a1}
  None = None
  SendCap = 1
  BroadcastCap = 1
SPECIFICATION FairSpec
PROPERTIES GoneIsUnregistered SendToUserReturns
CHECK_DEADLOCK FALSE
