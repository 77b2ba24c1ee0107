\* One connection of a user with two buildings.
CONSTANTS
  k1 = k1 k2 = k2 u1 = u1 u2 = u2 b1 = b1 b2 = b2
  Conn = {k1}
  User = {u1}
  Building = {b1, b2}
  UserOf <- MCOneConn
  Memberships <- MCLists
  Message = {m1}
  Announcement = {a1}
  None = None
  SendCap = 1
  BroadcastCap = 1
SPECIFICATION FairSpec
PROPERTY EachBuildingRegistered
CHECK_DEADLOCK FALSE
