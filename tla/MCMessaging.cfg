\* Two users, room for two conversations, four requests.
CONSTANTS
  User = {u1, u2}
  Conv = {c1, c2}
  Request = {r1, r2, r3, r4}
  None = None
SPECIFICATION Spec
SYMMETRY Symmetry
INVARIANTS TypeOK UnreadWhenAlone PushedAreStored ConversationWhenAlone
CHECK_DEADLOCK FALSE
