\* Two users, a post and a liked repost of it, a poll with an option and an option
\* of another poll, three concurrent requests.
CONSTANTS
  o1 = o1 o2 = o2 q1 = q1 q2 = q2 u1 = u1 u2 = u2 p1 = p1 r = r
  User = {u1, u2}
  Post = {p1}
  Poll = {q1, q2}
  Option = {o1, o2}
  PollOf <- MCPollOf
  Tx = {r, t1, t2, t3}
  Old = {r}
  AuthorOf <- MCAuthorOf
  OriginalOf <- MCOriginalOf
  Fans <- MCFans
  None = None
SPECIFICATION Spec
SYMMETRY Symmetry
INVARIANTS TypeOK CountsExactWhenSingle  
CHECK_DEADLOCK FALSE
