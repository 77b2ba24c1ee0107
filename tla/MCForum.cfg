\* A member and a stranger, one post at most, three requests over two connections:
\* two lists or feeds fill the pool, two votes race and a third request is in their way.
CONSTANTS
  User = {u1, u2}
  Member = {u1}
  Post = {p1, p2}
  Existing = {p1}
  Request = {r1, r2, r3}
  MaxConns = 2
  MaxNested = 2
  None = None
SPECIFICATION Spec
SYMMETRY Symmetry
INVARIANTS TypeOK TallyWhenSingle CommentsShown MediaAreStored OnlyNestedReadsJam
CHECK_DEADLOCK FALSE
