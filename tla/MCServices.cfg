\* Two users, one of whom manages another building; three calls; one maintenance
\* request, one pass, one package; one plan and two units.
CONSTANTS
  User = {u1, u2}
  Elsewhere = {u2}
  Call = {c1, c2, c3}
  None = None
  Ticket = {k1}
  Pass = {v1}
  Package = {g1}
  Plan = {p1}
  Unit = {n1, n2}
  MaxAmount = 1
SPECIFICATION ServicesSpec
SYMMETRY Symmetry
INVARIANTS ServicesTypeOK OpenedByManager StampsTell NoPeeking 
CHECK_DEADLOCK FALSE
