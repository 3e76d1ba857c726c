SPECIFICATION Spec
CHECK_DEADLOCK FALSE
CONSTANTS
  Orders = {o1, o2}
  Routes = {r1, r2}
  Requests = {q1, q2}
  None = None
SYMMETRY Symmetry
CONSTRAINT FewAstray
INVARIANTS
  OrdersAreKept
  SerialRequestsAgree
PROPERTIES
  EditsAreNotLost
