SPECIFICATION Spec
CONSTANTS
  Orders = {o1, o2}
  Plans = {p1, p2}
  Vehicles = {v1, v2}
  Drivers = {d1, d2}
  Routes = {r1, r2}
  Requests = {q1, q2}
  None = None
SYMMETRY Symmetry
CONSTRAINT FewDisturbed
INVARIANTS
  UncontestedOrdersAgree
  
CHECK_DEADLOCK FALSE
