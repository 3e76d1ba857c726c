\* Two orders compete for two routes of one plan.
CONSTANTS
  Orders = {o1, o2}
  Plans = {p1}
  Routes = {r1, r2}
  NoPlan = NoPlan
SPECIFICATION Spec
SYMMETRY Symmetry
INVARIANTS
  
  PlanStatusAgrees
  TripsAgree
PROPERTIES
  ImplementsLifecycle
CONSTRAINTS
  FewOverrides
  FewDetached
CHECK_DEADLOCK FALSE
