\* One route, two overlapping requests and the polled trip list.
SPECIFICATION FairSpec
CONSTANTS
  Routes = {r1}
  Requests = {q1, q2}
  Monitor = Monitor
  NoRoute = NoRoute
INVARIANTS
  SerialRequestsAgree
PROPERTIES
  ListingHeals
CHECK_DEADLOCK FALSE
