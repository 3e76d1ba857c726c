SPECIFICATION MCSpec
CONSTANTS
  Plans = {a1, a2}
  Routes = {r1}
  Calls = {b1, b2}
  None = None
  MaxClicks = 2
  Customers = {"a", "b"}
  Located = {"a"}
  MaxViews = 3
  Incidents = {i1}
  Desks = {d1, d2}
  Clicks = {c1, c2}
  NoOne = NoOne
  MaxUpdates = 3
  Trips <- TwoTrips
  MyTrips <- TwoTrips
  NoChat = "none"
  Limit = 2
  MaxMessages = 3
  Marks = {m1, m2}
  CardsShown = 2
  MaxNotices = 3
  Orders = {b1, b2}
  Assignees = {"ann", "bob"}
  AtPhone = "ann"
  Picks = {"SCHEDULED", "AWAITING_REVIEW", "CANCELLED"}
  MaxOrders = 3
SYMMETRY Symmetry
CONSTRAINT FewMessages
INVARIANTS RestingScreenIsTrue StopsAreDrawnInPlace CountsAreHonest
PROPERTY UndoneUnaware
CHECK_DEADLOCK FALSE
