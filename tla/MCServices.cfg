SPECIFICATION MCSpec
CONSTANTS
  Checks = {h1, h2}
  Trigger = 2
  Cooldown = 1
  MaxTime = 3
  Requests = {h1, h2}
  Drivers = {"d1", "d2"}
  Photos = {"p1", "p2"}
  MaxVersion = 1
  Orgs <- OrgNames
  Scope <- HqAndBranch
  Urls = {"list"}
  Readers = {h1, h2}
  Writers = {h1, h2}
  MaxChanges = 1
  MaxOrgs = 3
  MaxLinks = 2
  MaxSpent = 2
  MaxDeleted = 1
  Reports = {h1, h2}
  Jammed = {1}
  Histories <- Samples
  Ttl = 2
  LastTick = 4
  Routes = {1, 2}
  Orders = {"o1", "o2"}
  Vehicles = {"v1", "v2", "v3"}
  Customer <- OrderCustomer
  Weight <- OrderWeight
  Cases <- OrderCases
  Distance <- Roads
  Vehicle <- Fleet
  Tables <- Rush
  NStops = 2
  Plan <- TwoStops
  DayLength = 8
  Late = 1
  Early = 2
  Sanity = 4
  Clock = {0, 5}
  Delays = {0, 2}
  Explained <- Confirmed
  Handlers = {h1, h2}
  MaxEvents = 2
SYMMETRY Symmetry
CONSTRAINTS ShortHistories FewEvents
INVARIANTS WarningsAreEarned StaleHasACause TreeAgrees LinksAreSpentOnce JamsRunTheirTime RouteFiguresAgree
  TimesAreAccounted DeliveredAsReported
PROPERTY DriversNeverReopen
CHECK_DEADLOCK FALSE
