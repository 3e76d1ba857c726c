SPECIFICATION MCSpec
CONSTANTS
  StopCount = 2
  Mapped = {1}
  Lines = {b1, b2}
  MaxPresses = 2
  Records = {"v1"}
  Carriers = {a1, a2}
  NoCarrier = NoCarrier
  Offices = {b1, b2}
  MaxSubmits = 2
  Goods = {a1, a2}
  Buyers = {"b1", "b2"}
  OrderCodes = {"o1"}
  Edits = {b1, b2}
  MaxEntries = 5
  OrderCount = 2
  Filters = {"PENDING", "APPROVED"}
  PageSize = 1
  MaxTurns = 1
  Vehicles <- Two
  Days <- AllDays
  Loading = 1
  Service = 1
  ShiftStart <- Starts
  ShiftEnd <- Ends
  LunchStart = 14
  LunchEnd = 17
  Removed = 2
  MaxIters = 2
  Mu = 2
  Lambda = 1
  Elites = 1
  Stagnation = 0
  Period = 2
  Light = 2
  Rounds = 2
  Penalties <- Two
  Fixed = 1000
  OutRemoved = 2
SYMMETRY Symmetry
CONSTRAINT ShortWalks
INVARIANTS CarrierIffOutsourced TotalIsOfItsItems  
  RoutesAreSound
PROPERTY MovesPay
CHECK_DEADLOCK FALSE
