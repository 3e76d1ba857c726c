\* One route with three stops, handed back and forth between two drivers.
CONSTANTS
  Routes = {r1}
  Drivers = {d1, d2}
  NoDriver = NoDriver
  NStops = 3
SPECIFICATION FairSpec
INVARIANTS
  StatusTracksTasks
PROPERTIES
  ReportsAreKept
  ImplementsLifecycle
  StartedTripsFinish
CHECK_DEADLOCK FALSE
