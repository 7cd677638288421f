SPECIFICATION WalkSpec
CONSTANTS
  k1 = k1
  k2 = k2
  k3 = k3
  k4 = k4
  a1 = a1
  a2 = a2
  Keys = {k1, k2, k3, k4}
  Attrs = {a1, a2}
  Batches <- MCBatches
  NoRow = NoRow
  MaxClock = 2
  Ts <- MCTs
  Queries <- MCQueries
  NoStart = NoStart
  NoEnd = NoEnd
  BadBox = BadBox
  DefaultPerPage = 2
  MaxPerPage = 2
  Nothing = Nothing
INVARIANTS
  PageAsFullAsTotal
  MissesOnlyTies
  QuietWalkExact
PROPERTIES
  NotModifiedSameRows
  NotModifiedStaleOneSecond
CHECK_DEADLOCK FALSE
