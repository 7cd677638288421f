SPECIFICATION Spec
CONSTANTS
  k1 = k1
  k2 = k2
  k3 = k3
  k4 = k4
  k5 = k5
  a1 = a1
  p = p
  q = q
  r = r
  Keys = {k1, k2, k3, k4, k5}
  Attrs = {a1}
  Batches <- MCBatches
  NoRow = NoRow
  MaxClock = 2
  DaySecs = 4
  MonthDays <- MCMonthDays
  Distance <- MCDistance
  PerMeter = 2
  MaxGap = 3
  MaxSpeed = 16
  PerUnit <- MCPerUnit
  NoMonth = NoMonth
  Ts <- MCTs
  Place <- MCPlace
  Epoch = 52
  Locations <- MCLocations
  Queries <- MCQueries
  Nothing = Nothing
INVARIANTS
  ReadsWholeYears
  StatsAddUp
  TotalsCountAll
  ComparisonTruthful
CHECK_DEADLOCK FALSE
