SPECIFICATION StreaksSpec
CONSTANTS
  DaySecs = 4
  MonthDays <- MCMonthDays
  Distance <- MCDistance
  PerMeter = 1
  MaxGap = 0
  MaxSpeed = 0
  PerUnit <- MCPerUnit
  NoMonth = NoMonth
  Zones <- MCZones
  Years = {0}
  Days = {1, 2, 3, 12, 13}
  Walks = {0, 9}
  MaxMeters = 18
  Times <- MCTimes
INVARIANTS
  LongestIsLongest
  CurrentIsCurrent
  FiguresAgree
CHECK_DEADLOCK FALSE
