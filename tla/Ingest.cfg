SPECIFICATION Spec
CONSTANTS
  Sub = 10
  MsAbove = 100
  MaxInt = 500
  MaxLat = 9
  MaxLon = 18
  CourseLimit = 1000
  Bits = 8
  NaN = NaN
  PosInf = PosInf
  NegInf = NegInf
  Null = Null
  Bodies <- MCBodies
  Boxes <- MCBoxes
INVARIANTS
  TypeOK
  OneRowPerFix
  BatteryNear
  ReplyUsable
