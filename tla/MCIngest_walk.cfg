CONSTANTS
  r1 = r1
  r2 = r2
  s1 = s1
  s2 = s2
  v1 = v1
  v2 = v2
  Runner <- TwoRunners
  Series <- OneSeries
  Value <- TwoValues
  LastPeriod = 2
  Kind = "twse"
  LastDay = 1
  MaxJobs = 3
  MaxEdits = 2
SPECIFICATION Spec
CHECK_DEADLOCK FALSE
SYMMETRY Symmetry
INVARIANTS
  OneRowPerVintage
  SeenAtTheSource
  WholeBatch
  Accounted
PROPERTIES
  PointInTime
  SettledStays
