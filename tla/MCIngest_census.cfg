CONSTANTS
  r1 = r1
  r2 = r2
  s1 = s1
  s2 = s2
  v1 = v1
  v2 = v2
  Runner <- TwoRunners
  Series <- TwoSeries
  Value <- OneValue
  LastPeriod = 1
  Kind = "census"
  LastDay = 0
  MaxJobs = 2
  MaxEdits = 2
SPECIFICATION FairSpec
CHECK_DEADLOCK FALSE
INVARIANTS
  TypeOK
  Backed
  IInv
PROPERTY Finishes
