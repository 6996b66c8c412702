CONSTANTS
  r1 = r1
  r2 = r2
  s1 = s1
  s2 = s2
  v1 = v1
  v2 = v2
  Runner <- OneRunner
  Series <- OneSeries
  Value <- TwoValues
  LastPeriod = 1
  Kind = "comext"
  LastDay = 0
  MaxJobs = 2
  MaxEdits = 2
SPECIFICATION Spec
CHECK_DEADLOCK FALSE
INVARIANT RevisionLands
