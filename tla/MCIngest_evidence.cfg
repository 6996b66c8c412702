CONSTANTS
  r1 = r1
  r2 = r2
  s1 = s1
  s2 = s2
  v1 = v1
  v2 = v2
  Runner <- OneRunner
  Series <- OneSeries
  Value <- OneValue
  LastPeriod = 1
  Kind = "comext"
  LastDay = 0
  MaxJobs = 1
  MaxEdits = 1
SPECIFICATION FairSpec
CHECK_DEADLOCK FALSE
PROPERTY EvidenceKept
