CONSTANTS
  NoValue = NoValue
  Roller = Roller
  Series <- OneSeries
  Figures <- SomeFigures
  Tripwires <- SomeTripwires
  LastPeriod = 6
  YearLength = 2
  MinHistory = 2
  Smooth = 2
  LastDay = 1
  MaxEntries = 6
  MaxOdd = 2
SPECIFICATION Spec
CHECK_DEADLOCK FALSE
INVARIANT NoGapInRun
