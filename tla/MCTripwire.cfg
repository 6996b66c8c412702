CONSTANTS
  NoValue = NoValue
  Roller = Roller
  Series <- OneSeries
  Figures <- SomeFigures
  Tripwires <- SomeTripwires
  LastPeriod = 6
  YearLength = 2
  MinHistory = 2
  Smooth = 2
  LastDay = 1
  MaxEntries = 6
  MaxOdd = 1
SPECIFICATION Spec
CHECK_DEADLOCK FALSE
INVARIANTS
  TypeOK
  NeverBoth
  SelfCalibrating
PROPERTIES
  Causal
  RunStep
  SettledVerdict
