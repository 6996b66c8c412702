CONSTANTS
  Moog = Moog
  Harmonic = Harmonic
  ACWI = ACWI
  NoClose = NoClose
  Ticker <- TwoTickers
  Benchmark = ACWI
  Prices <- SomePrices
  MaxFill = 1
  Week = 2
  Month = 3
  NewYear = 3
  Limit = 1
  LastDay = 4
SPECIFICATION Spec
CHECK_DEADLOCK FALSE
INVARIANTS
  NoForesight
  TypeOK
  FreshOnly
  WindowsNested
  Attributed
  Within
