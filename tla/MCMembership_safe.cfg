CONSTANTS
  b1 = b1
  b2 = b2
  t1 = t1
  t2 = t2
  NotRemoved = NotRemoved
  Basket <- OneBasket
  Ticker <- OneTicker
  Releases <- AllReleases
  LastDay = 1
  MaxSeeds = 3
SPECIFICATION Spec
CHECK_DEADLOCK FALSE
INVARIANT SeedIsSafe
