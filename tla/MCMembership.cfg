CONSTANTS
  b1 = b1
  b2 = b2
  t1 = t1
  t2 = t2
  NotRemoved = NotRemoved
  Basket <- TwoBaskets
  Ticker <- TwoTickers
  Releases <- AllReleases
  LastDay = 2
  MaxSeeds = 4
SPECIFICATION Spec
CHECK_DEADLOCK FALSE
SYMMETRY Symmetry
INVARIANTS
  TypeOK
  MatchesRelease
  SpellsApart
  HistoryFaithful
PROPERTY HistoryKept
