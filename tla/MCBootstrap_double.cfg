CONSTANTS
  r1 = r1
  r2 = r2
  roller = roller
  tester = tester
  basket = basket
  ticker = ticker
  total = total
  byOrigin = byOrigin
  revenue = revenue
  Replica <- TwoReplicas
  Reference <- Nodes
  SeriesSpec <- Specs
  NullPartner <- NoPartner
  NodeOf <- NodeOfSpec
  HeadOf <- SameHead
  RowsOf <- AllRows
  EnvsOf <- PlainEnvs
  SpecsOf <- AllSpecs
  Schema0 = 0
  Rows0 <- NoRows
  Series0 <- NoSeries
  Member <- Members
  BasketOf <- Baskets
  MembersOf <- AllMembers
  AttrsOf <- SameAttrs
  LastDay = 0
  MaxAttempts = 3
  MaxRetries = 3
  MaxFaults = 0
  MaxDown = 0
SPECIFICATION Spec
CHECK_DEADLOCK FALSE
INVARIANT NoDoubleWrite
