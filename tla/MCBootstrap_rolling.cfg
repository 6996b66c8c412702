CONSTANTS
  r1 = r1
  r2 = r2
  roller = roller
  tester = tester
  basket = basket
  ticker = ticker
  total = total
  byOrigin = byOrigin
  revenue = revenue
  Replica <- TwoReplicas
  Reference <- Nodes
  SeriesSpec <- Specs
  NullPartner <- NoPartner
  NodeOf <- NodeOfSpec
  HeadOf <- RollingHead
  RowsOf <- RollingRows
  EnvsOf <- RollingEnvs
  SpecsOf <- RollingSpecs
  Schema0 = 0
  Rows0 <- NoRows
  Series0 <- NoSeries
  Member <- Members
  BasketOf <- Baskets
  MembersOf <- RollingMembers
  AttrsOf <- RollingHead
  LastDay = 1
  MaxAttempts = 2
  MaxRetries = 3
  MaxFaults = 1
  MaxDown = 1
SPECIFICATION FairSpec
CHECK_DEADLOCK FALSE
INVARIANTS
  ServingReady
  SeedNeverClashes
  NodesFirst
  ByOriginOnce
  Diagnosed
  IInv
PROPERTY EventuallyServes
