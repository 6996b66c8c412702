CONSTANTS
  japan = japan
  germany = germany
  vietnam = vietnam
  notSpecified = notSpecified
  hiwin = hiwin
  otherCompany = otherCompany
  eu = eu
  asia = asia
  Party <- Parties
  Filers <- FilersOf
  Tracked <- TrackedBy
  Member <- Members
  Group <- Groups
  MembersOf <- GroupMembers
  World = World
  Extra = Extra
  Intra = Intra
  FourDigits <- CountryCodes
  Zeroes <- GroupingCodes
  TwoLetters <- LetterCodes
  Residual <- ResidualCodes
  Month <- TwoMonths
  Amount <- Amounts
  Aggregate = Aggregate
  Blank = Blank
  None = None
  MaxFilings = 2
SPECIFICATION Spec
CHECK_DEADLOCK FALSE
INVARIANTS
  TypeOK
  OneEach
  AsFiled
  NothingLost
  Reconciles
  UnitValues
