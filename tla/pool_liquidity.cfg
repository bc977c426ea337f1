SPECIFICATION Spec
CONSTANTS
  Unit = 100
  Seeds <- OneSeed
  Offers <- TwoOffers
  Amounts = {20}
  Removals = {9}
  LpFee = 20
  MinLiquidity = 8
  OptimalLiquidity = 50
  MinMultiplier = 10
  MinPosition = 12
  Cw20Sides = {1}
  Skews <- OffByOne
  Delay = 1
  Dormancy = 1
  MaxPositions = 2
  MaxCalls = 4
  MaxGift = 1
  None = None
INVARIANTS
  TypeOK
  Backed
  FeesCovered
  PausesHold
  EscrowCovers
PROPERTIES
  ShareValueNeverFalls
