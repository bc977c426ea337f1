SPECIFICATION Spec
CONSTANTS
  Unit = 100
  Seeds <- LargeSeed
  Offers <- LargeSeed
  Amounts = {300}
  Removals = {90}
  LpFee = 20
  MinLiquidity = 80
  OptimalLiquidity = 1000
  MinMultiplier = 10
  MinPosition = 120
  Cw20Sides = {1}
  Skews <- OffByOne
  Delay = 1
  Dormancy = 1
  MaxPositions = 2
  MaxCalls = 4
  MaxGift = 1
  None = None
PROPERTIES
  PartialRemovalKeepsFees
