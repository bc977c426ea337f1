SPECIFICATION FairSpec
CONSTANTS
  Users <- ThreeUsers
  Keepers = {k1}
  Creator = 1
  Amounts = {100, 250}
  Rates = {4}
  RateUnit = 100
  FeeUnit = 100
  FeeBluechip = 1
  FeeCreator = 5
  LpFee = 10
  MinCommitPre = 3
  MinCommitPost = 1
  Target = 10
  MaxLock = 200
  ExcessCapPercent = 3
  MinLiquidity = 50
  CreatorReward = 33
  BluechipReward = 3
  PoolSeed = 350
  CommitReturn = 47
  BatchSize = 2
  CommitInterval = 1
  KeeperInterval = 1
  AdminWindow = 1
  StallTimeout = 2
  PublicWindow = 4
  EmergencyDelay = 1
  ExcessLock = 1
  CooldownBlocks = 2
  TimeSteps = {1}
  MaxTrades = 0
  None = None
INVARIANTS
  TokenBudget
  Entitlements
  NoCommitterSkipped
PROPERTIES
  DrainedIsFrozen
  KeepsPayoutPromise
  IsServedPool
  DistributionCompletes
