SPECIFICATION FairSpec
CONSTANTS
  Env <- MockDeployment
  Invalid = invalid
  None = None
  Cooldown = 10
  Staleness = 12
  Jitter = 1
  Latency = 1
  AgeCap = 24
  MaxStale = 2
  MaxCrashes = 1
INVARIANTS
  PriceStaysFresh
PROPERTIES
  StaleEntriesGo
CHECK_DEADLOCK FALSE
