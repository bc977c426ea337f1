SPECIFICATION FairSpec
CONSTANTS
  Env <- TwoPools
  Invalid = invalid
  None = None
  FastPoll = 1
  MaxBatches = 2
  RateLimit = 1
  Batches <- UnevenBatches
  MayHalt <- FirstPool
  MaxCrashes = 1
PROPERTIES
  NapOnlyWhenIdle
  KeepsSweepPromise
  PoolsDrain
  NotifiesSettle
CHECK_DEADLOCK FALSE
