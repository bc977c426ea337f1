SPECIFICATION FairSpec
CONSTANTS
  Pools = {1, 2}
  Factory = factory
  Factories = {factory}
  Owners = {o1}
  Denoms = {d1, d2}
  ForeignAmounts = {}
  WithdrawAmounts = {}
  Deposit = 5
  MaxFunds = 5
  DailyCap = 7
  Window = 2
  ConfigTimelock = 1
  WithdrawTimelock = 1
  AdminTimelock = 1
  PeriodSeconds = 43200
  SinceCap = 1
  BaseAmount = 5
  Scale = 111
  MaxDecayX = 10
  None = None
PROPERTY MintsSettle
