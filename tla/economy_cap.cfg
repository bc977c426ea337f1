SPECIFICATION Spec
CONSTANTS
  Pools = {1}
  Factory = factory
  Factories = {factory, foreign}
  Owners = {o1, o2}
  Denoms = {d1}
  ForeignAmounts = {0, 3}
  WithdrawAmounts = {4}
  Deposit = 5
  MaxFunds = 6
  DailyCap = 6
  Window = 2
  ConfigTimelock = 1
  WithdrawTimelock = 2
  AdminTimelock = 1
  PeriodSeconds = 43200
  SinceCap = 1
  BaseAmount = 5
  Scale = 111
  MaxDecayX = 10
  None = None
INVARIANTS
  RollingCap
  LogIsPayments
  HandoffAccounted
  NoInheritedWithdrawal
