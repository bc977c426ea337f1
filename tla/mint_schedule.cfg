SPECIFICATION GridSpec
CONSTANTS
  BaseAmount = 5000
  Scale = 1000
  MaxDecayX = 360
  MaxOrdinal = 370
  TimeStep = 5400
  MaxSteps = 9
INVARIANT ExactAmount
PROPERTIES
  LaterPoolsGetNoMore
  WaitingCostsNothing
CHECK_DEADLOCK FALSE
