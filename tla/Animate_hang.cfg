SPECIFICATION FairSpec
CONSTANTS
  Movies <- OnlyStill
  Wrap = 150
  Patience = 10
  Slips <- OnTime
  Delays <- OnTime
  MaxLate = 0
  Horizon = 100
PROPERTY EveryTickReturns
CHECK_DEADLOCK FALSE
