SPECIFICATION FairSpec
CONSTANTS
  Calls = {c1}
  NoCall = NoCall
  MaxId = 2
  MaxQueue = 1
  SlowWrap = TRUE
PROPERTY TeardownEnds
CHECK_DEADLOCK FALSE
