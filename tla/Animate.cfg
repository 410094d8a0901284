SPECIFICATION FairSpec
CONSTANTS
  Movies <- AllMovies
  Wrap = 150
  Patience = 10
  Slips <- MCSlips
  Delays <- MCDelays
  MaxLate = 1
  Horizon = 100
INVARIANTS
  TypeOK
  CountsAgree
  OnSchedule
PROPERTIES
  TickReturns
  PlaysOn
CHECK_DEADLOCK FALSE
