SPECIFICATION FairSpec
CONSTANTS
  a = a
  b = b
  c = c
  None = None
  Images = {a, b, c}
  Folder <- TwoOfThree
  CustomLists <- Repeating
  MaxRounds = 2
  MaxBoxes = 2
  MaxVisits = 2
INVARIANTS
  TypeOK
  ShowIntact
PROPERTIES
  StoppedOpensNothing
  CallsReturn
  ShowEnds
CHECK_DEADLOCK FALSE
