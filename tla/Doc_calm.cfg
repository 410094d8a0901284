SPECIFICATION Spec
CONSTANTS
  Key <- LongKey
  Universe <- BothSides
  Corrupt <- BrokenLocal
  None = None
  MaxRows = 4
  Faults = {"link", "scan"}
  Shows = {}
INVARIANTS
  DeleteTargetsDisplayed
  ListFollowsDoc
  FallbackIsNearest
PROPERTY
  DeleteMovesOn
