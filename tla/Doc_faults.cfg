SPECIFICATION FairSpec
CONSTANTS
  Key <- ShortKey
  Universe <- Mixed
  Corrupt <- BrokenRemote
  None = None
  MaxRows = 2
  Faults = {"locked", "torn", "link", "flap", "scan", "race"}
  Shows = {"custom"}
INVARIANTS
  TypeOK
  DisplayedIsPath
PROPERTY
  OpenReturns
