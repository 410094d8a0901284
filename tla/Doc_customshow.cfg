SPECIFICATION Spec
CONSTANTS
  Key <- ShortKey
  Universe <- TwoFolders
  Corrupt <- NoFiles
  None = None
  MaxRows = 3
  Faults = {}
  Shows = {"custom"}
INVARIANT
  DeleteTargetsDisplayed
