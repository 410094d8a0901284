\* A copy that is saved over the file it is taken from.
CONSTANTS
  near = near  far = far  photo = photo  hidden = hidden  root = root  sub = sub
  Missing = Missing  None = None
  Mul = 20021  Inc = 1  Seed0 = 32093  Word = 32768  Shift = 256  MaxLen = 40
  Servers = {near, far}  Paths = {photo, hidden}  Dirs = {root, sub}  Root = root
  Ext <- MCExt  Kind <- MCKind  Initial <- MCInitial  Edits <- MCEdits
  Parent <- MCParent  DirOf <- MCDirOf
  MaxEdits = 1  MaxCalls = 2  Chunk = 2  SaveBuf = 2
SPECIFICATION SSpec
INVARIANT SavedIsWhole
\* The bound on calls stops the system.
CHECK_DEADLOCK FALSE
