\* Files of three bytes in chunks of two; two calls, with a dialog before each.
CONSTANTS
  near = near  far = far  photo = photo  hidden = hidden  root = root  sub = sub
  Missing = Missing  None = None
  Mul = 20021  Inc = 1  Seed0 = 32093  Word = 32768  Shift = 256  MaxLen = 40
  Servers = {near, far}  Paths = {photo, hidden}  Dirs = {root, sub}  Root = root
  Ext <- MCExt  Kind <- MCKind  Initial <- MCInitial  Edits <- MCEdits
  Parent <- MCParent  DirOf <- MCDirOf
  MaxEdits = 1  MaxCalls = 2  Chunk = 2  SaveBuf = 2
SPECIFICATION SSpec
INVARIANTS STypeOK LoadsRight FileInStep SavedIsRead
PROPERTIES CallReturns DialogSound
\* The bound on calls stops the system.
CHECK_DEADLOCK FALSE
