\* Lists of two entries, so that a third one pushes the first out.
CONSTANTS
  i1 = i1  i2 = i2  a = a  b = b  h = h  x = x  y = y  Empty = Empty
  Insts = {i1, i2}  Locals = {a, b}  Remotes <- MCRemotes  Addresses = {x, y}
  MaxItems = 2  MaxHosts = 2
  Rects <- MCRects  Works <- MCWorks  MinWidth = 4  MinHeight = 3
  MaxStarts = 2  MaxAdds = 3
SPECIFICATION Spec
SYMMETRY Alike
INVARIANTS TypeOK RecentKept CrashTearsOneSlot AddressesKept WindowOnScreen
\* The bound on starts stops the system.
CHECK_DEADLOCK FALSE
