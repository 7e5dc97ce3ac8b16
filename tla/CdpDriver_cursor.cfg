CONSTANTS
  c1 = c1
  c2 = c2
  k1 = k1
  k2 = k2
  None = None
  Calls = {c1, c2}
  Sessions = {k1, k2}
  Buffer = 2
  MaxEntries = 3
SPECIFICATION Spec
SYMMETRY Symmetry
PROPERTY CursorsAreFollowed
CHECK_DEADLOCK FALSE
