CONSTANTS
  s1 = s1
  s2 = s2
  t1 = t1
  t2 = t2
  w1 = w1
  w2 = w2
  b1 = b1
  b2 = b2
  b3 = b3
  r1 = r1
  k1 = k1
  None = None
  Sessions = {s1}
  Tabs = {t1, t2}
  UserWindows = {w1, w2}
  OpenAtFirst = {w1}
  Borrows = {b1, b3}
  Returns = {}
  Stops = {k1}
  SessionOf <- MCSessionOf
  TabOf <- MCTwoTabs
  Overlap = FALSE
  MayDisconnect = TRUE
SPECIFICATION FairSpec
PROPERTY
  CleanupKeepsBorrowedTabs
CHECK_DEADLOCK FALSE
