CONSTANTS
  t1 = t1
  t2 = t2
  None = None
  Tabs = {t1, t2}
  MaxRequests = 2
  MaxArms = 1
  MaxFinishes = 1
SPECIFICATION HelpFairSpec
INVARIANTS
  ContinuedByUser
  ShownIsReached
PROPERTIES
  HelpIsAnswered
