CONSTANTS
  t1 = t1
  t2 = t2
  None = None
  Tabs = {t1, t2}
  MaxSends = 1
SPECIFICATION Spec
SYMMETRY Symmetry
INVARIANTS
  AwaitCanEnd
PROPERTIES
  StopWaitsForSteps
  FlushIsConfirmed
