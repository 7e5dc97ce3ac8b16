\* record_stop that could not flush the steps says that the recording is still active.
CONSTANTS
  t1 = t1
  t2 = t2
  None = None
  Tabs = {t1, t2}
  MaxSends = 1
SPECIFICATION Spec
INVARIANTS
  RetryIsPossible
