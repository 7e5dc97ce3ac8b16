\* A page that is not the recording's tab fails to deliver a step, and nobody is told.
CONSTANTS
  t1 = t1
  t2 = t2
  None = None
  Tabs = {t1, t2}
  MaxSends = 1
SPECIFICATION Spec
PROPERTIES
  TraceIsComplete
