CONSTANTS
  a = a
  b = b
  cli = cli
  idle = idle
  Starts = {a}
  Stops = {}
  StopOf <- MCStopOf
  IdleStops = {}
  MaxConns = 1
  MayReap = FALSE
  InOrder = TRUE
SPECIFICATION Spec
INVARIANT NoOrphanWindow
CHECK_DEADLOCK FALSE
