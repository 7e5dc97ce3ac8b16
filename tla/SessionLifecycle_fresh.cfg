CONSTANTS
  a = a
  b = b
  cli = cli
  idle = idle
  Starts = {a}
  Stops = {}
  StopOf <- MCStopOf
  IdleStops = {}
  MaxConns = 2
  MayReap = FALSE
  InOrder = TRUE
SPECIFICATION Spec
INVARIANT FreshSessionsSurvive
CHECK_DEADLOCK FALSE
