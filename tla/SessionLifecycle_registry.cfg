CONSTANTS
  a = a
  b = b
  cli = cli
  idle = idle
  Starts = {a}
  Stops = {cli, idle}
  StopOf <- MCStopOf
  IdleStops = {idle}
  MaxConns = 2
  MayReap = TRUE
  InOrder = TRUE
SPECIFICATION FairSpec
INVARIANTS
  RowsAreOfTheConnection
  ListedSessionHasQueue
  StopMeansStopped
PROPERTIES
  RegistrationGoesWithItsSocket
  StaleSessionGoes
CHECK_DEADLOCK FALSE
