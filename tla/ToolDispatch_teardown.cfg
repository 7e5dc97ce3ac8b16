CONSTANTS
  click = click
  again = again
  read = read
  finish = finish
  stop = stop
  s1 = s1
  Sessions = {s1}
  SessionOf <- MCSessionOf
  Kind <- MCKind
  Calls = {read, stop}
  Cancellable = {}
  MaxInterrupts = 0
  MayDisconnect = FALSE
SPECIFICATION Spec
INVARIANT TeardownNeverRacesTool
CHECK_DEADLOCK FALSE
