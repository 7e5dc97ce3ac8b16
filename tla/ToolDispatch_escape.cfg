CONSTANTS
  click = click
  again = again
  read = read
  finish = finish
  stop = stop
  s1 = s1
  Sessions = {s1}
  SessionOf <- MCSessionOf
  Kind <- MCKind
  Calls = {click}
  Cancellable = {}
  MaxInterrupts = 1
  MayDisconnect = FALSE
SPECIFICATION Spec
INVARIANT NoInputPastInterrupt
CHECK_DEADLOCK FALSE
