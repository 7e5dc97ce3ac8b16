CONSTANTS
  click = click
  again = again
  read = read
  finish = finish
  stop = stop
  s1 = s1
  Sessions = {s1}
  SessionOf <- MCSessionOf
  Kind <- MCKind
  Calls = {click, finish}
  Cancellable = {click}
  MaxInterrupts = 1
  MayDisconnect = TRUE
SPECIFICATION Spec
INVARIANTS
  QueuedCancelNeverRuns
  CancelBehindRequest
  CancelOnItsWay
  AnswerHasCause
CHECK_DEADLOCK FALSE
