CONSTANTS
  click = click
  again = again
  read = read
  finish = finish
  stop = stop
  s1 = s1
  Sessions = {s1}
  SessionOf <- MCSessionOf
  Kind <- MCKind
  Calls = {click, stop}
  Cancellable = {click}
  MaxInterrupts = 0
  MayDisconnect = TRUE
SPECIFICATION FairSpec
INVARIANTS
  BusyLock
PROPERTIES
  NoSendAfterStop
  ImplementsCommands
  SessionNeverWedged
  CancelReachesExtension
CHECK_DEADLOCK FALSE
