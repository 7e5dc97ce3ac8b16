CONSTANTS
  c1 = c1
  c2 = c2
  None = None
  Clients = {c1, c2}
  Timeouts <- MCTimeouts
  Durations <- MCDurations
  Menu <- MCMenu
  Instants = {}
  MaxRuns = 2
  MaxSessions = 2
  MaxFaults = 1
SPECIFICATION FairSpec
CHECK_DEADLOCK FALSE
INVARIANTS
  DaemonAnswersFirst
  NoLostWakeup
  RecordCleansUp
PROPERTIES
  CommandEnds
