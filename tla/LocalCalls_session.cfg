\* Two properties that do not hold: to be checked one at a time.
CONSTANTS
  c1 = c1
  c2 = c2
  None = None
  Clients = {c1, c2}
  Timeouts <- MCTimeouts
  Durations <- MCDurations
  Menu <- StartMenu
  Instants = {}
  MaxRuns = 2
  MaxSessions = 2
  MaxFaults = 1
SPECIFICATION Spec
CHECK_DEADLOCK FALSE
INVARIANT StartAnswersFirst
PROPERTY MissIsReal
