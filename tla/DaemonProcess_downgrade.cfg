CONSTANTS
  c1 = c1
  c2 = c2
  None = None
  MaxDaemons = 3
  Clients = {c1, c2}
  MaxCommands = 2
  MaxReleases = 2
  MaxFaults = 0
SPECIFICATION Spec
CHECK_DEADLOCK FALSE
PROPERTIES
  NoDowngrade
