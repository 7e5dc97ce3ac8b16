CONSTANTS
  c1 = c1
  c2 = c2
  None = None
  MaxDaemons = 3
  Clients = {c1, c2}
  MaxCommands = 2
  MaxReleases = 1
  MaxFaults = 1
SPECIFICATION FairSpec
CHECK_DEADLOCK FALSE
INVARIANTS
  SocketIsServed
  DiscoveryIsSound
  NoLockout
PROPERTIES
  UpdateServes
