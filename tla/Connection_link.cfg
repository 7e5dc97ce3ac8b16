CONSTANTS
  g1 = g1
  g2 = g2
  g3 = g3
  None = None
  Sockets = {g1, g2, g3}
  MaxFaults = 3
SPECIFICATION FairSpec
INVARIANTS
  OneLiveSocket
  NoStaleHandshake
  OffMeansOff
PROPERTIES
  Reconnects

