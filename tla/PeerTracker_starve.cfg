SPECIFICATION FairSpec
CONSTANTS
  URL = {a, b}
  Self = s
  Static = {a, b}
  Scanned = {}
  Gossiped = {}
  MaxPeers = 2
  MaxBackoff = 2
  IntBits = 4
  Rotate = TRUE
  MaxTasks = 2
PROPERTY
  DeadPeersYield
