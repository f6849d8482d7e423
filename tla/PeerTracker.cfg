SPECIFICATION FairSpec
CONSTANTS
  URL = {a, b, c, s}
  Self = s
  Static = {a}
  Scanned = {b}
  Gossiped = {c, s}
  MaxPeers = 2
  MaxBackoff = 2
  IntBits = 4
  Rotate = TRUE
  MaxTasks = 2
INVARIANTS
  TypeOK
  FileKnown
PROPERTY
  RoundRobin
