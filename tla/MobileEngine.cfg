SPECIFICATION EngineSpec
CONSTANTS
  PeerURL = {a}
  Runner = {r1, r2}
  MaxTrackedPeers = 1
  MaxSaves = 2
  MaxLag = 1
  MaxBlocks = 1
  MaxTime = 3
INVARIANTS
  EngineTypeOK
  OnlyLateLost
