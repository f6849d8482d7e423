SPECIFICATION EngineFairSpec
CONSTANTS
  PeerURL = {a, b}
  Runner = {r1}
  MaxTrackedPeers = 2
  MaxSaves = 1
  MaxLag = 0
  MaxBlocks = 0
  MaxTime = 2
PROPERTY
  EveryPeerServed
