SPECIFICATION FairSpec
CONSTANTS
  ID = {1, 2}
  Tag = {"global"}
  MaxWF = 1
  TTL <- MCTTL
  Slot <- MCSlot
  MaxBloomPow = 1
  Workloads <- MCWorkloads
  PowFloor = 0
  RelayFloor = 0
  Limits <- MCLimits
  PageSize = 1
  RelayLag = 1
  MaxPutDelay = 1
  MaxTime = 3
INVARIANTS
  TypeOK
  PullComplete
  PushComplete
PROPERTY
  Delivered
