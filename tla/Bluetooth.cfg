SPECIFICATION FairSpec
CONSTANTS
  ID = {1, 2}
  Tag = {"bluetooth"}
  MaxWF = 1
  TTL <- MCTTL
  Slot <- MCSlot
  MaxBloomPow = 1
  Side = {a, b}
  Holdings <- MCHoldings
  Workloads <- MCWorkloads
  PageSize = 1
  Cap = 1
INVARIANTS
  TypeOK
  DoneMeansAll
  OnlyMissingSent
PROPERTY
  SessionEnds
CHECK_DEADLOCK FALSE
