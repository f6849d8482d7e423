SPECIFICATION Spec
CONSTANTS
  ID = {1, 2}
  Tag = {"global"}
  MaxWF = 1
  TTL <- MCTTL
  Mine = {1, 2}
  Gift = {2}
  PageSize = 1
  MaxPutDelay = 1
  MaxTime = 3
  SendIDs = {1}
  Workloads <- MCWorkloads
INVARIANTS
  TypeOK
  NothingBehindCheckpoint
  SentKept
  BoostKept
