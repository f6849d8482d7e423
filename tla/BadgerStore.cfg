SPECIFICATION FairSpec
CONSTANTS
  ID = {1}
  Tag = {"physical"}
  MaxWF = 1
  TTL <- MCTTL
  Thread = {t1, t2}
  StorageLimit = 4
  BlockSize = 2
  Reservation <- MCReservation
  EvictBatch = 1
  DefaultLimit = 8
  SizeReports = {4, 5}
  MaxTime = 3
INVARIANTS
  TypeOK
  BlockIndexed
  TombExcludesBlock
  OrphanOnlyByEviction
PROPERTIES
  WorkNeverLost
  ImplementsBlockStore
  PutReturns
