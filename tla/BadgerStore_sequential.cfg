SPECIFICATION Spec
CONSTANTS
  ID = {1, 2, 3}
  Tag = {"physical", "global"}
  MaxWF = 1
  TTL <- MCTTL
  Thread = {t1}
  StorageLimit = 4
  BlockSize = 2
  Reservation <- MCReservation
  EvictBatch = 1
  DefaultLimit = 8
  SizeReports = {4, 7}
  MaxTime = 2
INVARIANTS
  NoOrphan
PROPERTIES
  ReservationRespected
  TombOutlivesBlock
