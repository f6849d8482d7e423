SPECIFICATION FairSpec
CONSTANTS
  ID = {1, 2, 3}
  Tag = {"physical"}
  MaxWF = 1
  TTL <- MCTTL
  Proc = {"loop", "t1", "t2", "t3", "ix"}
  Users <- MCUsers
  LimitOf <- MCLimitOf
  FileSize = 2
  EvictSlack = 0
  ShardThreshold = 2
  Shard <- MCShard
  OldFiles <- MCOld
  MaxTime = 2
  Loop = "loop"
  LocalBlocks <- MCLocal
  ToolBlocks <- MCTool
  Indexers = {"t3", "ix"}
  VisitBlocks <- MCVisit
  PageSize = 1
INVARIANTS
  TypeOK
  AtomicReplace
  IndexComplete
  LookupsAgree
PROPERTIES
  WorkKeptAlone
  RoundComplete
  Carried
