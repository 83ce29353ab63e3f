SPECIFICATION FairReadSpec
CONSTANTS
  k1 = k1
  k2 = k2
  s1 = s1
  s2 = s2
  Key = {k1}
  Shard = {s1}
  ShardOf <- OneShard
  Reader = {r1}
  MaximumMemtableSizeInBytes = 1
  LevelZeroCompactionTriggerCount = 1
  EnableDiskDurability = TRUE
  Queues = {"single", "batch"}
  Deletes = {FALSE}
  Ttls = {FALSE}
  Faults = {}
  MaxWrites = 2
  MaxBatch = 2
  MaxCrashes = 0
  KeyCacheCapacityCount = 1
PROPERTY ReadsEnd
PROPERTY BatchesEnd
PROPERTY TablesAreFlushed
PROPERTY LevelZeroIsCompacted
