SPECIFICATION ReadSpec
CONSTANTS
  k1 = k1
  k2 = k2
  s1 = s1
  s2 = s2
  Key = {k1, k2}
  Shard = {s1}
  ShardOf <- OneShard
  Reader = {r1}
  MaximumMemtableSizeInBytes = 1
  LevelZeroCompactionTriggerCount = 1
  EnableDiskDurability = FALSE
  Queues = {"single"}
  Deletes = {FALSE}
  Ttls = {TRUE, FALSE}
  Faults = {"merge"}
  MaxWrites = 2
  MaxBatch = 1
  MaxCrashes = 0
  KeyCacheCapacityCount = 1
INVARIANT NothingDropped
