SPECIFICATION ReadSpec
CONSTANTS
  k1 = k1
  k2 = k2
  s1 = s1
  s2 = s2
  Key = {k1, k2}
  Shard = {s1}
  ShardOf <- OneShard
  Reader = {r1, r2}
  MaximumMemtableSizeInBytes = 1
  LevelZeroCompactionTriggerCount = 9
  EnableDiskDurability = TRUE
  Queues = {"single"}
  Deletes = {FALSE}
  Ttls = {FALSE}
  Faults = {}
  MaxWrites = 2
  MaxBatch = 1
  MaxCrashes = 0
  KeyCacheCapacityCount = 2
INVARIANT FreshSearch
INVARIANT CacheFreshUnlessRaced
INVARIANT CacheWellFormed
