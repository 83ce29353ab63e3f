SPECIFICATION Spec
CONSTANTS
  k1 = k1
  k2 = k2
  s1 = s1
  s2 = s2
  Key = {k1, k2}
  Shard = {s1, s2}
  ShardOf <- ShardPerKey
  Reader = {}
  MaximumMemtableSizeInBytes = 1
  LevelZeroCompactionTriggerCount = 2
  EnableDiskDurability = TRUE
  Queues = {"single"}
  Deletes = {FALSE}
  Ttls = {FALSE}
  Faults = {"walRotate", "flush", "merge"}
  MaxWrites = 3
  MaxBatch = 1
  MaxCrashes = 1
INVARIANT TypeOK
INVARIANT ChronologicalTables
INVARIANT VersionsFollowAge
INVARIANT FlushedTableIsHead
INVARIANT NoLostWakeup
INVARIANT TablesHaveFiles
