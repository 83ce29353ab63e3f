SPECIFICATION Spec
CONSTANTS
  k1 = k1
  k2 = k2
  s1 = s1
  s2 = s2
  Key = {k1, k2}
  Shard = {s1, s2}
  ShardOf <- ShardPerKey
  Reader = {}
  MaximumMemtableSizeInBytes = 9
  LevelZeroCompactionTriggerCount = 9
  EnableDiskDurability = TRUE
  Queues = {"single"}
  Deletes = {TRUE, FALSE}
  Ttls = {FALSE}
  Faults = {"walWrite"}
  MaxWrites = 3
  MaxBatch = 2
  MaxCrashes = 2
INVARIANT AckedVisible
