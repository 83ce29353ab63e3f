SPECIFICATION Spec
CONSTANTS
  k1 = k1
  k2 = k2
  s1 = s1
  s2 = s2
  Key = {k1, k2}
  Shard = {s1}
  ShardOf <- OneShard
  Reader = {}
  MaximumMemtableSizeInBytes = 1
  LevelZeroCompactionTriggerCount = 9
  EnableDiskDurability = TRUE
  Queues = {"single"}
  Deletes = {FALSE}
  Ttls = {FALSE}
  Faults = {"walWrite", "flush"}
  MaxWrites = 4
  MaxBatch = 2
  MaxCrashes = 0
INVARIANT AckedVisible
INVARIANT LogsCoverMemory
PROPERTY ImmutableTablesFrozen
PROPERTY ImplementsStore
