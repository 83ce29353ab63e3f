SPECIFICATION Spec
CONSTANTS
  Key = {"test", "c1", "a&b"}
  Value = {"value", "quoted"}
  Reserved = {"a&b"}
  Unescaped = {"quoted"}
  ConfigToken <- NoToken
  Client = {"alice"}
  ClientKeys = {"test", "a&b"}
  MaxCalls = 2
  TestKey = "test"
  TestValue = "value"
  CriticalKeys <- TwoKeys
  BenchKey = "c1"
  BenchPuts = 1
  BenchBatches = 1
  BenchBatchSize = 2
INVARIANT EffectsAreReported
 
INVARIANT TestsTellTruth
INVARIANT ArtifactsMatchExit
PROPERTY TestEnds
