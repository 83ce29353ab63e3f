SPECIFICATION Spec
CONSTANTS
  NumCases = 2
  Mode <- CaseMode
  LoadType <- CaseLoad
  SingleOps = 1
  BatchTotal = 3
  BatchSize = 2
  StressOps <- FiveOps
  StressLag = 4
  Durations = {0, 1}
  MaxData = 1
  MaxInterrupts = 2
INVARIANT NoContainerLeft
INVARIANT CountsAreHonest
INVARIANT StressMissesAreEarly
INVARIANT CompletedCasesAreSaved
INVARIANT ReportedDiskAddsUp
INVARIANT ExitMeansReport
PROPERTY OrchestratorEnds
