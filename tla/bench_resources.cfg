SPECIFICATION Spec
CONSTANTS
  NumCases = 1
  Mode <- CaseMode
  LoadType <- CaseLoad
  SingleOps = 1
  BatchTotal = 3
  BatchSize = 2
  StressOps <- FiveOps
  StressLag = 4
  Durations = {1}
  MaxData = 1
  MaxInterrupts = 0
INVARIANT ReportShowsMeasuredResources
