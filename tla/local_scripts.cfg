SPECIFICATION Spec
CONSTANTS
  MaxStrangers = 1
  SingleCount = 3
  SingleWorkers = 2
  BatchItems = 5
  BatchLen = 2
  BatchWorkers = 1
  StartAttempts = 2
  MaxInterrupts = 2
  PutCount = 2
  BatchCount = 2
  BatchKeys = 2
  EnablePprof = FALSE
  MaxProfileInterrupts = 2
INVARIANT CountsHold
INVARIANT DrainedBeforeStop
INVARIANT QuickResultsComplete
INVARIANT NoServerLeft
INVARIANT ProfileExitZero
PROPERTY ScriptsEnd
PROPERTY PortIsReleased
