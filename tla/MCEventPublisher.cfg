SPECIFICATION PublisherSpec
CONSTANTS
  Batches <- MCBatches
  Endings <- MCEndings
  Unsupported = {"bad"}
  MaxPending = 3
  MaxCalls = 3
  MaxRuns = 2
CHECK_DEADLOCK FALSE
INVARIANTS
  CallsAreServed
PROPERTIES
  RefinesEventLog
