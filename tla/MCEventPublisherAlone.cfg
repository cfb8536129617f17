SPECIFICATION PublisherSpec
CONSTANTS
  Batches <- MCBatches
  Endings <- MCEndings
  Unsupported = {"bad"}
  MaxPending = 3
  MaxCalls = 3
  MaxRuns = 2
INVARIANT
  TerminalTravelsAlone
CHECK_DEADLOCK FALSE
