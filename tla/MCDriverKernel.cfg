SPECIFICATION KernelSpec
CONSTANTS
  Runs = {r1}
  SourceIds = {p1, p2}
  Seqs = {1}
  NoRun = NoRun
  MaxRevision = 2
  MaxGeneration = 0
  MaxHeld = 0
  MaxCalls = 3
  Inputs = {c1,c2}
  Pushes = {p1, p2}
  MaxQueue = 1
  MaxStops = 2
CHECK_DEADLOCK FALSE
CONSTANT PushedStatuses = {"completed"}
INVARIANTS
  NothingLeftPending
  FailureIsTold
  ReportedOutcomeIsPublished
PROPERTIES
  StopIsAnswered
