SPECIFICATION ProcessSpec
CONSTANTS
  MaxGeneration = 2
  MaxHeld = 1
  MaxCalls = 4
CHECK_DEADLOCK FALSE
INVARIANTS
  OwnerIsTrue
  ReportIsTrue
PROPERTIES
  ShutdownEndsProcess
