SPECIFICATION ItemsSpec
CONSTANTS
  AcpNatives = {"n1", "n2"}
  AcpTools = {"t1", "t2"}
  AcpMaxIds = 3
  AcpRetained = 2
  CiNatives = {"n1"}
  CiWires = {"w1", "w2"}
  CiMaxFrames = 3
  OiItems = {"i1", "i2"}
  OiMaxFrames = 3
  UsMax = 3
  MaxSize = 3
  MaxBytes = 3
  ReserveSize = 2
  ReserveBytes = 2
  MaxBatch = 3
  MaxPushed = 6
  MaxCalls = 6
CHECK_DEADLOCK FALSE
INVARIANTS
  TurnIsToldWhole
  ChargesAreTrue
  QueueIsTrue
