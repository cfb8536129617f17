SPECIFICATION TurnsSpec
CONSTANTS
  AcpMaxUpdates = 2
  AcpTerminalIds = {"t1", "t2"}
  AcpMaxTerminals = 1
  ClMaxMessages = 1
  OaMaxQueue = 2
CHECK_DEADLOCK FALSE
INVARIANTS
  NothingLeftBehind
PROPERTIES
  BackendsKeepContract
  TurnsEnd
