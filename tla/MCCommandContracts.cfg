SPECIFICATION ContractsSpec
CONSTANTS
  Commands = {c1}
  DeliveryCalls = {k1, k2, k3}
  NoCall = NoCall
  Terminals = {"completed", "failed"}
  MaxTracked = 1
  MaxAttempts = 2
  MaxLives = 3
  Permissions = {r1, r2}
  MaxPending = 2
  MaxWaits = 1
  MaxCalls = 2
  MaxOwners = 3
CHECK_DEADLOCK FALSE
INVARIANTS
  VerdictStands
  CalledAtMostOnce
  VerdictIsTrue
  RequestsAreSettled
  StopsAreOrderly
PROPERTIES
  RefinesContract
  NobodyWaitsForEver
