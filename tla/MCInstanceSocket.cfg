SPECIFICATION SocketSpec
CONSTANTS
  Runs = {r1}
  SourceIds = {e}
  Seqs = {1}
  NoRun = NoRun
  MaxRevision = 1
  EventIds = {s1, s2}
  MaxBatch = 2
  MaxPushes = 2
  MaxRetained = 2
  ClaimSources = {"session.stop"}
  MaxReports = 1
CHECK_DEADLOCK FALSE
INVARIANTS
  UnknownKeepsEnvelope
  HostLogIsTrue
