SPECIFICATION DispatcherSpec
CONSTANTS
  r1 = r1
  r2 = r2
  Runs = {r1}
  NoRun = NoRun
  SourceIds = {e}
  Seqs = {1}
  MaxRevision = 1
  MaxGeneration = 1
  MaxHeld = 0
  MaxMcp = 1
  MaxShutdowns = 1
  Commands <- ControlCommands
  Redelivered <- ControlCommands
  Deliveries = {"ok", "failed"}
  Interruptions = {"signal", "failure"}
INVARIANTS
  TerminalAfterMcpWork
PROPERTIES
  FailedMcpFailsRun
  ControlEnds
