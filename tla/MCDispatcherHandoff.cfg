SPECIFICATION DispatcherSpec
CONSTANTS
  r1 = r1
  r2 = r2
  Runs = {r1, r2}
  NoRun = NoRun
  SourceIds = {e}
  Seqs = {1}
  MaxRevision = 2
  MaxGeneration = 2
  MaxHeld = 0
  MaxMcp = 1
  MaxShutdowns = 2
  Commands <- HandoffCommands
  Redelivered <- FirstInput
  Deliveries = {"ok", "failed"}
  Interruptions = {"signal"}
INVARIANTS
  NextRunWaits
  VerdictsAreFinal
  CancelTakesEffect
  RefusalsSpareWork
