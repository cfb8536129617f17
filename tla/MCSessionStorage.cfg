SPECIFICATION StorageSpec
CONSTANTS
  SkMaxGeneration = 3
  SkMaxFaults = 2
  SkMaxCrashes = 1
  CpMaxRuns = 3
  CpCreators = {"a", "b"}
  CpMaxFaults = 2
  CpMaxCrashes = 1
  CpVerifies = FALSE
  RsMaxFaults = 2
  RsMaxCrashes = 1
  PsOwned = 4
  PsPids = {1, 2, 3}
  PsMaxUnreadable = 1
CHECK_DEADLOCK FALSE
INVARIANTS
  LeftAsPromised
PROPERTIES
  SkCatalogIsKept
  WorkIsFinished
