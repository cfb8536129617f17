SPECIFICATION ReadersSpec
CONSTANTS
  Runs = {r1, r2}
  SourceIds = {e1, e2}
  Seqs = {1}
  NoRun = NoRun
  MaxRevision = 2
  CmCommands = {c1}
  CmPosts = {p1, p2}
  CmRequests = {q1, q2}
  NoRequest = NoRequest
  CmMaxEvents = 4
  CmMaxSaid = 2
  CmStreams = {1, 2}
  CmMaxStreams = 1
  CmMaxPending = 1
  SlMaxRevision = 2
  SlMaxProposals = 1
  PvMaxChunks = 3
  PvMaxUpdates = 3
CHECK_DEADLOCK FALSE
INVARIANTS
  CancelledNeverCompleted
  ReadersSeeTheTruth
  NothingHappensTwice
PROPERTIES
  RefinesRunOutcome
  EndsStand
  ReadersCatchUp
