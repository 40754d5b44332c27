\* Two overlapping refreshes of one user, SQLite's reused row ids.
CONSTANTS
  Users = {alice}
  Streams = {s1}
  Requests = {r1, r2}
  MsgIds = {1, 2}
  Keys = {k1, k2}
  Confidences = {1, 2}
  MaxEvidence = 1
  MaxBatch = 2
  ErrorCodes = {memory_provider_error}
  BootstrapThreshold = 1
  MinUnprocessed = 1
  ExtractLimit = 2
  MaxItems = 2
  MinConfidence = 1
  NoError = NoError
  NoMessage = NoMessage
  NoRequest = NoRequest
SYMMETRY Symmetry
SPECIFICATION Spec
CHECK_DEADLOCK FALSE
INVARIANTS TypeOK ProcessedIsClean LockInsideLoopRun ItemsBounded SameKeySameBatch
PROPERTIES MemoryMovesWithItsBatch TrimKeepsTheBest SurvivorsGrow ImplementsMemoryStore
