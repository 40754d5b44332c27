\* Every refresh ends, however two of them, ingest and reset interleave.
CONSTANTS
  Users = {alice}
  Streams = {s1}
  Requests = {r1, r2}
  MsgIds = {1, 2}
  Keys = {k1}
  Confidences = {1}
  MaxEvidence = 1
  MaxBatch = 1
  ErrorCodes = {memory_provider_error}
  BootstrapThreshold = 1
  MinUnprocessed = 1
  ExtractLimit = 1
  MaxItems = 1
  MinConfidence = 1
  NoError = NoError
  NoMessage = NoMessage
  NoRequest = NoRequest
SPECIFICATION FairSpec
CHECK_DEADLOCK FALSE
PROPERTIES EveryRefreshEnds
