\* One request: requests have a context and a run of their own and share nothing
\* that these properties are about.
CONSTANTS
  Requests = {r1}
  MaxModels = 2
  MaxLost = 2
SPECIFICATION FairSpec
INVARIANTS TypeOK ResponseTellsIfSaved DegradedMeansNoModelText OpenRunsLostAWrite FailuresWereMadeUpFor
PROPERTIES ImplementsTraceRun EveryRequestEnds
\* Every request is answered or lost in the end, and the model has no others.
CHECK_DEADLOCK FALSE
