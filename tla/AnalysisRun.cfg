SPECIFICATION FairSpec
CONSTANTS
  Analyses = {a1, a2}
  Cancellable = {a1}
  Limited = {a1}
  MaxRetries = 2
  MaxRequests = 2
INVARIANTS TypeOK PathStays NoLeftovers
PROPERTIES CacheStaysWhole StopsSoon ServiceSpec EveryAnalysisEnds
CHECK_DEADLOCK FALSE
