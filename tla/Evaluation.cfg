\* One container, two threads, two jobs, two attempts, and the
\* evaluation run twice.
SPECIFICATION FairSpec
CONSTANTS
  NActive = 1
  NSpare = 0
  Worker = {w1, w2}
  NoWorker = NoWorker
  NoEndpoint = NoEndpoint
  Job = {j1, j2}
  NoJob = NoJob
  MaxAttempts = 2
  RecordFailure = TRUE
  MaxRuns = 2
INVARIANTS
  EvaluationTypeOK
  RecordedOnce
  ReturnsComplete
  CleanHandOver
  LeaseReturned
PROPERTIES
  EvaluationEnds
CHECK_DEADLOCK FALSE
