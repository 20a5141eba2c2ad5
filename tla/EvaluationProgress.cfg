\* One attempt, one run: a worker thread dies over its progress file.
SPECIFICATION FairSpec
CONSTANTS
  NActive = 1
  NSpare = 0
  Worker = {w1, w2}
  NoWorker = NoWorker
  NoEndpoint = NoEndpoint
  Job = {j1, j2}
  NoJob = NoJob
  MaxAttempts = 1
  RecordFailure = FALSE
  MaxRuns = 1
INVARIANT
  PartialNeverReturned
CHECK_DEADLOCK FALSE
