\* Two active containers, one slot of each kind and one recovery at a time:
\* two lease holders compete for the slots, two broken containers for the
\* recovery semaphore.
CONSTANTS
  NActive = 2
  NSpare = 0
  Worker = {w1, w2}
  Token = {t1, t2}
  NoToken = NoToken
  RecoveryEnabled = TRUE
  InitLimit = 1
  TeardownLimit = 1
  RecoveryLimit = 1

SPECIFICATION FairSpec

PROPERTIES
  CallsReturn
  QuarantineResolved
