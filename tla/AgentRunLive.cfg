\* One container, two runs of two attempts.
CONSTANTS
  NActive = 1
  NSpare = 0
  Worker = {w1, w2}
  Token = {t1, t2}
  NoToken = NoToken
  RecoveryEnabled = TRUE
  InitLimit = 1
  TeardownLimit = 1
  RecoveryLimit = 1
  MaxAttempts = 2

SPECIFICATION AgentFairSpec
\* Nothing moves any more when every run has leaked its container.
CHECK_DEADLOCK FALSE

PROPERTY RunEnds
