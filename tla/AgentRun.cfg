\* Two active containers and no spare; two runs with two attempts each.
CONSTANTS
  NActive = 2
  NSpare = 0
  Worker = {w1, w2}
  Token = {t1, t2}
  NoToken = NoToken
  RecoveryEnabled = TRUE
  InitLimit = 1
  TeardownLimit = 1
  RecoveryLimit = 1
  MaxAttempts = 2

SPECIFICATION AgentSpec
\* Nothing moves any more when every run has leaked its container.
CHECK_DEADLOCK FALSE
SYMMETRY Symmetry

INVARIANTS
  AgentTypeOK
  LeaseKept
  SoleDriver
  CleanHandOver
  LeaseReturned
  SlotsFollowStages
