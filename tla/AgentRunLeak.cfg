\* The documented promise the handler of infrastructure failures breaks.
CONSTANTS
  NActive = 2
  NSpare = 0
  Worker = {w1, w2}
  Token = {t1, t2}
  NoToken = NoToken
  RecoveryEnabled = TRUE
  InitLimit = 1
  TeardownLimit = 1
  RecoveryLimit = 1
  MaxAttempts = 2

SPECIFICATION AgentSpec
SYMMETRY Symmetry
CHECK_DEADLOCK FALSE

INVARIANT LeaseAlwaysReturned
