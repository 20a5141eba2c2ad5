CONSTANTS
  NActive = 1
  NSpare = 1
  Worker = {w1, w2, w3}
  Token = {t1, t2, t3}
  NoToken = NoToken
  RecoveryEnabled = TRUE
  InitLimit = 1
  TeardownLimit = 1
  RecoveryLimit = 1

SPECIFICATION OperatorSpec
SYMMETRY Symmetry
VIEW View

INVARIANTS
  OperatorTypeOK
  LeasesWithinCapacity
PROPERTY
  VouchedStaysInService
