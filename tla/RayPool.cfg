\* Two active containers and a spare, three workers.
CONSTANTS
  NActive = 2
  NSpare = 1
  Worker = {w1, w2, w3}
  Token = {t1, t2, t3}
  NoToken = NoToken
  RecoveryEnabled = TRUE
  InitLimit = 1
  TeardownLimit = 1
  RecoveryLimit = 1

SPECIFICATION Spec
SYMMETRY Symmetry

INVARIANTS
  TypeOK
  LeaseExclusive
  SomebodyMoves
  SlotsSound
  RecoveryOwnsContainer
  NoLostWakeup
PROPERTIES
  RestartKeepsQuarantine
  ServiceSpec
