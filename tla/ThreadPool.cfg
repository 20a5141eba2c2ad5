\* One active container and its spare, three threads.
SPECIFICATION FairPoolSpec
CONSTANTS
  NActive = 1
  NSpare = 1
  Worker = {w1, w2, w3}
  NoWorker = NoWorker
  NoEndpoint = NoEndpoint
INVARIANTS
  PoolTypeOK
  SomeoneLooks
PROPERTIES
  PoolServes
  LeasingGoesOn
