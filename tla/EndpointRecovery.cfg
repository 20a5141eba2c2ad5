\* Two endpoints share the file; two attempts; two crashes.
SPECIFICATION FairSpec
CONSTANTS
  Endpoint = {e1, e2}
  Attempts = 2
  MaxCrashes = 2
  NoPayload = NoPayload
INVARIANTS
  RecoveryTypeOK
  FileVouches
  VerdictOnFile
PROPERTIES
  LifecycleSpec
  RecoveryConcludes
