\* Four steps: enough for a cycle of two that is done twice.
SPECIFICATION Spec
CONSTANTS
  Screen = {s1, s2}
  Gesture = {tap}
  Configs <- MCConfigs
  MaxSteps = 4
  RepeatThreshold = 3
  MaxCycleLength = 2
  MaxCalls = 2
  CooldownSteps = 1
  NoChangeThreshold = 2
INVARIANTS
  StepTypeOK
  RescueSpaced
  LoopsAreExecuted
  RowsComplete
  NothingOrphaned
