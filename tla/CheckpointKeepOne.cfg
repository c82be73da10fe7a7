\* Five training steps of an epoch of six batches, one checkpoint kept.
CONSTANTS
  TotalSteps = 5
  EpochLength = 6
  SaveFreq = 2
  MaxKeep = 1
  CriticWarmup = 2
SPECIFICATION Spec
INVARIANT TrackedIsWhole
