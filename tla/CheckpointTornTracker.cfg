\* Five training steps of an epoch of six batches, two checkpoints kept.
CONSTANTS
  TotalSteps = 5
  EpochLength = 6
  SaveFreq = 2
  MaxKeep = 2
  CriticWarmup = 2
SPECIFICATION Spec
INVARIANT NoStartIsRefused
