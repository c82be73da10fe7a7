\* Five training steps of an epoch of six batches, two checkpoints kept; the actor is updated from
\* the second step on.
CONSTANTS
  TotalSteps = 5
  EpochLength = 6
  SaveFreq = 2
  MaxKeep = 2
  CriticWarmup = 2
SPECIFICATION Spec
INVARIANTS
  TypeOK
  TrackedIsWhole
  ResumesWhereItStopped
  KeepsTheNewest
