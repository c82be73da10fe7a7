\* Ten trajectories in batches of three: the last batch is of one.
CONSTANTS
  Total = 10
  BatchSize = 3
  RewardModelEnabled = TRUE
SPECIFICATION Spec
INVARIANTS
  TypeOK
  CompleteIsWhole
  CompletedIsPublished
  ExactBetweenBatches
