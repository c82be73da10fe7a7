\* Two workers with three trajectories each over one environment each, so two wait;
\* a batch of one does not fill the workers, one of three fills them unevenly.
CONSTANTS
  NumWorkers = 2
  PoolSize = 1
  MaxSteps = 2
  BatchSizes = {1, 3, 6}
SPECIFICATION FairSpec
INVARIANTS
  TypeOK
  LeasesAreExclusive
  PlaysOwnEpisode
  NoWaitWhileFree
  RowsMatchSamples
  QuietBetweenBatches
PROPERTY EveryBatchEnds
