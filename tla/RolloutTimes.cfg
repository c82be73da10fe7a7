\* Two workers with one trajectory each.
CONSTANTS
  NumWorkers = 2
  PoolSize = 1
  MaxSteps = 2
  BatchSizes = {2}
SPECIFICATION Spec
INVARIANT TimesAreTheTrajectories
