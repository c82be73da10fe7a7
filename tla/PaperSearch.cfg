\* Two steps of two parallel calls over three papers and two queries; no symmetry,
\* which TLC does not support for the liveness property.
CONSTANTS
  p1 = p1
  p2 = p2
  p3 = p3
  q1 = q1
  q2 = q2
  Papers <- MCPapers3
  Queries <- MCQueries2
  Abstractless <- MCAbstractless
  MaxSteps = 2
  MaxParallel = 2
  TopK = 1
  One = 1
  Threshold = 1
  Discrete = FALSE
  SearchCost = 1
  ExpandCost = 0
  Penalty = 1
SPECIFICATION FairSpec
INVARIANTS
  TypeOK
  CreditedOnce
  PoolHasOneAuthor
  RewardBackedByPool
  ExpandedOnce
  RepeatedSearchPenalised
  StepTotalsAreCumulative
PROPERTIES
  PoolOnlyGrows
  Terminates
  ImplementsLedger
