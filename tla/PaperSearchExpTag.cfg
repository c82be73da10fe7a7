\* The [EXP] tag against expansions that fail.
CONSTANTS
  p1 = p1
  p2 = p2
  p3 = p3
  q1 = q1
  q2 = q2
  Papers <- MCPapers2
  Queries <- MCQueries1
  Abstractless = {}
  MaxSteps = 3
  MaxParallel = 2
  TopK = 1
  One = 1
  Threshold = 1
  Discrete = TRUE
  SearchCost = 1
  ExpandCost = 0
  Penalty = 1
SPECIFICATION Spec
INVARIANT ExpTagMeansExpanded
