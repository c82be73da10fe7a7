\* Four turns: enough to open a product, choose, open the other one and buy it, or to
\* search, open, choose and buy.
CONSTANTS
  Items <- MCItems
  Names <- MCNames
  Values <- MCValues
  Options <- MCOptions
  Queries <- MCQueries
  Hits <- MCHits
  Goals <- MCGoals
  Window = 1
  MaxSteps = 4
  SuccessReward = 10
  Penalty = 1
  Junk = "junk"
SPECIFICATION Spec
INVARIANTS
  PromptIsCurrent
  PaidForItsClicks
CHECK_DEADLOCK FALSE
