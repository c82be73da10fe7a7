\* Three trajectories of one or two steps, four rows at most, padded to five.
CONSTANTS
  NumTrajs = 3
  MaxSteps = 2
  RespLen = 2
  Prompts <- MCPrompts
  PromptOf <- MCPromptOf
  Anchors <- MCAnchors
  AnchorOf <- MCAnchorOf
  ValueOf <- MCValueOf
  Gamma = 2
  Lambda = 3
  StepWeight = 2
  Divisor = 5
  MaxRows = 4
  MaxMoved = 2
  Scores = {0, 1}
  ScaleFactors = {2}
SPECIFICATION Spec
INVARIANT PadsAreMaskedOut
