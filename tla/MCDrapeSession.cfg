SPECIFICATION Spec
CONSTANTS
  Gravities = {1, 2}
  Settles = {0, 1}
  Refresh = 2
  SelfCollision = TRUE
  SelfPasses = 2
  Runs = {"submitted", "instant", "failed"}
  ShortReads = {"gradients"}
  LiveConfig = FALSE
  MaxStages = 2
  MaxSteps = 3
  MaxOps = 4
INVARIANTS TypeOK FitReturnsWhatItBorrows HonestVerdict BackwardSeesWholeForward RuleFour
PROPERTIES KeepsItsQueue ConvergesAtACycle GoesIdle
