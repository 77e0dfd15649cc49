SPECIFICATION Spec
CONSTANTS
  Gravities = {1, 2}
  Settles = {1}
  Refresh = 2
  SelfCollision = TRUE
  SelfPasses = 2
  Runs = {"submitted", "failedInFlight"}
  ShortReads = {}
  LiveConfig = FALSE
  MaxStages = 2
  MaxSteps = 3
  MaxOps = 4
PROPERTY GoesIdle
