SPECIFICATION Spec
CONSTANTS
  Drivers = {"g_job"}
  Scripts <- MCScripts
  MaxStages = 2
  MaxStarts = 3
  Replaces = TRUE
INVARIANTS TypeOK RuleFour VerdictOfTheScript
PROPERTIES SubmitsAreOwned Completes
