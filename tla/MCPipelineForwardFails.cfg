SPECIFICATION Spec
CONSTANTS
  Opts <- MCOpts
  PenExternals = {FALSE}
  ForwardFails = TRUE
  Strokes = 2
  FitPhases = 2
  MaxRuns = 2
INVARIANT DoneIsAccounted
CHECK_DEADLOCK FALSE
