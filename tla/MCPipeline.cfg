SPECIFICATION Spec
CONSTANTS
  Opts <- MCOpts
  PenExternals = {FALSE, TRUE}
  ForwardFails = FALSE
  Strokes = 2
  FitPhases = 2
  MaxRuns = 2
INVARIANTS TypeOK DoneIsAccounted NeverCallsBusy
PROPERTY RunEnds
CHECK_DEADLOCK FALSE
