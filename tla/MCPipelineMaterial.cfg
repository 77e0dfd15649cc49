SPECIFICATION Spec
CONSTANTS
  Opts <- MCOpts
  PenExternals = {FALSE}
  ForwardFails = FALSE
  Strokes = 2
  FitPhases = 2
  MaxRuns = 2
INVARIANT DrapesOwnMaterial
CHECK_DEADLOCK FALSE
