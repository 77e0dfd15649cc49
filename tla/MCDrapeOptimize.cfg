SPECIFICATION Spec
CONSTANTS
  MaxIterations = 2
  MaxLinesearch = 2
  VecFails = TRUE
  HostMixes = FALSE
  ForwardFails = {"midStep"}
  MaxSteps = 2
  MaxOps = 3
CHECK_DEADLOCK FALSE
INVARIANTS TypeOK VectorsAreOfOnePoint
PROPERTIES EvaluationIsOwn OptimizeEnds
