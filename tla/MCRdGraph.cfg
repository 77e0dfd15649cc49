SPECIFICATION Spec
CONSTANTS
  Nodes <- MCNodes
  MaxNodes = 4
  BarrierAll = FALSE
INVARIANTS TypeOK BarriersAreExact RecordsOnIdleDevice
PROPERTY SubmitsWholeGraph
