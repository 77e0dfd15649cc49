SPECIFICATION Spec
CONSTANTS
  Buffers = {b1, b2}
  Kernels = {k1, k2}
  Bindings = {"src", "dst"}
  Slots = {1, 2, 3, 4, 5, 6, 7, 8, 9, 10, 11, 12, 13, 14, 15}
  FirstCap = 1
  CreateFails = TRUE
  MaxDispatches = 2
  MaxOps = 5
SYMMETRY MCSymmetry
INVARIANTS TypeOK CachedSetsBindTheirKey RecordsLiveSets BoundToItsOwn NoSlotLeaks
