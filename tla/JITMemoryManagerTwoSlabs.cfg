CONSTANTS
  f1 = f1
  f2 = f2
  Functions = {f1, f2}
  NoFunction = NoFunction
  NoBlock = NoBlock
  Requests = {0, 17}
  CodeSizes = {3}
  DefaultCodeSlabSize = 18
  PageSize = 2
  SlabGaps = {0}
  MaxSlabs = 2
SPECIFICATION Spec
SYMMETRY FunctionSymmetry
CHECK_DEADLOCK FALSE
INVARIANTS
  LastBlocksUntouched
PROPERTIES
  OffersRequested
  HeapSpec
