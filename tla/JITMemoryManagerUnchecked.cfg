CONSTANTS
  f1 = f1
  f2 = f2
  Functions = {f1, f2}
  NoFunction = NoFunction
  NoBlock = NoBlock
  Requests = {0, 5}
  CodeSizes = {3, 5}
  DefaultCodeSlabSize = 28
  PageSize = 1
  SlabGaps = {0}
  MaxSlabs = 1
SPECIFICATION SpecUnchecked
CHECK_DEADLOCK FALSE
INVARIANT LastBlocksUntouched
