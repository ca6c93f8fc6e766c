CONSTANTS
  f1 = f1
  f2 = f2
  Functions = {f1, f2}
  NoFunction = NoFunction
  NoBlock = NoBlock
  Requests = {0, 5}
  CodeSizes = {3, 5}
  DefaultCodeSlabSize = 28
  PageSize = 1
  SlabGaps = {0}
  MaxSlabs = 1
SPECIFICATION Spec
SYMMETRY FunctionSymmetry
CHECK_DEADLOCK FALSE
INVARIANTS
  TypeOK
  CheckInvariants
  Coalesced
  OneOwner
  NoAssertFails
