SPECIFICATION FairSpec
CHECK_DEADLOCK FALSE
CONSTANTS
  main = main
  leaf = leaf
  blank = blank
  count = count
  typeinfo = typeinfo
  None = None
  Functions = {main, leaf}
  Variables = {blank, count, typeinfo}
  Undefined = {blank}
  Pool <- MCPool
  Code <- MCCode
  Table <- MCTable
  ConstantRefs <- MCConstantRefs
  Relocations <- MCRelocations
  TypeInfos <- MCTypeInfos
  Size <- MCSize
  Initializer <- MCInitializer
  Engines <- MCEngines
  MaxBlocks = 6
  Spare = 2
  Stride = 100
INVARIANTS TypeOK EmittedWhole EmittedApart
PROPERTIES HeapUse EmissionEnds
