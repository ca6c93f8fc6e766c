CONSTANTS
  t1 = t1
  t2 = t2
  main = main
  leaf = leaf
  helper = helper
  puts = puts
  NoThread = NoThread
  NoFunction = NoFunction
  Threads <- MCOneThread
  Functions <- MCDiamond
  Calls <- MCDiamondCalls
  External <- MCExternal
  LazyModes = {FALSE}
  DlsymStubs = TRUE
  ClientOps = {"free", "report", "recompile"}
  MaxStubs = 8
  MaxCodes = 7
  MaxRetries <- MCLeafRetries
SPECIFICATION Spec
CHECK_DEADLOCK FALSE
INVARIANT ReferencedKnown
INVARIANT ReportsFunction
INVARIANT PublishedFinished
