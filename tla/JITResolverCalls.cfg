CONSTANTS
  t1 = t1
  t2 = t2
  main = main
  leaf = leaf
  helper = helper
  puts = puts
  NoThread = NoThread
  NoFunction = NoFunction
  Threads <- MCTwoThreads
  Functions <- MCDiamond
  Calls <- MCDiamondCalls
  External <- MCExternal
  LazyModes = {TRUE, FALSE}
  DlsymStubs = FALSE
  ClientOps = {}
  MaxStubs = 5
  MaxCodes = 4
  MaxRetries <- MCLeafRetries
SPECIFICATION FairSpec
CHECK_DEADLOCK FALSE
INVARIANT TypeOK
INVARIANT NoCallLost
INVARIANT OneBody
INVARIANT StubsAgree
INVARIANT Settled
INVARIANT PendingNotGenerated
PROPERTY CallsSpec
PROPERTY CallsArrive
