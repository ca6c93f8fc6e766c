CONSTANTS
  t1 = t1
  t2 = t2
  t3 = t3
  GlobalContext = GlobalContext
  PSVs = PSVs
  TimerLock = TimerLock
  TTI = TTI
  Threads <- MCThreads
  Statics <- MCStatics
  CreatorUses <- MCCreatorUses
  DeleterUses <- MCDeleterUses
  Null = Null
SPECIFICATION FairSpec
INVARIANTS
  TypeOK
  CreatorsSerialized
  OneObject
  AssertsHold
  ListIntact
PROPERTIES
  ShutdownClean
  ObjectsSpec
  CallsReturn
