SPECIFICATION Spec
CHECK_DEADLOCK FALSE
CONSTANTS
  a = a
  w1 = w1
  w2 = w2
  c1 = c1
  c2 = c2
  Handles = {a, w1, w2, c1, c2}
  Values = {v1, v2}
  Users = {}
  Kind <- MCKind
  OwnOnly = TRUE
  MaxTables = 1
  MaxDepth = 2
  Null = Null
INVARIANT WatchesWalked
