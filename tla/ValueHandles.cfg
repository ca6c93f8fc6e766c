SPECIFICATION Spec
CHECK_DEADLOCK FALSE
CONSTANTS
  a = a
  w1 = w1
  w2 = w2
  c1 = c1
  c2 = c2
  Handles = {a, w1, c1}
  Values = {v1, v2}
  Users = {u}
  Kind <- MCKind
  OwnOnly = FALSE
  MaxTables = 2
  MaxDepth = 2
  Null = Null
SYMMETRY MCSymmetry
INVARIANTS ListsIntact OnlyMovesStray NoneMissed
