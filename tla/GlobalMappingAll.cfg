CONSTANTS
  g1 = g1
  g2 = g2
  g3 = g3
  m1 = m1
  m2 = m2
  GlobalValues <- MCGlobalValues
  Modules <- MCModules
  ModuleOf <- MCModuleOf
  Addresses = {a1, a2}
  Null = Null
SPECIFICATION Spec
SYMMETRY AddressSymmetry
INVARIANTS
  TypeOK
  ReverseComplete
  ReverseSound
PROPERTIES
  
  OnlySharingCaught
