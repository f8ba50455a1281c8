SPECIFICATION Spec
CONSTANTS
  Object = {o1, o2, o3}
  Scalar = Scalar
  Junk = Junk
  Free = Free
  None = None
  GC_INIT_CAP = 1
  Symbol = {}
  MaxStack = 3
  MaxSize = 1
SYMMETRY Addresses
INVARIANTS
  RegistryExact
  MarksMatchReachability
PROPERTIES
  FreesOnlyUnmarked
  CollectsAllUnmarked
CHECK_DEADLOCK FALSE
