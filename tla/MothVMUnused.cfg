SPECIFICATION Spec
CONSTANTS
  Object = {o1, o2}
  Scalar = Scalar
  Junk = Junk
  Free = Free
  None = None
  GC_INIT_CAP = 1
  Symbol = {s}
  MaxStack = 3
  MaxSize = 1
INVARIANTS
  FreesOnlyUnused
CHECK_DEADLOCK FALSE
