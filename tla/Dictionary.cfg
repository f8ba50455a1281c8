SPECIFICATION Spec
CONSTANTS
  a = a
  b = b
  c = c
  Void = Void
  Tombstone = Tombstone
  None = None
  Key = {a, b, c}
  Value = {Void, Tombstone}
  Hash <- MCHash
  With <- MCWith
  MaxCap = 8
INVARIANTS
  DictTypeOK
PROPERTIES
  ImplementsValueMap
  CallsReturn
CHECK_DEADLOCK FALSE
