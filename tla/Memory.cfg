SPECIFICATION Spec
CONSTANTS
  bytes = bytes
  rodata = rodata
  Array = {bytes, rodata}
  Object = {o1}
  ElemSize <- MCElemSize
  Item = {x}
  Junk = Junk
  MEM_STACK_SIZE = 12
  SMALL = 4
  MIN = 2
  MaxLen = 9
INVARIANTS
  MemTypeOK
  BlocksDisjoint
  KeepsContents
CHECK_DEADLOCK FALSE
