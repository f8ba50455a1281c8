SPECIFICATION Spec
CONSTANTS
  Byte = 8
  VALUES = 5
  Orderings = {"LT"}
  Trees <- MCLess
  Rodata <- MCRodata
INVARIANTS
  LessIsLess
CHECK_DEADLOCK FALSE
