SPECIFICATION Spec
CONSTANTS
  Byte = 8
  VALUES = 5
  Orderings = {"EQ", "NEQ", "GT", "LTE"}
  Trees <- MCTrees
  Rodata <- MCRodata
INVARIANTS
  CodeTypeOK
  OnInstruction
  DoesWhatTheTreeSays
  ConstantsAreShared
  ScopesAreClosed
  ListingIsInStep
CHECK_DEADLOCK FALSE
