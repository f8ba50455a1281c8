SPECIFICATION Spec
CONSTANTS
  fun = fun
  nil = nil
  Value <- MCValue
  Function <- MCFunction
  Truthy <- MCFunction
  Entry <- MCEntry
  Argc <- MCArgc
  FrmSize <- MCFrmSize
  Void = nil
  STK_CAP = 3
  FRM_CAP = 3
  MaxCode = 4
  ArgRead = {"after"}
INVARIANTS
  TypeOK
  FrameNesting
PROPERTIES
  CallerUntouched
  ImplementsCallStack
