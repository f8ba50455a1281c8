SPECIFICATION Spec
CONSTANTS
  a = a
  b = b
  c = c
  d = d
  e = e
  Symbol = {a, b, c, d, e}
  Value = {v, w}
  Hash <- MCHash
  None = None
  Hosts <- MCHosts
  MaxLen = 5
INVARIANTS
  EnvTypeOK
PROPERTIES
  ImplementsSymbolMap
  OthersUntouched
  CallsReturn
