SPECIFICATION Spec
CONSTANTS
  ByteBits = 3
  Short = 2
  Word = 2
  Long = 2
  Wide = 2
  header <- MCHeader
  version = 0
  footer <- MCFooter
  Basis = 5
  Prime = 19
  Scale = 100
  Fine = 2
  Tag <- MCTag
  Programs <- MCPrograms
INVARIANTS
  ReadsWhatWasWritten
  NothingHalfReadRuns
CHECK_DEADLOCK FALSE
