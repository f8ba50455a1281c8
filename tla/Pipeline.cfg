SPECIFICATION PipelineSpec
CONSTANTS
  Main <- MCMain
  Import <- MCImport
  Dirs <- MCDirs
  Exists <- MCExists
  Packages <- MCPackages
  Projects <- MCProjects
  Digits <- MCDigits
  Words <- MCWords
  Number <- MCNumber
  Width = 4
  Precision = 2
  MaxUses = 2
INVARIANTS
  ContextTypeOK
  ImportsAreTheClosure
  StreamsMatchCalls
  ReportsEveryMiss
  PipelineTypeOK
  TreeFitsTheTokens
  NothingLostSilently
  ImportsAgree
  DiesForACause
  OptimizedMeansTheSame
PROPERTIES
  PipelineEnds
CHECK_DEADLOCK FALSE
