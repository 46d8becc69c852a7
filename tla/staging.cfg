CONSTANTS
  big = big
  small = small
  empty = empty
  other = other
  main = main
  extra = extra
  p1 = p1
  p2 = p2
  p3 = p3
  p4 = p4
  Contents <- MCContents
  Packages <- MCPackages
  Paths <- MCPaths
  Layouts <- MCLayouts
  TotalSize <- MCTotalSize
  Targets <- MCTargets
  MaxSize = 2
  MaxSlack = 1
  TransactionDataSize = 1
  MaxAttempts = 3
SPECIFICATION MCSpec
INVARIANTS
  SlicesInRange
  ReadsBounded
  RecordedFilesWhole
  StagedAlone
  CutsExplained
  CrashesHeal
