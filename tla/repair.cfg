CONSTANTS
  p1 = p1
  p2 = p2
  p3 = p3
  full = full
  empty = empty
  unused = unused
  Paths <- MCPaths
  Contents <- MCContents
  Size <- MCSize
  Databases <- MCDatabases
  MaxCalls = 2
  MaxChanges = 2
SPECIFICATION Spec
INVARIANTS
  RepairTypeOK
  ReportsTrue
  VerifyFindsDamage
  DeathsExplained
