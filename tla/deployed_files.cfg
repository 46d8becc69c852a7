CONSTANTS
  p1 = p1
  p2 = p2
  p3 = p3
  c1 = c1
  c2 = c2
  c3 = c3
  f1 = f1
  f2 = f2
  NoParent = NoParent
  Paths <- MCPaths
  Contents <- MCContents
  Features <- MCFeatures
  Size <- MCSize
  Staged <- MCStaged
  Sources <- MCSources
  WritesMayFail = FALSE
SPECIFICATION FairSpec
INVARIANTS
  RowsHaveFiles
  RowsHoldContent
PROPERTY
  ConfigureEnds
