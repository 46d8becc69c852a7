CONSTANTS
  x = x
  y = y
  g = g
  c1 = c1
  c2 = c2
  p1 = p1
  p2 = p2
  bin = bin
  doc = doc
  main = main
  NoGroup = NoGroup
  Files <- MCFiles
  Groups <- MCGroups
  Contents <- MCContents
  Paths <- MCPaths
  Names <- MCNames
  Main <- main
  Documents <- MCDocuments
SPECIFICATION Spec
INVARIANTS
  TypeOK
  OnePackagePerFile
  MainIsRemainder
  NothingLeftOut
  CopiesAreMeant
