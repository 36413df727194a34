CONSTANTS
  TotalBlocks = 5
  DataStart = 2
  TotalInodes = 3
  DirentsPerBlock = 3
  MaxExtents = 2
  Names = {"a", "b"}
  Vals = {v1}
  NoVal = NoVal
  AsEntries <- BadEntries
  Paths <- SomePaths
  MaxLen = 1
  U32 = 16
SPECIFICATION Spec
INVARIANTS TreeSound CwdAlive FsckClean
PROPERTIES ImplementsTree
CHECK_DEADLOCK FALSE
CONSTRAINT OnlyLeaks
