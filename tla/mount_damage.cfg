CONSTANTS
  TotalBlocks = 3
  DataStart = 1
  TotalInodes = 2
  DirentsPerBlock = 3
  MaxExtents = 2
  Names = {"a", "b"}
  Vals = {v1}
  NoVal = NoVal
  AsEntries <- BadEntries
  Paths <- FewPaths
  MaxLen = 1
  U32 = 4
SPECIFICATION Spec
INVARIANTS TypeOK MetadataProtected
CHECK_DEADLOCK FALSE

CONSTRAINT TwoHarms
