CONSTANTS
  TotalBlocks = 5
  DataStart = 2
  TotalInodes = 3
  DirentsPerBlock = 3
  MaxExtents = 2
  Names = {"a", "b"}
  Vals = {v1}
  NoVal = NoVal
  AsEntries <- BadEntries
  Paths <- SomePaths
  MaxLen = 2
  U32 = 16
SPECIFICATION NoCrashSpec
INVARIANTS NoDanglingEntry
CHECK_DEADLOCK FALSE
