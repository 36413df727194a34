CONSTANTS
  TotalBlocks = 4
  DataStart = 1
  TotalInodes = 3
  DirentsPerBlock = 4
  MaxExtents = 1
  Names = {"a", "b"}
  Vals = {v1}
  NoVal = NoVal
  AsEntries <- NoEntries
  Paths = {}
  MaxLen = 1
  U32 = 6
  MaxEdits = 2
SPECIFICATION ImageSpec
INVARIANTS CleanIsConsistent
CHECK_DEADLOCK FALSE
