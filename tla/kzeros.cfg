CONSTANTS
  TotalBlocks = 5
  DataStart = 1
  TotalInodes = 3
  DirentsPerBlock = 3
  MaxExtents = 2
  Names = {"a", "b", "bb"}
  Vals = {v1, v2}
  NoVal = NoVal
  AsEntries <- FileEntries
  Paths <- KPaths
  MaxLen = 2
  U32 = 16
  Cut <- CutTo
  MaxDepth = 2
  MaxFaults = 1
SPECIFICATION Spec
INVARIANTS TypeOK KOwnership KTreeSound KCountersMatch KReadBack PwdMatchesCwd
CHECK_DEADLOCK FALSE
CONSTRAINT Explored
SYMMETRY Perms
