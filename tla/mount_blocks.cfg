CONSTANTS
  TotalBlocks = 5
  DataStart = 1
  TotalInodes = 3
  DirentsPerBlock = 4
  MaxExtents = 2
  Names = {"a", "b"}
  Vals = {v1, v2}
  NoVal = NoVal
  AsEntries <- BadEntries
  Paths <- TwoPaths
  MaxLen = 2
  U32 = 16
SPECIFICATION Spec
INVARIANTS BlockOwnership CrashRecoverable CountersMatch ReadBack NothingLost
CHECK_DEADLOCK FALSE
CONSTRAINT OnlyLeaks
SYMMETRY Perms
