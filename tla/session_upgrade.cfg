CONSTANTS
  NBlocks = 3
  NFiles = 2
  MaxLen = 2
  MaxDaemons = 1
SPECIFICATION Spec
INVARIANTS EveryEntryBuilt
CONSTRAINT NotHurt
CHECK_DEADLOCK FALSE
