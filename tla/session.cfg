CONSTANTS
  NBlocks = 2
  NFiles = 2
  MaxLen = 2
  MaxDaemons = 2
SPECIFICATION Spec
INVARIANTS DiskSound ToolHonest OneWriter
PROPERTIES ShutdownKeeps ShellComesBack
CONSTRAINT NotHurt
CHECK_DEADLOCK FALSE
