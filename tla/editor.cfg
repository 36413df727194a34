CONSTANTS
  Letters = {"x"}
  LineStep = 2
  UndoMax = 2
  TabSize = 2
  QueryMax = 2
  ScreenRows = 2
  Files <- MCFiles
  MaxKeys = 3
SPECIFICATION Spec
INVARIANTS TypeOK CursorInside UndoMatches CleanMeansSaved
PROPERTIES EditsAreLocal SearchFinds
