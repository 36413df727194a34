CONSTANTS
  Letters = {"x"}
  LineStep = 2
  UndoMax = 2
  TabSize = 2
  QueryMax = 1
  ScreenRows = 2
  Files <- MCFiles
  MaxKeys = 2
SPECIFICATION Spec
PROPERTY EnterSplits
