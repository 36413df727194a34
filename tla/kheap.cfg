CONSTANTS
  TotalPages = 6
  WordPages = 5
  PageUnits = 5
  HdrUnits = 2
  KernelPages = 1
  MaxRequest = 7
  Others = 1
SPECIFICATION Spec
INVARIANTS TypeOK AllocationsApart HeapTiles
PROPERTIES KmallocReturns
CONSTRAINT BlocksContiguous
