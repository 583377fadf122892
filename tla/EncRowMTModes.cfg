SPECIFICATION SpecWithModes
CONSTANTS
  NumWorkers = 2
  NumTiles = 1
  Rows <- MixedRows
  Cols <- MixedCols
INVARIANTS
  ContextsAllocated
