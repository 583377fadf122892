SPECIFICATION Spec
CONSTANTS
  NumWorkers = 3
  NumTiles = 2
  Rows <- MixedRows
  Cols <- MixedCols
INVARIANTS
  ContextOfRowAbove
PROPERTIES
  ImplementsWavefront
  FrameEnds
