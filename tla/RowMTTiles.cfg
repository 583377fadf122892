SPECIFICATION Spec
CONSTANTS
  NumWorkers = 3
  NumTiles = 2
  Rows <- MixedRows
  Cols <- MixedCols
INVARIANTS
  OneOwner
  WorkersCounted
  NeighboursDecoded
PROPERTIES
  ImplementsWavefront
  FrameEnds
