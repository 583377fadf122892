SPECIFICATION SpecWithErrors
CONSTANTS
  NumWorkers = 2
  NumTiles = 1
  Rows <- TallRows
  Cols <- TallCols
PROPERTIES
  FrameEnds
