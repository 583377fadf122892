SPECIFICATION Spec
CONSTANTS
  NumWorkers = 3
  NumTiles = 4
  Planes = {0, 1}
  Sizes <- TwoSizes
  SyncRange = 2
INVARIANTS
  OneOwner
  EdgesReady
  LinesReady
PROPERTIES
  StageComplete
  FrameEnds
