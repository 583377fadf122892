SPECIFICATION Spec
CONSTANTS
  Lags <- MCLags
  MaxLap = 3
  LapLag = 2
  Sizes <- MCSizes
  AllocFails = FALSE
  MaxFrames = 8
INVARIANTS
  TypeOK
  PeeksInOrder
  StatsMatch
  FlushMeansDone
PROPERTY
  Implements
