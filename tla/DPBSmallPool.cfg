SPECIFICATION Spec
CHECK_DEADLOCK FALSE
CONSTANTS
  Buffers = {b1, b2}
  NoBuf = NoBuf
  NumSlots = 2
  RefFramesChoices = {1, 2}
  MaxOrder = 1
  LongTermIds = {0}
  MaxUnits = 2
  Kinds = {"CLK", "REGULAR"}
  ReuseAfterFlush = FALSE
INVARIANTS
  RefCountsMatch
PROPERTIES
  CallReturns
