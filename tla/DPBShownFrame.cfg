SPECIFICATION Spec
SYMMETRY BufferSymmetry
CHECK_DEADLOCK FALSE
CONSTANTS
  Buffers = {b1, b2, b3}
  NoBuf = NoBuf
  NumSlots = 2
  RefFramesChoices = {2}
  MaxOrder = 0
  LongTermIds = {0}
  MaxUnits = 1
  Kinds = {"CLK", "OLK", "REGULAR", "REGULAR_SEF"}
  ReuseAfterFlush = FALSE
INVARIANTS
  ShownFrameIsHeld
