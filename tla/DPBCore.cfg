SPECIFICATION Spec
SYMMETRY BufferSymmetry
CHECK_DEADLOCK FALSE
CONSTANTS
  Buffers = {b1, b2, b3}
  NoBuf = NoBuf
  NumSlots = 2
  RefFramesChoices = {2}
  MaxOrder = 2
  LongTermIds = {0}
  MaxUnits = 1
  Kinds = {"CLK", "REGULAR", "REGULAR_SEF", "SWITCH", "RAS"}
  ReuseAfterFlush = FALSE
INVARIANTS
  TypeOK
  QueueWithinArray
  DataHeld
  NoStaleReferenceAfterError
  NeverOutOfBuffers
PROPERTIES
  OutputsInOrder
  NoPendingLost
  ImplementsDelivery
