SPECIFICATION Spec
SYMMETRY BufferSymmetry
CHECK_DEADLOCK FALSE
CONSTANTS
  NoStream = NoStream
  Streams = {s1, s2}
  Global = Global
  TDLayers = {s1, NoStream}
  Buffers = {b1, b2, b3, b4}
  NoBuf = NoBuf
  NumSlots = 2
  MaxMSDO = 2
INVARIANTS
  TypeOK
  RefsAccounted
PROPERTIES
  ImplementsStreams
  PendingKept
