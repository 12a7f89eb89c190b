SPECIFICATION FairSpec
CONSTANTS
  Tracks = 3
  Lengths = {6}
  Size = 5
  MinSpace = 1
  Secs = 4
  Modes = {"NONE", "CROSSFADE", "IN", "OUT", "INOUT"}
  MaxFlushes = 1
INVARIANTS BufferOK FadesInPlace GainIsOwn
PROPERTY PulledInTheEnd
CHECK_DEADLOCK FALSE
