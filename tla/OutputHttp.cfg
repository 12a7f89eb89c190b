\* A track of up to three bytes, a ring that keeps two of them.
SPECIFICATION Spec
CONSTANTS
  CacheSize = 3
  Length = 3
  MaxBlock = 2
  ObufSize = 2
  Interval = 2
  Lengths = {2}
  MaxConnections = 2
INVARIANTS ServerOK RangeIsTrue BodyIsWhole
 
\* The thread exits.
CHECK_DEADLOCK FALSE
