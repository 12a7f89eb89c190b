\* PongLimit is 5 in the code (15 s, a ping every 3 s).
CONSTANT PongLimit = 5
SPECIFICATION DeviceSpec
INVARIANTS
  DeviceTypeOK
  FreedAfterThreads

  
  
\* After a removal, or when a late thread has turned the loops on again, the
\* threads only sleep: the system really stops.
CHECK_DEADLOCK FALSE
