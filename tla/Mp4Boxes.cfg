\* A box whose last byte is the last one received.
SPECIFICATION Spec
CONSTANTS
  Files <- MCFiles
  Sizes = {8, 35}
  MinRead = 2
  WrapLen = 4
  PerSample = 2
  MaxTracks = 1
  Cuts = FALSE
INVARIANT BoxesAreParsed
CHECK_DEADLOCK FALSE
