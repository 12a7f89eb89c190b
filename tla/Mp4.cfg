\* Three files in every order of two, buffers that end in a box, in a sample, or that a box does not fit in.
SPECIFICATION Spec
CONSTANTS
  Files <- MCFiles
  Sizes = {8, 26, 35}
  MinRead = 2
  WrapLen = 4
  PerSample = 2
  MaxTracks = 2
  Cuts = TRUE
INVARIANT Mp4OK
 
CHECK_DEADLOCK FALSE
