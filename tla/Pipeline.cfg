\* Two tracks of up to four frames, with and without the resampler.
SPECIFICATION Spec
CONSTANTS
  Tracks = 2
  Length = 4
  StreamSize = 2
  OutputSize = 3
  MinSpace = 1
  MaxOut = 2
  Latency = 4
  Resampling = {TRUE, FALSE}
  MaxUpsets = 1
INVARIANTS BuffersOK FlushForgets
PROPERTIES EndIsWhole 
\* Playback stops at the end of the last track.
CHECK_DEADLOCK FALSE
