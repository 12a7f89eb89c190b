\* Does LMS always hear of the end, also after a skip or a decoding error?
SPECIFICATION FairSpec
CONSTANTS
  Tracks = {1, 2}
  ShortTracks = {1}
  Upsets = {"skip", "decode"}
  MaxUpsets = 1
  MaxStat = 1
PROPERTY EndIsTold
\* Playback stops at the end of the last track.
CHECK_DEADLOCK FALSE
