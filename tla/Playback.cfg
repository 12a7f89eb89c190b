\* Two tracks, everything that may upset them once.
SPECIFICATION Spec
CONSTANTS
  Tracks = {1, 2}
  ShortTracks = {1}
  Upsets = {"skip", "stop", "pause", "take back", "device pause", "device play",
            "break", "empty", "decode", "unreachable", "load", "early", "close",
            "refused", "missed"}
  MaxUpsets = 1
  MaxStat = 1
INVARIANTS TypeOK StartTold TracksAreServed
PROPERTIES EventsAreReal
\* Playback stops at the end of the last track.
CHECK_DEADLOCK FALSE
