------------------------------ MODULE Playlist ------------------------------
(***************************************************************************)
(* The tracks LMS sends to one device, numbered in the order it sends them *)
(* (outputstate.index).  What the bridge tells apart is how long they are. *)
(***************************************************************************)
EXTENDS Integers, Sequences

CONSTANTS
  Tracks,         \* 1 .. the number of tracks
  ShortTracks     \* below ten seconds, SHORT_TRACK of squeeze2cast.c

ASSUME PlaylistAssumption ==
  Tracks \subseteq Nat \ {0} /\ ShortTracks \subseteq Tracks
=============================================================================
