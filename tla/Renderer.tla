------------------------------ MODULE Renderer ------------------------------
(***************************************************************************)
(* The renderer of one device, squeeze2cast/squeeze2cast.c: sq_callback,   *)
(* which the SlimProto thread calls for every LMS command, and MRThread,   *)
(* which turns what the device reports into sq_notify calls.               *)
(*                                                                         *)
(* Both run with Device->Mutex.  A callback is one action.  An iteration   *)
(* of MRThread is several: each sq_notify it makes takes the player's own  *)
(* locks, so the other threads run between two of them; the Mutex is held  *)
(* from the message to the last notification.                              *)
(*                                                                         *)
(* The device is on.  CastCore models what becomes of a command handed to  *)
(* the Cast client; here commands only keep their order.                   *)
(***************************************************************************)
EXTENDS Playlist

VARIABLES
  mr,       \* the fields of sMR these functions use
  thread,   \* where MRThread is: it holds the Mutex unless it waits
  notes,    \* the notifications this iteration has still to make
  events,   \* eventQueue: what the device said, oldest first
  cast      \* commands handed to the Cast client, oldest first

rendererVars == <<mr, thread, notes, events, cast>>

-----------------------------------------------------------------------------
(* Types.  0 stands for no track.                                          *)

\* sMR.State is never BUFFERING: no caller passes that to _SyncNotifyState.
PlayerState == {"STOPPED", "PLAYING", "PAUSED"}

\* A status of the device: its player state and the track it is about.
Status == [state : {"PLAYING", "BUFFERING", "PAUSED", "IDLE", "CLOSE"},
           track : Tracks \cup {0}]

Command == [op    : {"LOAD", "PLAY", "PAUSE", "STOP", "RELEASE"},
            track : Tracks \cup {0}]

\* A call of sq_notify.  sure is its parameter, the "Param" of the code.
Note == [event : {"PLAY", "PAUSE", "STOP", "TRACK_INFO"},
         sure  : BOOLEAN,
         track : Tracks \cup {0}]

MR == [State      : PlayerState,
       sqState    : {"PLAY", "PAUSE", "STOP"},
       next       : Tracks \cup {0},          \* NextURI
       ShortTrack : BOOLEAN,
       waits      : BOOLEAN,                  \* TrackWait > 0
       idles      : BOOLEAN]                  \* IdleTimer # -1

RendererTypeOK ==
  /\ mr \in MR
  /\ thread \in {"wait", "message", "timers"}
  /\ notes \in Seq(Note)
  /\ events \in Seq(Status)
  /\ cast \in Seq(Command)

RendererInit ==
  /\ mr = [State |-> "STOPPED", sqState |-> "STOP", next |-> 0,
           ShortTrack |-> FALSE, waits |-> FALSE, idles |-> FALSE]
  /\ thread = "wait" /\ notes = <<>> /\ events = <<>> /\ cast = <<>>

-----------------------------------------------------------------------------
(* sq_callback                                                             *)

MutexFree == thread = "wait"

Tell(op, t) == [op |-> op, track |-> t]

Short(t) == t \in ShortTracks

\* SQ_SET_TRACK of the track to play now (index 0), or of the next one.  A
\* next track that comes after the current one stopped is loaded at once.
SetTrack(t, isNext) ==
  /\ MutexFree
  /\ IF isNext /\ mr.State # "STOPPED"
     THEN /\ mr' = [mr EXCEPT !.next = t]
          /\ UNCHANGED cast
     ELSE /\ mr' = [mr EXCEPT !.next = 0,
                              !.ShortTrack = mr.ShortTrack \/ Short(t),
                              !.waits = mr.waits /\ ~isNext]
          /\ cast' = Append(cast, Tell("LOAD", t)) \o
                     (IF isNext THEN <<Tell("PLAY", 0)>> ELSE <<>>)
  /\ UNCHANGED <<thread, notes, events>>

\* CastLoad fails: the device cannot be reached.
SetTrackFails(t, isNext) ==
  /\ MutexFree
  /\ isNext => mr.State = "STOPPED"
  /\ mr' = [mr EXCEPT !.next = 0,
                      !.ShortTrack = mr.ShortTrack \/ Short(t),
                      !.waits = mr.waits /\ ~isNext]
  /\ UNCHANGED <<thread, notes, events, cast>>

\* SQ_PLAY and SQ_UNPAUSE; sqStamp, which only the first refreshes, is left out.
SqPlay ==
  /\ MutexFree
  /\ IF mr.sqState = "PLAY" THEN UNCHANGED <<mr, cast>>
     ELSE /\ mr' = [mr EXCEPT !.sqState = "PLAY"]
          /\ cast' = Append(cast, Tell("PLAY", 0))
  /\ UNCHANGED <<thread, notes, events>>

SqPause ==
  /\ MutexFree
  /\ mr' = [mr EXCEPT !.sqState = "PAUSE"]
  /\ cast' = Append(cast, Tell("PAUSE", 0))
  /\ UNCHANGED <<thread, notes, events>>

\* CastStop flushes the requests that wait in the Cast client.
SqStop ==
  /\ MutexFree
  /\ mr' = [mr EXCEPT !.sqState = "STOP", !.next = 0, !.ShortTrack = FALSE,
                      !.waits = FALSE]
  /\ cast' = <<Tell("STOP", 0)>>
  /\ UNCHANGED <<thread, notes, events>>

-----------------------------------------------------------------------------
(* _SyncNotifyState                                                        *)

Notify(event, sure) == <<[event |-> event, sure |-> sure, track |-> 0]>>

\* Playing is told to LMS only when LMS asked for it, or has paused (and then
\* it is taken for a request made on the device).
SyncPlaying(t) ==
  LET known == [event |-> "TRACK_INFO", sure |-> FALSE, track |-> t]
  IN  /\ mr' = [mr EXCEPT !.State = "PLAYING"]
      /\ notes' = Append(IF mr.State # "PLAYING" /\ mr.sqState # "STOP"
                         THEN Notify("PLAY", mr.sqState = "PAUSE")
                         ELSE <<>>, known)
      /\ UNCHANGED cast

\* Fault: BUFFERING is a state like another.
SyncOther_Enters(t) ==
  /\ mr' = [mr EXCEPT !.State = "BUFFERING"]
  /\ notes' = <<>>
  /\ UNCHANGED cast

\* A status that changes nothing still carries the track.
SyncOther(t) ==
  /\ notes' = IF mr.State = "PLAYING"
              THEN <<[event |-> "TRACK_INFO", sure |-> FALSE, track |-> t]>>
              ELSE <<>>
  /\ UNCHANGED <<mr, cast>>

\* Only a pause while playing counts: a device starts paused.  The pause was
\* asked for if LMS did so, or gave a command less than two seconds ago.
SyncPaused(recent) ==
  /\ IF mr.State = "PLAYING"
     THEN /\ mr' = [mr EXCEPT !.State = "PAUSED"]
          /\ notes' = Notify("PAUSE", mr.sqState # "PAUSE" /\ ~recent)
     ELSE UNCHANGED mr /\ notes' = <<>>
  /\ UNCHANGED cast

\* The end of a track: load the next one when LMS has sent it, give LMS some
\* time to send it after a short track, report a stop otherwise.  When the
\* device cannot be reached to load the next track, that track is dropped.
SyncStopped(reached) ==
  IF mr.State = "STOPPED" THEN UNCHANGED <<mr, cast>> /\ notes' = <<>>
  ELSE LET idle == [mr EXCEPT !.State = "STOPPED", !.idles = TRUE]
       IN  IF mr.next # 0
           THEN /\ mr' = [idle EXCEPT !.ShortTrack = Short(mr.next), !.next = 0]
                /\ cast' = IF reached
                           THEN cast \o <<Tell("LOAD", mr.next), Tell("PLAY", 0)>>
                           ELSE cast
                /\ notes' = <<>>
           ELSE IF mr.ShortTrack
           THEN /\ mr' = [idle EXCEPT !.waits = TRUE]
                /\ notes' = <<>>
                /\ UNCHANGED cast
           ELSE /\ mr' = idle
                /\ notes' = Notify("STOP", FALSE)
                /\ UNCHANGED cast

\* The device closed the connection: a stop LMS is told to make.
SyncClosed ==
  /\ IF mr.State # "STOPPED"
     THEN mr' = [mr EXCEPT !.State = "STOPPED"] /\ notes' = Notify("STOP", TRUE)
     ELSE UNCHANGED mr /\ notes' = <<>>
  /\ UNCHANGED cast

-----------------------------------------------------------------------------
(* MRThread.  The status it asks for every second is one more event.       *)

\* GetTimedEvent returns an event, or nothing after the wake-up time; an
\* iteration with nothing to do then is left out.
MRMessage(reached) ==
  /\ thread = "wait" /\ events # <<>>
  /\ thread' = "message"
  /\ events' = Tail(events)
  /\ LET e == Head(events)
     IN  CASE e.state = "PLAYING"   -> SyncPlaying(e.track)
           [] e.state = "BUFFERING" -> SyncOther(e.track)
           [] e.state = "PAUSED"    -> \E recent \in BOOLEAN : SyncPaused(recent)
           [] e.state = "IDLE"      -> SyncStopped(reached)
           [] e.state = "CLOSE"     -> SyncClosed

MRTimeout ==
  /\ thread = "wait" /\ events = <<>>
  /\ mr.waits \/ mr.idles
  /\ thread' = "message"
  /\ UNCHANGED <<mr, notes, events, cast>>

\* The rest of an iteration: the two timers.  TrackWait goes on, falls below
\* zero (over), or reaches zero exactly and is never looked at again (missed).
\* IdleTimer runs while the device is stopped, and expires or not.
MRTimers(wait, expires) ==
  /\ thread = "message" /\ notes = <<>>
  /\ wait # "goes on" => mr.waits
  /\ expires => mr.State = "STOPPED" /\ mr.idles
  /\ mr' = [mr EXCEPT !.waits = mr.waits /\ wait = "goes on",
                      !.ShortTrack = mr.ShortTrack /\ wait # "over",
                      !.idles = mr.idles /\ ~expires]
  /\ notes' = IF wait = "over" THEN Notify("STOP", FALSE) ELSE <<>>
  /\ cast' = IF expires THEN Append(cast, Tell("RELEASE", 0)) ELSE cast
  /\ thread' = IF wait = "over" THEN "timers" ELSE "wait"
  /\ UNCHANGED events

MRRelease ==
  /\ thread = "timers" /\ notes = <<>>
  /\ thread' = "wait"
  /\ UNCHANGED <<mr, notes, events, cast>>

\* One call of sq_notify; what it does is the player's.
MRNotify ==
  /\ notes # <<>>
  /\ notes' = Tail(notes)
  /\ UNCHANGED <<mr, thread, events, cast>>
=============================================================================
