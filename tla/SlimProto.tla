----------------------------- MODULE SlimProto ------------------------------
(***************************************************************************)
(* The player of one device as LMS sees it: slimproto.c (strm commands and *)
(* the status round that tells LMS what happens), sq_notify of main.c      *)
(* (what the renderer reports), and what stream.c, decode.c, output.c and  *)
(* output_http.c do to the state both look at.                             *)
(*                                                                         *)
(* Three locks protect that state: LOCK_S the stream, LOCK_D decode,       *)
(* LOCK_O the output and the renderer's state.  A step of this module is   *)
(* what happens between two points where another thread can make a         *)
(* difference; a strm command or a status round is several steps when it   *)
(* calls the renderer, which may have to wait for Device->Mutex.           *)
(*                                                                         *)
(* The modes modelled are those without "flow", and autostart 0 and 1.     *)
(***************************************************************************)
EXTENDS Playlist

VARIABLES
  output,   \* outputstate: index, state, completed, track_started, track_start
  render,   \* the player's last known state: index, state
  stream,   \* streamstate: state, whether bytes came, the disconnect code
  decode,   \* decode.state, decode.new_stream
  servers,  \* output_thread: by track, what its HTTP server is at
  ended,    \* the servers told to terminate
  flags,    \* canSTMdu, sentSTMu, sentSTMo, sentSTMl, sendSTMd, last_command
  slim,     \* where the SlimProto thread is
  stat      \* status events sent to LMS and not received yet

slimVars == <<output, render, stream, decode, servers, ended, flags, slim, stat>>

-----------------------------------------------------------------------------
(* Types                                                                   *)

\* The HTTP server of a track: none (no thread), serving, drained (everything
\* of outputbuf is pulled), lingering (everything is sent).
Server == {"none", "serving", "drained", "lingering"}

StatEvent == {"STMs", "STMd", "STMu", "STMo", "STMn", "STMl", "DSCO"}

\* What one status round has found and will send or do at its end.
Round == [STMs : BOOLEAN, STMu : BOOLEAN, STMo : BOOLEAN, STMn : BOOLEAN,
          DSCO : BOOLEAN, ready : BOOLEAN, open : BOOLEAN, clean : BOOLEAN]

NoRound == [STMs |-> FALSE, STMu |-> FALSE, STMo |-> FALSE, STMn |-> FALSE,
            DSCO |-> FALSE, ready |-> FALSE, open |-> FALSE, clean |-> FALSE]

OutputType == [index : Tracks \cup {0}, completed : BOOLEAN, started : BOOLEAN,
               unread : BOOLEAN,            \* track_start is not NULL
               state : {"STOPPED", "WAITING", "RUNNING"}]

RenderType == [index : Tracks \cup {-1},
               state : {"TRANSITION", "STOPPED", "PLAYING", "PAUSED"}]

StreamType == [state : {"STOPPED", "DISCONNECT", "HEADERS", "BUFFERING", "HTTP"},
               bytes : BOOLEAN, ok : BOOLEAN]

DecodeType == [state : {"STOPPED", "READY", "RUNNING", "COMPLETE", "ERROR"},
               new_stream : BOOLEAN]

FlagsType == [canSTMdu : BOOLEAN, sentSTMu : BOOLEAN, sentSTMo : BOOLEAN,
              sentSTMl : BOOLEAN, sendSTMd : BOOLEAN, lastQ : BOOLEAN,
              autostart : {0, 1}]

SlimType == [at    : {"idle", "stop", "pause", "unpause", "unpaused", "track",
                      "socket", "round"},
             next  : BOOLEAN,      \* info.index is not zero
             fails : BOOLEAN,      \* process_start returned false
             round : Round]

SlimTypeOK ==
  /\ output \in OutputType /\ render \in RenderType
  /\ stream \in StreamType /\ decode \in DecodeType
  /\ servers \in [Tracks -> Server] /\ ended \subseteq Tracks
  /\ flags \in FlagsType /\ slim \in SlimType
  /\ stat \in Seq(StatEvent)

SlimInit ==
  /\ output = [index |-> 0, completed |-> FALSE, started |-> FALSE,
               unread |-> FALSE, state |-> "STOPPED"]
  /\ render = [index |-> -1, state |-> "TRANSITION"]
  /\ stream = [state |-> "STOPPED", bytes |-> FALSE, ok |-> TRUE]
  /\ decode = [state |-> "STOPPED", new_stream |-> TRUE]
  /\ servers = [t \in Tracks |-> "none"] /\ ended = {}
  /\ flags = [canSTMdu |-> FALSE, sentSTMu |-> FALSE, sentSTMo |-> FALSE,
              sentSTMl |-> FALSE, sendSTMd |-> FALSE, lastQ |-> FALSE,
              autostart |-> 0]
  /\ slim = [at |-> "idle", next |-> FALSE, fails |-> FALSE, round |-> NoRound]
  /\ stat = <<>>

At(place) == slim.at = place
GoTo(place) == slim' = [slim EXCEPT !.at = place]

-----------------------------------------------------------------------------
(* output.c, output_http.c                                                 *)

Running(t) == servers[t] # "none"

\* _output_lingers
Lingers(t) == t \in Tracks /\ servers[t] = "lingering"

\* _output_terminate and _output_terminate_below: a thread told to terminate
\* leaves its loop and frees itself.
Terminate(t) == ended' = ended \cup {u \in Tracks : u = t /\ Running(u)}
TerminateBelow(t) == ended' = ended \cup {u \in Tracks : u < t /\ Running(u)}

\* Stop and join threads.
Join(these) ==
  /\ servers' = [t \in Tracks |-> IF t \in these THEN "none" ELSE servers[t]]
  /\ ended' = ended \ these

\* output_flush: a full one forgets what the device plays, the other one only
\* takes back the track that is being sent.
OutputFlush ==
  /\ Join(Tracks)
  /\ output' = [output EXCEPT !.state = "STOPPED", !.started = FALSE,
                              !.unread = FALSE]
  /\ render' = [render EXCEPT !.index = -1]

OutputFlushNext ==
  /\ Join({t \in Tracks : servers[t] # "lingering"})
  /\ output' = [output EXCEPT !.completed = TRUE, !.unread = FALSE]
  /\ UNCHANGED render

-----------------------------------------------------------------------------
(* process_strm                                                            *)

\* strm q: everything is flushed, then the renderer is told.
StrmStop ==
  /\ At("idle")
  /\ decode' = [decode EXCEPT !.state = "STOPPED"]
  /\ OutputFlush
  /\ stream' = [stream EXCEPT !.state = "STOPPED"]
  /\ slim' = [slim EXCEPT !.at = IF flags.lastQ THEN "idle" ELSE "stop"]
  /\ flags' = [flags EXCEPT !.lastQ = TRUE]
  /\ UNCHANGED stat

StrmStopped ==
  /\ At("stop") /\ GoTo("idle")
  /\ UNCHANGED <<output, render, stream, decode, servers, ended, flags, stat>>

\* strm f: the next track is taken back (its callback does nothing).  The
\* stream is disconnected only if output_flush had no unread track to forget.
StrmFlush ==
  /\ At("idle")
  /\ decode' = [decode EXCEPT !.state = "STOPPED"]
  /\ OutputFlushNext
  /\ stream' = IF output.unread THEN stream ELSE [stream EXCEPT !.state = "STOPPED"]
  /\ flags' = [flags EXCEPT !.canSTMdu = TRUE, !.lastQ = FALSE]
  /\ UNCHANGED <<slim, stat>>

\* strm p, u: the output state changes before the callback, or after it.
StrmPause ==
  /\ At("idle") /\ GoTo("pause")
  /\ output' = [output EXCEPT !.state = "WAITING"]
  /\ flags' = [flags EXCEPT !.lastQ = FALSE]
  /\ UNCHANGED <<render, stream, decode, servers, ended, stat>>

StrmPaused ==
  /\ At("pause") /\ GoTo("idle")
  /\ UNCHANGED <<output, render, stream, decode, servers, ended, flags, stat>>

StrmUnpause ==
  /\ At("idle") /\ GoTo("unpause")
  /\ flags' = [flags EXCEPT !.lastQ = FALSE]
  /\ UNCHANGED <<output, render, stream, decode, servers, ended, stat>>

StrmUnpausing ==
  /\ At("unpause") /\ GoTo("unpaused")
  /\ UNCHANGED <<output, render, stream, decode, servers, ended, flags, stat>>

StrmUnpaused ==
  /\ At("unpaused") /\ GoTo("idle")
  /\ output' = [output EXCEPT !.state = "RUNNING"]
  /\ UNCHANGED <<render, stream, decode, servers, ended, flags, stat>>

\* strm s, the first part of process_start: a new track, its codec and server.
\* It is a next track when the device plays another one, and then refused when
\* it is shorter than two seconds.
NewTrack == output.index + 1

StrmStart(autostart, refused) ==
  /\ At("idle") /\ NewTrack \in Tracks
  /\ refused => render.index # -1
  /\ flags' = [flags EXCEPT !.autostart = autostart, !.lastQ = FALSE]
  /\ slim' = [slim EXCEPT !.at = IF refused THEN "socket" ELSE "track",
                          !.next = render.index # -1,
                          !.fails = refused]
  /\ IF refused
     THEN /\ output' = [output EXCEPT !.index = NewTrack]
          /\ UNCHANGED <<decode, servers, ended>>
     ELSE /\ output' = [output EXCEPT !.index = NewTrack, !.completed = FALSE]
          /\ decode' = [state |-> "READY", new_stream |-> TRUE]
          /\ servers' = [servers EXCEPT ![NewTrack] = "serving"]
          /\ ended' = ended \ {NewTrack}
  /\ UNCHANGED <<render, stream, stat>>

\* The renderer has been given the track, or could not load it.
StrmTrackSet(loaded) ==
  /\ At("track")
  /\ slim' = [slim EXCEPT !.at = "socket", !.fails = ~loaded]
  /\ IF loaded THEN UNCHANGED ended ELSE Terminate(output.index)
  /\ UNCHANGED <<output, render, stream, decode, servers, flags, stat>>

\* Nothing is told yet of the new track.
Untold ==
  [flags EXCEPT !.canSTMdu = FALSE, !.sentSTMu = FALSE, !.sentSTMo = FALSE,
                !.sentSTMl = FALSE, !.sendSTMd = FALSE]

\* stream_sock and the end of strm s, which goes on even if the start failed.
StrmSocket(connected) ==
  /\ At("socket") /\ GoTo("idle")
  /\ stream' = IF connected THEN [state |-> "HEADERS", bytes |-> FALSE, ok |-> TRUE]
               ELSE [stream EXCEPT !.state = "DISCONNECT", !.ok = FALSE]
  /\ flags' = Untold
  /\ stat' = IF slim.fails THEN Append(stat, "STMn") ELSE stat
  /\ UNCHANGED <<output, render, decode, servers, ended>>

-----------------------------------------------------------------------------
(* slimproto_run: a status round                                           *)

StreamOver(state) == state \in {"STOPPED", "DISCONNECT"}

\* Nothing was received, and the output thread is done.
Dead == ~stream.bytes /\ output.completed /\ output.state = "RUNNING"

\* Fault: the start of the track does not let its end go.
CanTell_NotStarted == flags.canSTMdu \/ Dead

\* The start of the track was seen, or will never be.
CanTell == flags.canSTMdu \/ output.started \/ Dead

\* The device is at the end of a track.
Stopped == render.state = "STOPPED" \/ Dead

Over == output.state = "RUNNING" /\ CanTell /\ Stopped

\* Under LOCK_S and then LOCK_O: the end of the stream, the start of a track
\* (which lets STMd and STMu go), a stream that brought nothing, and the end of
\* the track on the device with everything sent (STMu) or not (STMo).
RoundOutput ==
  /\ At("idle")
  /\ LET gone == stream.state = "DISCONNECT"
         u == Over /\ ~flags.sentSTMu /\ output.completed /\ StreamOver(stream.state)
         o == Over /\ ~flags.sentSTMo /\ stream.state = "HTTP"
     IN  /\ stream' = IF gone THEN [stream EXCEPT !.state = "STOPPED"] ELSE stream
         /\ render' = IF Dead THEN [render EXCEPT !.state = "STOPPED"] ELSE render
         /\ output' = [output EXCEPT !.started = FALSE,
                                     !.state = IF u \/ o THEN "STOPPED" ELSE output.state]
         /\ flags' = [flags EXCEPT !.canSTMdu = CanTell,
                                   !.sentSTMu = flags.sentSTMu \/ u,
                                   !.sentSTMo = flags.sentSTMo \/ o]
         /\ slim' = [slim EXCEPT !.at = "round", !.round =
                       [STMs |-> output.started, STMu |-> u, STMo |-> o,
                        STMn |-> Dead, DSCO |-> gone, ready |-> output.completed,
                        open |-> stream.state = "HTTP",
                        clean |-> gone /\ stream.ok]]
  /\ UNCHANGED <<decode, servers, ended, stat>>

\* Enough has been received to start: SQ_PLAY is called with LOCK_D held.
Starts ==
  /\ At("round")
  /\ decode.state = "READY" /\ ~flags.sentSTMl
  /\ slim.round.open \/ slim.round.clean

\* The end of decoding is told once the output has everything, the track was
\* seen to start, and it is nearly over or already is.
AsksNext(near) ==
  \/ decode.state = "ERROR"
  \/ /\ decode.state = "COMPLETE" /\ flags.canSTMdu /\ slim.round.ready
     /\ slim.round.STMu \/ near

Say(event, yes) == IF yes THEN <<event>> ELSE <<>>

\* Decoding starts, is over, or has failed.
StartsTold == Starts /\ flags.autostart = 0
IsDecoded(near) == ~Starts /\ AsksNext(near) /\ decode.state = "COMPLETE"
HasFailed(near) == ~Starts /\ AsksNext(near) /\ decode.state = "ERROR"

\* Fault: STMd goes out before STMs.
Milestones_EndFirst(d) ==
  Say("STMd", d) \o Say("STMs", slim.round.STMs) \o Say("STMu", slim.round.STMu)

\* What is sent of the start, the end of decoding and the end of a track, in the
\* order of the code.  STMd waits a round for STMs.
Milestones(d) ==
  Say("STMs", slim.round.STMs)
  \o (Say("STMd", ~slim.round.STMs /\ (d \/ flags.sendSTMd)) \o Say("STMu", slim.round.STMu))

\* All that is sent.
Sent(d, n, l) ==
  LET r == slim.round
  IN  (Say("DSCO", r.DSCO) \o Say("STMl", l))
      \o (Milestones(d) \o (Say("STMo", r.STMo) \o Say("STMn", r.STMn \/ n)))

\* Under LOCK_D, and then without a lock: decoding starts or is over, and the
\* events of the round are sent.
RoundDecode(near) ==
  /\ At("round")
  /\ decode' = [decode EXCEPT !.state =
                  IF Starts THEN "RUNNING"
                  ELSE IF IsDecoded(near) \/ HasFailed(near) THEN "STOPPED" ELSE decode.state]
  /\ output' = IF Starts /\ flags.autostart = 1
               THEN [output EXCEPT !.state = "RUNNING"] ELSE output
  /\ stream' = IF (IsDecoded(near) \/ HasFailed(near)) /\ slim.round.open
               THEN [stream EXCEPT !.state = "STOPPED"] ELSE stream
  /\ flags' = [flags EXCEPT !.sentSTMl = flags.sentSTMl \/ StartsTold,
                            !.sendSTMd = slim.round.STMs
                                         /\ (IsDecoded(near) \/ flags.sendSTMd)]
  /\ stat' = stat \o Sent(IsDecoded(near), HasFailed(near), StartsTold)
  /\ slim' = [slim EXCEPT !.at = "idle", !.round = NoRound]
  /\ UNCHANGED <<render, servers, ended>>

-----------------------------------------------------------------------------
(* sq_notify (called by MRThread)                                          *)

\* PLAY resumes, or starts the track when its number is already known.
NotifyPlay ==
  /\ LET starts == render.state \notin {"PAUSED", "PLAYING"}
                   /\ render.index = output.index
     IN  /\ render' = [render EXCEPT !.state = "PLAYING"]
         /\ output' = [output EXCEPT !.started = output.started \/ starts]
         /\ IF starts THEN TerminateBelow(render.index) ELSE UNCHANGED ended
  /\ UNCHANGED <<stream, decode, servers, flags, slim, stat>>

NotifyPause ==
  /\ render' = [render EXCEPT !.state = "PAUSED"]
  /\ UNCHANGED <<output, stream, decode, servers, ended, flags, slim, stat>>

\* Fault: the server is ended even when it has not sent everything.
NotifyStop_EndsServer ==
  /\ render' = [render EXCEPT !.state = "STOPPED"]
  /\ Terminate(output.index)
  /\ UNCHANGED <<output, stream, decode, servers, flags, slim, stat>>

\* STOP when the renderer is not sure: the status round decides what it means.
\* The server of the track ends only if it lingers.
NotifyStop ==
  /\ render' = [render EXCEPT !.state = "STOPPED"]
  /\ IF Lingers(render.index) THEN Terminate(render.index) ELSE UNCHANGED ended
  /\ UNCHANGED <<output, stream, decode, servers, flags, slim, stat>>

\* Fault: a track of an old context counts too.
IsNews_AnyTrack(t) == output.state # "STOPPED" /\ render.index # t

\* A change of track, which must not be one of an old context.
IsNews(t) == output.state # "STOPPED" /\ render.index # t /\ output.index = t

\* The track the device plays: it starts when it is the one sent last.
NotifyTrackInfo(t) ==
  /\ IF IsNews(t)
     THEN /\ render' = [render EXCEPT !.index = t]
          /\ output' = [output EXCEPT !.started = output.started
                                                   \/ render.state = "PLAYING"]
          /\ IF render.state = "PLAYING" THEN TerminateBelow(t) ELSE UNCHANGED ended
     ELSE UNCHANGED <<render, output, ended>>
  /\ UNCHANGED <<stream, decode, servers, flags, slim, stat>>

\* A stop the renderer is sure of goes to LMS by the CLI and changes nothing.
NotifyClosed == UNCHANGED slimVars

-----------------------------------------------------------------------------
(* The other threads of the player                                         *)

\* Stream thread: the answer, the first bytes, the end, nothing at all.
StreamHeaders ==
  /\ stream.state = "HEADERS"
  /\ stream' = [stream EXCEPT !.state = "BUFFERING"]
  /\ UNCHANGED <<output, render, decode, servers, ended, flags, slim, stat>>

\* A threshold's worth came, or the whole of a stream shorter than that.
StreamBuffered ==
  /\ stream.state = "BUFFERING"
  /\ stream' \in {[stream EXCEPT !.state = "HTTP", !.bytes = TRUE],
                  [stream EXCEPT !.state = "DISCONNECT", !.bytes = TRUE]}
  /\ UNCHANGED <<output, render, decode, servers, ended, flags, slim, stat>>

StreamEnds ==
  /\ stream.state = "HTTP"
  /\ stream' = [stream EXCEPT !.state = "DISCONNECT"]
  /\ UNCHANGED <<output, render, decode, servers, ended, flags, slim, stat>>

StreamEmpty ==
  /\ stream.state = "BUFFERING"
  /\ stream' = [stream EXCEPT !.state = "DISCONNECT"]
  /\ UNCHANGED <<output, render, decode, servers, ended, flags, slim, stat>>

\* The source breaks: while it sends its headers nobody is told.
StreamBreaks ==
  /\ stream.state \in {"HEADERS", "BUFFERING", "HTTP"}
  /\ stream' = IF stream.state = "HEADERS"
               THEN [stream EXCEPT !.state = "STOPPED", !.ok = FALSE]
               ELSE [stream EXCEPT !.state = "DISCONNECT", !.ok = FALSE]
  /\ UNCHANGED <<output, render, decode, servers, ended, flags, slim, stat>>

\* Decode thread: the first bytes of a stream open it, and mark where the track
\* starts in outputbuf; everything received is decoded; or it cannot be.
DecodeOpens ==
  /\ decode.state = "RUNNING" /\ decode.new_stream /\ stream.bytes
  /\ decode' = [decode EXCEPT !.new_stream = FALSE]
  /\ output' = [output EXCEPT !.unread = TRUE]
  /\ UNCHANGED <<render, stream, servers, ended, flags, slim, stat>>

DecodeEnds ==
  /\ decode.state = "RUNNING" /\ StreamOver(stream.state)
  /\ stream.bytes => ~decode.new_stream
  /\ decode' = [decode EXCEPT !.state = "COMPLETE"]
  /\ UNCHANGED <<output, render, stream, servers, ended, flags, slim, stat>>

DecodeFails ==
  /\ decode.state = "RUNNING" /\ stream.bytes
  /\ decode' = [decode EXCEPT !.state = "ERROR"]
  /\ UNCHANGED <<output, render, stream, servers, ended, flags, slim, stat>>

\* Output thread of t, whose device is connected: it pulls the start of the track
\* (which only leaves a mark when audio is processed, not in THRU mode); nothing
\* is left in outputbuf and no more will come; everything is sent.
Pulls(t) ==
  /\ servers[t] = "serving" /\ t \notin ended
  /\ output.state = "RUNNING" /\ ~decode.new_stream

ServerReads(t) ==
  /\ Pulls(t) /\ output.unread
  /\ output' = [output EXCEPT !.unread = FALSE]
  /\ UNCHANGED <<render, stream, decode, servers, ended, flags, slim, stat>>

ServerDrains(t) ==
  /\ Pulls(t) /\ decode.state \in {"COMPLETE", "ERROR"}
  /\ servers' = [servers EXCEPT ![t] = "drained"]
  /\ output' = [output EXCEPT !.completed = TRUE]
  /\ UNCHANGED <<render, stream, decode, ended, flags, slim, stat>>

ServerLingers(t) ==
  /\ servers[t] = "drained" /\ t \notin ended /\ output.state = "RUNNING"
  /\ servers' = [servers EXCEPT ![t] = "lingering"]
  /\ UNCHANGED <<output, render, stream, decode, ended, flags, slim, stat>>

ServerExits(t) ==
  /\ t \in ended
  /\ Join({t})
  /\ UNCHANGED <<output, render, stream, decode, flags, slim, stat>>
=============================================================================
