------------------------------ MODULE Playback ------------------------------
(***************************************************************************)
(* The whole of one player: the renderer (Renderer), the SlimProto client  *)
(* (SlimProto), and what stands at both ends of the bridge, the device and *)
(* LMS, which are not in the repository and only known by how the code     *)
(* talks to them.                                                          *)
(*                                                                         *)
(* The SlimProto thread calls the renderer (sq_callback, which waits for   *)
(* Device->Mutex) and MRThread calls the player (sq_notify, with that      *)
(* Mutex), so a callback is an action of both modules and so is a          *)
(* notification.                                                           *)
(***************************************************************************)
EXTENDS Renderer, SlimProto, FiniteSets

CONSTANTS
  Upsets,      \* what the user may do, and what may go wrong
  MaxUpsets,   \* how many times, in all
  MaxStat      \* how many events LMS has not heard before a round waits

ASSUME PlaybackAssumption ==
  /\ Upsets \subseteq
       {"skip", "stop", "pause", "take back", "device pause", "device play"}
       \cup {"break", "empty", "decode", "unreachable", "load", "early",
             "close", "refused", "missed"}
  /\ MaxUpsets \in Nat /\ MaxStat \in Nat /\ 1 \in Tracks

VARIABLES
  dev,      \* the device: the track it has loaded, what it does with it
  lms,      \* LMS: what it does, the commands it has still to send
  upsets,   \* how many so far
  told,     \* what LMS was told since the last strm s, oldest first, and
            \* whether something is claimed of it
  played    \* the tracks the device really started

envVars == <<dev, lms, upsets>>
vars == <<rendererVars, slimVars, envVars, told, played>>

-----------------------------------------------------------------------------
DevType == [track : Tracks \cup {0}, state : {"none", "paused", "wanted", "playing"}]

LmsType == [mode : {"stop", "play", "pause"},
            todo : Seq({"q", "s", "f", "p", "u"}),
            sent : Tracks \cup {0},       \* the last track it asked for
            begun : BOOLEAN,              \* whether it knows that it plays
            plays : BOOLEAN]              \* whether it knows that a track does

ToldType == [events : Seq(StatEvent), holds : BOOLEAN]

PlaybackTypeOK ==
  /\ dev \in DevType /\ lms \in LmsType /\ told \in ToldType
  /\ upsets \in 0 .. MaxUpsets /\ played \subseteq Tracks

TypeOK == RendererTypeOK /\ SlimTypeOK /\ PlaybackTypeOK

Init ==
  /\ RendererInit /\ SlimInit
  /\ dev = [track |-> 0, state |-> "none"]
  /\ lms = [mode |-> "play", todo |-> <<"s">>, sent |-> 1, begun |-> FALSE,
            plays |-> FALSE]
  /\ upsets = 0 /\ told = [events |-> <<>>, holds |-> TRUE] /\ played = {}

Upset(kind) ==
  /\ kind \in Upsets /\ upsets < MaxUpsets
  /\ upsets' = upsets + 1

NoUpset == UNCHANGED upsets

-----------------------------------------------------------------------------
(* The SlimProto thread takes a command.                                   *)

Takes(command) ==
  /\ lms.todo # <<>> /\ Head(lms.todo) = command
  /\ lms' = [lms EXCEPT !.todo = Tail(lms.todo)]
  /\ UNCHANGED <<dev, played>>

Command_q == Takes("q") /\ StrmStop /\ NoUpset /\ UNCHANGED <<rendererVars, told>>
Command_f == /\ Takes("f") /\ StrmFlush
             /\ told' = [told EXCEPT !.holds = FALSE]
             /\ NoUpset /\ UNCHANGED rendererVars
Command_p == Takes("p") /\ StrmPause /\ NoUpset /\ UNCHANGED <<rendererVars, told>>
Command_u == Takes("u") /\ StrmUnpause /\ NoUpset /\ UNCHANGED <<rendererVars, told>>
Command_s ==
  /\ Takes("s")
  /\ \E autostart \in {0, 1} :
       \/ StrmStart(autostart, FALSE) /\ NoUpset
       \/ StrmStart(autostart, TRUE) /\ Upset("refused")
  /\ UNCHANGED <<rendererVars, told>>

\* The rest of a command, which makes its callback or comes after it.
Rest == UNCHANGED <<dev, lms, played>>

Callback_STOP == StrmStopped /\ SqStop /\ Rest /\ NoUpset /\ UNCHANGED told
Callback_PAUSE == StrmPaused /\ SqPause /\ Rest /\ NoUpset /\ UNCHANGED told
Callback_UNPAUSE == StrmUnpausing /\ SqPlay /\ Rest /\ NoUpset /\ UNCHANGED told
After_UNPAUSE == /\ StrmUnpaused /\ Rest /\ NoUpset /\ UNCHANGED <<rendererVars, told>>

Callback_SET_TRACK ==
  /\ \/ StrmTrackSet(TRUE) /\ SetTrack(output.index, slim.next) /\ NoUpset
     \/ StrmTrackSet(FALSE) /\ SetTrackFails(output.index, slim.next) /\ Upset("load")
  /\ Rest /\ UNCHANGED told

Connect ==
  /\ \/ StrmSocket(TRUE) /\ NoUpset
     \/ StrmSocket(FALSE) /\ Upset("unreachable")
  /\ told' = [events |-> <<>>,
              holds |-> ~slim.fails /\ (slim.next => told.holds)]
  /\ Rest /\ UNCHANGED rendererVars

\* A status round; LMS is told what it found.  A round that has nothing to find
\* is left out; one that finds an empty stream finds it again and again.
Worth ==
  \/ stream.state = "DISCONNECT" \/ output.started \/ flags.sendSTMd
  \/ output.state = "RUNNING" /\ flags.canSTMdu /\ render.state = "STOPPED"
  \/ output.state = "RUNNING" /\ output.completed /\ ~stream.bytes
  \/ decode.state = "READY" /\ stream.state = "HTTP"
  \/ decode.state = "COMPLETE" /\ flags.canSTMdu /\ output.completed
  \/ decode.state = "ERROR"
  \/ decode.state = "RUNNING" /\ "decode" \in Upsets

Round1 == /\ Worth /\ Len(stat) < MaxStat
          /\ RoundOutput
          /\ Rest /\ NoUpset /\ UNCHANGED <<rendererVars, told>>

Round2 ==
  /\ \E near \in BOOLEAN :
       /\ RoundDecode(near)
       /\ told' = [told EXCEPT !.events = told.events \o Milestones(IsDecoded(near))]
  /\ IF Starts THEN SqPlay ELSE UNCHANGED rendererVars
  /\ Rest /\ NoUpset

SlimCommand == Command_q \/ Command_f \/ Command_p \/ Command_u \/ Command_s
SlimGoesOn == \/ Callback_STOP \/ Callback_PAUSE \/ Callback_UNPAUSE \/ After_UNPAUSE
              \/ Callback_SET_TRACK \/ Connect \/ Round2

-----------------------------------------------------------------------------
(* MRThread.  Thirty seconds without a track only pass when LMS does not   *)
(* play.                                                                   *)

Message ==
  /\ \/ MRMessage(TRUE) /\ NoUpset
     \/ MRMessage(FALSE) /\ cast' = cast /\ Upset("load")
  /\ Rest /\ UNCHANGED <<slimVars, told>>

Timers ==
  /\ \/ (MRTimeout \/ MRRelease) /\ NoUpset
     \/ MRTimers("goes on", FALSE) /\ NoUpset
     \/ MRTimers("goes on", TRUE) /\ lms.mode = "stop" /\ NoUpset
     \/ MRTimers("missed", FALSE) /\ Upset("missed")
  /\ Rest /\ UNCHANGED <<slimVars, told>>

WaitOver ==
  /\ MRTimers("over", FALSE)
  /\ Rest /\ NoUpset /\ UNCHANGED <<slimVars, told>>

\* LMS obeys what it is told by the CLI: the user did it on the device.
Heed(n) ==
  lms' = IF ~n.sure \/ lms.mode = "stop" THEN lms
         ELSE CASE n.event = "PLAY"  -> [lms EXCEPT !.mode = "play",
                                           !.todo = Append(lms.todo, "u")]
                [] n.event = "PAUSE" -> [lms EXCEPT !.mode = "pause",
                                           !.todo = Append(lms.todo, "p")]
                [] n.event = "STOP"  -> [lms EXCEPT !.mode = "stop",
                                           !.todo = Append(lms.todo, "q")]

Notification ==
  /\ MRNotify
  /\ LET n == Head(notes)
     IN  /\ CASE n.event = "PLAY"            -> NotifyPlay
              [] n.event = "PAUSE"           -> NotifyPause
              [] n.event = "STOP" /\ ~n.sure -> NotifyStop
              [] n.event = "STOP" /\ n.sure  -> NotifyClosed
              [] n.event = "TRACK_INFO"      -> NotifyTrackInfo(n.track)
         /\ Heed(n)
  /\ UNCHANGED <<dev, upsets, told, played>>

MRStep == Message \/ Timers \/ WaitOver \/ Notification

-----------------------------------------------------------------------------
(* The other threads of the player.  A server only serves a device that    *)
(* has its track.                                                          *)

Quiet == UNCHANGED <<rendererVars, told>> /\ Rest

Stream ==
  /\ \/ (StreamHeaders \/ StreamBuffered \/ StreamEnds) /\ NoUpset
     \/ StreamEmpty /\ Upset("empty")
     \/ StreamBreaks /\ Upset("break")
  /\ Quiet

Decode ==
  /\ \/ (DecodeOpens \/ DecodeEnds) /\ NoUpset
     \/ DecodeFails /\ Upset("decode")
  /\ Quiet

Serve ==
  /\ \E t \in Tracks :
       \/ dev.track = t /\ (ServerReads(t) \/ ServerDrains(t) \/ ServerLingers(t))
       \/ ServerExits(t)
  /\ NoUpset /\ Quiet

-----------------------------------------------------------------------------
(* The device (external).  A track starts paused, plays when it is asked   *)
(* to and something is served, and ends when everything was.               *)

Says(state) == events' = Append(events, [state |-> state, track |-> dev.track])

Idles == IF dev.state = "none" THEN <<>> ELSE <<[state |-> "IDLE", track |-> 0]>>

DevObeys ==
  /\ cast # <<>>
  /\ cast' = Tail(cast)
  /\ LET c == Head(cast)
     IN  \/ /\ c.op = "LOAD"
            /\ dev' = [track |-> c.track, state |-> "paused"]
            /\ events' = events \o Idles \o <<[state |-> "PAUSED", track |-> c.track]>>
         \/ /\ c.op = "PLAY"
            /\ dev' = [dev EXCEPT !.state = IF dev.state = "paused" THEN "wanted"
                                            ELSE dev.state]
            /\ UNCHANGED events
         \/ /\ c.op = "PAUSE"
            /\ IF dev.state \in {"wanted", "playing"}
               THEN dev' = [dev EXCEPT !.state = "paused"] /\ Says("PAUSED")
               ELSE UNCHANGED <<dev, events>>
         \/ /\ c.op \in {"STOP", "RELEASE"}
            /\ dev' = [track |-> 0, state |-> "none"]
            /\ events' = events \o Idles
  /\ UNCHANGED <<mr, thread, notes, lms, upsets, played>>

Fed(t) == servers[t] \in {"drained", "lingering"} \/ Pulls(t)

DevPlays ==
  /\ dev.state = "wanted" /\ Fed(dev.track)
  /\ dev' = [dev EXCEPT !.state = "playing"]
  /\ Says("PLAYING")
  /\ played' = played \cup {dev.track}
  /\ UNCHANGED <<mr, thread, notes, cast, lms, upsets>>

\* The end of a track, also of one whose server went away.
DevEnds ==
  /\ dev.state = "playing" /\ servers[dev.track] \in {"lingering", "none"}
  /\ dev' = [track |-> 0, state |-> "none"]
  /\ events' = events \o Idles
  /\ UNCHANGED <<mr, thread, notes, cast, lms, upsets, played>>

\* A track that is not served, or of which nothing will ever come, cannot be
\* loaded.
DevGivesUp ==
  /\ dev.state \in {"paused", "wanted"}
  /\ \/ servers[dev.track] = "none"
     \/ dev.track = output.index /\ decode.state = "COMPLETE" /\ ~stream.bytes
  /\ dev' = [track |-> 0, state |-> "none"]
  /\ events' = events \o Idles
  /\ UNCHANGED <<mr, thread, notes, cast, lms, upsets, played>>

DevFails ==
  /\ dev.state # "none"
  /\ dev' = [track |-> 0, state |-> "none"]
  /\ \/ Upset("early") /\ events' = events \o Idles
     \/ Upset("close") /\ events' = Append(events, [state |-> "CLOSE", track |-> 0])
  /\ UNCHANGED <<mr, thread, notes, cast, lms, played>>

\* What MRThread asks for every second.  A report that repeats what is known is
\* left out.
DevReports ==
  /\ mr.State # "STOPPED" /\ thread = "wait" /\ events = <<>> /\ cast = <<>>
  /\ mr.State # "PLAYING" \/ render.index # dev.track
  /\ \/ dev.state = "playing" /\ Says("PLAYING")
     \/ dev.state = "wanted" /\ Says("BUFFERING")
  /\ UNCHANGED <<mr, thread, notes, cast, dev, lms, upsets, played>>

DevUser ==
  /\ \/ /\ Upset("device pause") /\ dev.state = "playing"
        /\ dev' = [dev EXCEPT !.state = "paused"] /\ Says("PAUSED")
     \/ /\ Upset("device play") /\ dev.state = "paused" /\ cast = <<>>
        /\ dev' = [dev EXCEPT !.state = "wanted"] /\ UNCHANGED events
  /\ UNCHANGED <<mr, thread, notes, cast, lms, played>>

Device == (DevObeys \/ DevPlays \/ DevEnds \/ DevGivesUp)
          /\ UNCHANGED <<slimVars, told>>

DeviceReports == DevReports /\ UNCHANGED <<slimVars, told>>

DeviceMay == (DevFails \/ DevUser) /\ UNCHANGED <<slimVars, told>>

-----------------------------------------------------------------------------
(* LMS (external).                                                         *)

More == lms.sent + 1 \in Tracks

Send(commands) == lms.todo \o commands

Next_s == [lms EXCEPT !.todo = Send(<<"s">>), !.sent = lms.sent + 1, !.begun = FALSE]
Stop_q == [lms EXCEPT !.mode = "stop", !.todo = Send(<<"q">>), !.plays = FALSE]
Skip_qs == [Next_s EXCEPT !.mode = "play", !.todo = Send(<<"q", "s">>), !.plays = FALSE]

\* It answers an event.  What it hears of a track while it waits for another
\* one to begin it does not heed.
Answer(event) ==
  IF lms.mode = "stop" THEN lms
  ELSE CASE event = "STMl" /\ lms.mode = "play" -> [lms EXCEPT !.todo = Send(<<"u">>)]
         [] event = "STMs"                      -> [lms EXCEPT !.begun = TRUE, !.plays = TRUE]
         [] event = "STMd" /\ lms.begun /\ More -> Next_s
         [] event = "STMu" /\ lms.begun         -> IF More THEN Next_s ELSE Stop_q
         [] event = "STMo" /\ lms.begun         -> [lms EXCEPT !.todo = Send(<<"p", "u">>)]
         [] event = "STMn"                      -> IF More THEN Skip_qs ELSE Stop_q
         [] OTHER                               -> lms

LMSHears ==
  /\ stat # <<>>
  /\ stat' = Tail(stat)
  /\ lms' = Answer(Head(stat))
  /\ UNCHANGED <<output, render, stream, decode, servers, ended, flags, slim>>
  /\ UNCHANGED <<rendererVars, dev, upsets, told, played>>

\* The user.  A pause is of a track that plays, and the user resumes once the
\* device has paused.
LMSUser ==
  /\ lms.todo = <<>>
  /\ \/ /\ Upset("skip") /\ More
        /\ lms' = Skip_qs
     \/ Upset("stop") /\ lms.mode # "stop" /\ lms' = Stop_q
     \/ /\ Upset("pause") /\ lms.mode = "play" /\ lms.plays
        /\ lms' = [lms EXCEPT !.mode = "pause", !.todo = <<"p">>]
     \/ /\ NoUpset /\ lms.mode = "pause" /\ render.state = "PAUSED"
        /\ thread = "wait" /\ events = <<>> /\ stat = <<>>
        /\ lms' = [lms EXCEPT !.mode = "play", !.todo = <<"u">>]
     \/ /\ Upset("take back") /\ lms.mode = "play"
        /\ lms.plays /\ ~lms.begun
        /\ lms' = [lms EXCEPT !.todo = <<"f">>, !.begun = TRUE]
  /\ UNCHANGED <<slimVars, rendererVars, dev, told, played>>

-----------------------------------------------------------------------------
Next ==
  \/ SlimCommand \/ Round1 \/ SlimGoesOn
  \/ MRStep \/ Stream \/ Decode \/ Serve
  \/ Device \/ DeviceReports \/ DeviceMay \/ LMSHears \/ LMSUser

Spec == Init /\ [][Next]_vars

\* Every thread runs, its blocking calls end, and Device->Mutex and the commands
\* of LMS are not passed over for ever; the device and LMS answer.
Fairness ==
  /\ SF_vars(SlimCommand) /\ WF_vars(Round1) /\ SF_vars(SlimGoesOn)
  /\ WF_vars(MRStep) /\ SF_vars(WaitOver)
  /\ WF_vars(Stream /\ NoUpset) /\ WF_vars(Decode /\ NoUpset) /\ WF_vars(Serve)
  /\ SF_vars(Device) /\ WF_vars(DeviceReports) /\ WF_vars(LMSHears)

FairSpec == Spec /\ Fairness

-----------------------------------------------------------------------------
(* Properties.  A track that is taken back (strm f) or refused leaves flags *)
(* of the one before: what is told from there to the next track that starts *)
(* from a stop is left out of what is claimed.                             *)

\* LMS hears that a track has started before it hears that it is decoded or at
\* its end: the start is seen by one thread, the end by another, and the round
\* that finds both holds STMd back.
StartToldFirst ==
  told.holds => \A i \in DOMAIN told.events : told.events[i] # "STMs" =>
                  \E j \in 1 .. i - 1 : told.events[j] = "STMs"

\* It hears that only once, although the start is found in two ways: PLAY after
\* the track is known, or the track after PLAY, and the device repeats both.
StartToldOnce ==
  told.holds => \A i, j \in DOMAIN told.events :
                  told.events[i] = "STMs" /\ told.events[j] = "STMs" => i = j

\* LMS hears of the start of a track before anything else, and once.
StartTold == StartToldFirst /\ StartToldOnce

Reports(event) ==
  /\ slim.at = "round" /\ slim'.at = "idle"
  /\ \E i \in Len(told.events) + 1 .. Len(told'.events) : told'.events[i] = event

\* A start is only told of a track the device did start, whatever the device
\* still says of an earlier one.
StartIsReal == [][Reports("STMs") => output.index \in played]_vars

\* The end of a track (STMu) is never told while the device plays it.
EndIsReal ==
  [][told.holds /\ Reports("STMu")
       => ~(dev.state = "playing" /\ dev.track = render.index)]_vars

\* What LMS is told of the start and the end of a track happened on the device.
EventsAreReal == StartIsReal /\ EndIsReal

\* The server of a track is not told to terminate while the device has that
\* track: it goes with a later track or after the device stopped.
ServedWhileLoaded == dev.state # "none" => dev.track \notin ended

\* A track the device is asked to load is served: between the callback that
\* gives it and the load at the end of the one before, no flush takes its server.
GivenIsServed ==
  told.holds /\ slim.at # "stop" =>
    \A i \in DOMAIN cast : cast[i].op = "LOAD" =>
        Running(cast[i].track) /\ cast[i].track \notin ended

\* A track has its server from the callback that gives it to the end of its play.
TracksAreServed == ServedWhileLoaded /\ GivenIsServed

\* LMS does not believe for ever that the player plays: it always comes to hear
\* that the last track is over, or that a track failed.
EndIsTold == <>[](lms.mode # "play")
=============================================================================
