-------------------------------- MODULE Fade --------------------------------
(***************************************************************************)
(* Transitions and replay gain (output.c): the decoder marks in outputbuf  *)
(* where a track starts and where a fade or a crossfade is to take place   *)
(* (_checkfade), and the output thread applies them to the frames it pulls *)
(* (gain_and_fade).  In flow mode the tracks follow each other in          *)
(* outputbuf; otherwise a track is pulled whole before the next starts.    *)
(*                                                                         *)
(* A frame is <<track, number>>, a position is an index of outputbuf in    *)
(* frames.  The replay gain of a track is the track.                       *)
(***************************************************************************)
EXTENDS Integers, SequencesExt

CONSTANTS Tracks,      \* how many tracks LMS has
          Lengths,     \* the lengths a track may have, in frames
          Size,        \* frames of outputbuf
          MinSpace,    \* frames the codec wants free, or process.max_out_frames
          Secs,        \* frames in fade_secs
          Modes,       \* transitions LMS may ask for
          MaxFlushes   \* bound on the flushes

ASSUME FadeAssumption ==
  /\ Tracks \in Nat \ {0} /\ Lengths \subseteq Nat \ {0} /\ MinSpace \in Nat \ {0}
  /\ Size \in Nat /\ Size > MinSpace + 1 /\ Secs \in Nat \ {0, 1}
  /\ Modes \subseteq {"NONE", "CROSSFADE", "IN", "OUT", "INOUT"} /\ MaxFlushes \in Nat

VARIABLES
  outputbuf,  \* its frames
  readp,
  output,     \* outputstate
  fade,       \* its fade, fade_dir, fade_start, fade_end and fade_writep
  decode,     \* the decoder: its state, its track, the frames of it that were written
  pulled,     \* what the output thread took last, and how
  past        \* history: frames that were heard, and that were mixed, of each
              \* track; flushes; whether one left a fade behind

vars == <<outputbuf, readp, output, fade, decode, pulled, past>>

None == -1
Track == 1..Tracks

Least(S) == CHOOSE x \in S : \A y \in S : x <= y

Used == Len(outputbuf)

\* A position `by` frames from p.
Plus(p, by) == (p + by) % Size
Minus(p, by) == (p - by) % Size

\* Frames from b to a; none when they are the same.
Distance(a, b) == IF a >= b THEN a - b ELSE a + Size - b

writep == Plus(readp, Used)

ContRead  == Least({Used, Size - readp})
ContWrite == Least({Size - Used - 1, IF writep >= readp THEN Size - writep ELSE Size})

NoFade == [state |-> "INACTIVE", dir |-> "UP", start |-> 0, end |-> 0, writep |-> None]

Nothing == [frames |-> <<>>, mixed |-> <<>>, dir |-> "none", gain |-> 0, fault |-> FALSE]

Init ==
  /\ outputbuf = <<>> /\ readp = 0
  /\ \E flow \in BOOLEAN, mode \in Modes, length \in [Track -> Lengths] :
       /\ output = [flow |-> flow, wanted |-> mode, mode |-> "NONE", track_start |-> None,
                    replay_gain |-> 0, next_replay_gain |-> 0, completed |-> TRUE]
       /\ decode = [state |-> "STOPPED", track |-> 0, frames |-> 0, length |-> length]
  /\ fade = NoFade
  /\ pulled = Nothing
  /\ past = [heard |-> [t \in Track |-> 0], mixed |-> [t \in Track |-> 0],
             flushes |-> 0, stale |-> FALSE]

-----------------------------------------------------------------------------
\* _checkfade

FadeFrames == IF output.mode = "INOUT" THEN Secs \div 2 ELSE Secs

\* A fade of n frames from a position, or to one.
From(p, dir, n) == [fade EXCEPT !.state = "DUE", !.dir = dir, !.start = p, !.end = Plus(p, n)]
UpTo(p, dir, n) == [fade EXCEPT !.state = "DUE", !.dir = dir, !.start = Minus(p, n), !.end = p]

\* What a crossfade may take: the decoder has to have room beyond it, and a
\* tenth of outputbuf stays.
CrossFrames == Least({Secs, Used, Size - MinSpace - 1, (9 * Size) \div 10})

CheckFadeStart ==
  CASE output.mode = "IN" \/ (output.mode = "INOUT" /\ Used = 0) ->
         From(writep, "UP", Least({FadeFrames, Size - 1}))
    [] output.mode = "CROSSFADE" /\ Used # 0 -> UpTo(writep, "CROSS", CrossFrames)
    [] OTHER -> fade

\* A mutant: fades a whole duration although less is left in outputbuf.
CheckFadeEnd_Whole ==
  IF output.mode \notin {"OUT", "INOUT"} THEN fade
  ELSE IF fade.state = "INACTIVE" THEN UpTo(writep, "DOWN", FadeFrames)
  ELSE [fade EXCEPT !.writep = writep]

\* A fade that is not over delays the fade out.
CheckFadeEnd ==
  IF output.mode \notin {"OUT", "INOUT"} THEN fade
  ELSE IF fade.state = "INACTIVE" THEN UpTo(writep, "DOWN", Least({FadeFrames, Used}))
  ELSE [fade EXCEPT !.writep = writep]

-----------------------------------------------------------------------------
\* The decoder.

HasRoom == Size - Used > MinSpace

\* strm s: outside flow mode once the last track was pulled, and in flow mode
\* once it was decoded and has started on the device.
NextTrack ==
  /\ decode.state \in {"STOPPED", "DONE"} /\ decode.track < Tracks
  /\ decode.state = "DONE" =>
       IF output.flow THEN past.heard[decode.track] > 0 ELSE output.completed
  /\ \E mode \in {output.wanted, "NONE"} :
       output' = [output EXCEPT !.mode = mode, !.completed = FALSE,
                                !.next_replay_gain = decode.track + 1]
  /\ decode' = [decode EXCEPT !.state = "NEW", !.track = @ + 1, !.frames = 0]
  /\ UNCHANGED <<outputbuf, readp, fade, pulled, past>>

\* The codec has found the start of the track.
NewStream ==
  /\ decode.state = "NEW" /\ HasRoom
  /\ output' = [output EXCEPT !.track_start = writep]
  /\ fade' = CheckFadeStart
  /\ decode' = [decode EXCEPT !.state = "RUNNING"]
  /\ UNCHANGED <<outputbuf, readp, pulled, past>>

Left == decode.length[decode.track] - decode.frames

Decode ==
  /\ decode.state = "RUNNING" /\ HasRoom
  /\ \E n \in 1..Least({Left, ContWrite}) :
       /\ outputbuf' = outputbuf \o [i \in 1..n |-> <<decode.track, decode.frames + i>>]
       /\ decode' = [decode EXCEPT !.frames = @ + n]
  /\ UNCHANGED <<readp, output, fade, pulled, past>>

\* decode.state tells the output thread before _checkfade does.
DecodeCompletes ==
  /\ decode.state = "RUNNING" /\ HasRoom /\ Left = 0
  /\ decode' = [decode EXCEPT !.state = "COMPLETE"]
  /\ UNCHANGED <<outputbuf, readp, output, fade, pulled, past>>

DecodeDone ==
  /\ decode.state = "COMPLETE"
  /\ fade' = CheckFadeEnd
  /\ decode' = [decode EXCEPT !.state = "DONE"]
  /\ UNCHANGED <<outputbuf, readp, output, pulled, past>>

-----------------------------------------------------------------------------
(***************************************************************************)
(* gain_and_fade, in the order of the code.  g is what it works on: the    *)
(* output record, the fade, the read pointer, how many frames are used and *)
(* how many will be pulled, and the gain.                                  *)
(***************************************************************************)

Working(n) == [output |-> output, fade |-> fade, readp |-> readp, used |-> Used,
               frames |-> n, dir |-> "none"]

\* Frames are pulled up to the position p when it is ahead of the read pointer.
Short(g, p) == IF p > g.readp THEN [g EXCEPT !.frames = Least({@, p - g.readp})] ELSE g

\* A mutant: a chunk goes on into the next track.
AtTrackStart_Through(g) ==
  IF g.output.track_start # g.readp THEN g
  ELSE [g EXCEPT !.output.track_start = None,
                 !.output.replay_gain = g.output.next_replay_gain]

AtTrackStart(g) ==
  CASE g.output.track_start = None -> g
    [] g.output.track_start = g.readp ->
         [g EXCEPT !.output.track_start = None,
                   !.output.replay_gain =
                     IF g.fade.state = "INACTIVE" \/ g.output.mode # "CROSSFADE"
                       THEN g.output.next_replay_gain ELSE @]
    [] OTHER -> Short(g, g.output.track_start)

AtFadeStart(g) ==
  IF g.fade.state # "DUE" THEN g
  ELSE IF g.fade.start = g.readp THEN [g EXCEPT !.fade.state = "ACTIVE"]
  ELSE Short(g, g.fade.start)

Position(g) == Distance(g.readp, g.fade.start)
Duration(g) == Distance(g.fade.end, g.fade.start)

\* The fade out of a track in flow mode becomes the fade in of the next.
UpAgain(g) == [g EXCEPT !.fade.dir = "UP", !.fade.start = g.readp,
                        !.fade.end = Plus(g.readp, Duration(g))]

\* The frames of the next track that were mixed are skipped.
SkipMixed(g) ==
  LET skip == IF g.used >= Duration(g) THEN Duration(g) ELSE 0
  IN [g EXCEPT !.readp = Plus(@, skip), !.used = @ - skip, !.fade.state = "INACTIVE",
               !.output.replay_gain = g.output.next_replay_gain]

\* A mutant: the frames that were mixed are played again.
CrossComplete_Stays(g) ==
  [g EXCEPT !.fade.state = "INACTIVE", !.output.replay_gain = g.output.next_replay_gain]

CrossComplete(g) == SkipMixed(g)

\* A fade out that was delayed is set up.
FadeComplete(g) ==
  IF g.fade.writep = None THEN [g EXCEPT !.fade.state = "INACTIVE"]
  ELSE [g EXCEPT !.fade.state = "INACTIVE", !.fade.dir = "DOWN", !.fade.end = g.fade.writep,
                 !.fade.start = Minus(g.fade.writep, Least({Secs \div 2, g.used}))]

AtFadeEnd(g) ==
  IF g.fade.state # "ACTIVE" \/ Position(g) < Duration(g) THEN g
  ELSE IF g.output.mode = "INOUT" /\ g.fade.dir = "DOWN" THEN UpAgain(g)
  ELSE IF g.output.mode = "CROSSFADE" THEN CrossComplete(g)
  ELSE FadeComplete(g)

\* A mutant: mixing waits for all the frames to mix.
InFade_WaitsForAll(g) ==
  LET h == Short(g, g.fade.end) IN
  IF g.fade.dir # "CROSS" THEN [h EXCEPT !.dir = g.fade.dir]
  ELSE [h EXCEPT !.dir = "CROSS",
                 !.frames = IF g.used >= 2 * Duration(g) - Position(g) THEN @ ELSE 0]

\* Mixing waits until outputbuf holds more than the crossfade.
InFade(g) ==
  LET h == Short(g, g.fade.end) IN
  IF g.fade.dir # "CROSS" THEN [h EXCEPT !.dir = g.fade.dir]
  ELSE [h EXCEPT !.dir = "CROSS",
                 !.frames = IF g.used > Duration(g) THEN Least({@, g.used - Duration(g)}) ELSE 0]

Applied(g) ==
  CASE g.fade.state = "ACTIVE" -> InFade(g)
    [] g.fade.state = "INACTIVE" /\ g.fade.writep # None ->
         [g EXCEPT !.fade.state = "DUE", !.fade.writep = None]
    [] OTHER -> g

GainAndFade(n) ==
  LET aligned == AtTrackStart(Working(n))
      started == AtFadeStart(aligned)
      ended   == AtFadeEnd(started)
  IN Applied(ended)

Kept(g) == SubSeq(outputbuf, Used - g.used + 1, Used)

\* The frames apply_cross mixes with those that are pulled.
Mixed(g) == IF g.dir # "CROSS" THEN <<>>
            ELSE SubSeq(Kept(g), Duration(g) + 1, Duration(g) + g.frames)

\* gain << 16 / dur_f
DividesByZero(g) == g.dir \in {"UP", "DOWN"} /\ Duration(g) = 0

\* After the frames that were mixed are skipped, `frames` may be more than
\* what is left, or than what is left before wrap.
Overruns(g) == g.frames > Least({g.used, Size - g.readp})

Of(frames, t) == Cardinality({i \in DOMAIN frames : frames[i][1] = t})

\* The output thread has a fill for n frames.
Fill ==
  /\ ~pulled.fault
  /\ output.flow \/ decode.state \notin {"NEW", "STOPPED"}
  /\ decode.state # "STOPPED"
  /\ \E g \in {GainAndFade(n) : n \in 1..ContRead} :
       LET frames == SubSeq(Kept(g), 1, g.frames)
       IN /\ pulled' = IF Overruns(g) \/ DividesByZero(g)
                         THEN [Nothing EXCEPT !.dir = g.dir, !.fault = TRUE]
                         ELSE [frames |-> frames, mixed |-> Mixed(g), dir |-> g.dir,
                               gain |-> g.output.replay_gain, fault |-> FALSE]
          /\ output' = g.output /\ fade' = g.fade
          /\ IF Overruns(g) \/ DividesByZero(g)
               THEN UNCHANGED <<outputbuf, readp, past>>
               ELSE /\ readp' = Plus(g.readp, g.frames)
                    /\ outputbuf' = SubSeq(Kept(g), g.frames + 1, g.used)
                    /\ past' = [past EXCEPT
                         !.heard = [t \in Track |-> @[t] + Of(frames, t)],
                         !.mixed = [t \in Track |-> @[t] + Of(Mixed(g), t)]]
  /\ UNCHANGED decode

\* Outside flow mode the output thread ends the track.
Drain ==
  /\ ~output.flow /\ ~output.completed
  /\ decode.state \in {"COMPLETE", "DONE"} /\ Used = 0
  /\ output' = [output EXCEPT !.completed = TRUE]
  /\ fade' = [fade EXCEPT !.writep = None]
  /\ UNCHANGED <<outputbuf, readp, decode, pulled, past>>

\* output_flush keeps the fade, whose positions then mean nothing.
Flush ==
  /\ past.flushes < MaxFlushes
  /\ decode.state \notin {"STOPPED", "COMPLETE"}
  /\ outputbuf' = <<>> /\ readp' = 0
  /\ output' = [output EXCEPT !.track_start = None]
  /\ fade' = [fade EXCEPT !.writep = None]
  /\ decode' = [decode EXCEPT !.state = "STOPPED"]
  /\ past' = [past EXCEPT !.flushes = @ + 1, !.stale = @ \/ fade.state # "INACTIVE",
                          !.heard[decode.track] = 0, !.mixed[decode.track] = 0]
  /\ UNCHANGED pulled

-----------------------------------------------------------------------------
Decodes == NewStream \/ Decode \/ DecodeCompletes \/ DecodeDone

Next == NextTrack \/ Decodes \/ Fill \/ Drain \/ Flush

Spec == Init /\ [][Next]_vars

\* The three threads run; LMS sends the next track when it is asked to.
FairSpec == Spec /\ WF_vars(NextTrack) /\ WF_vars(Decodes) /\ WF_vars(Fill) /\ WF_vars(Drain)

-----------------------------------------------------------------------------
TypeOK ==
  /\ outputbuf \in Seq(Track \X Nat) /\ Used < Size /\ readp \in 0..Size - 1
  /\ fade.state \in {"INACTIVE", "DUE", "ACTIVE"} /\ fade.dir \in {"UP", "DOWN", "CROSS"}
  /\ {fade.start, fade.end} \subseteq 0..Size - 1
  /\ {fade.writep, output.track_start} \subseteq 0..Size - 1 \union {None}
  /\ {output.replay_gain, output.next_replay_gain} \subseteq 0..Tracks
  /\ decode.state \in {"STOPPED", "NEW", "RUNNING", "COMPLETE", "DONE"}

\* No flush left a fade behind, and no pull went wrong.
Sane == ~past.stale /\ ~pulled.fault

\* Frames of track t that left outputbuf: the mixed ones do when the crossfade ends.
Gone(t) ==
  past.heard[t] + IF past.heard[t] = 0 /\ fade.state = "ACTIVE" /\ fade.dir = "CROSS"
                    THEN 0 ELSE past.mixed[t]

\* Whatever is faded, every frame of a track leaves outputbuf once and in its
\* turn, plain or mixed into the end of the track before (gain_and_fade, 1134:
\* the frames that are skipped are those that were mixed).
NothingLost ==
  Sane =>
    /\ Used > 0 => outputbuf[1][2] = Gone(outputbuf[1][1]) + 1
    /\ Used = 0 /\ decode.state = "DONE" /\ past.flushes = 0 =>
         Gone(decode.track) = decode.length[decode.track]

\* outputbuf keeps within its size, and loses nothing.
BufferOK == TypeOK /\ NothingLost

\* A fade is where it belongs: an upward one in the first frames of a track, a
\* downward one in its last, and a crossfade mixes the end of a track with
\* the beginning of the next (gain_and_fade, 1106-1190).
FadesInPlace ==
  Sane => \A i \in DOMAIN pulled.frames :
    LET t == pulled.frames[i][1]
        n == pulled.frames[i][2]
        most == IF output.wanted = "INOUT" THEN Secs \div 2 ELSE Secs
        atEnd == n > decode.length[t] - most
    IN CASE pulled.dir = "UP" -> n <= most
         [] pulled.dir = "DOWN" -> atEnd
         [] pulled.dir = "CROSS" -> atEnd /\ pulled.mixed[i][1] = t + 1 /\ pulled.mixed[i][2] <= most
         [] OTHER -> TRUE

\* The frames of a track are played with its own replay gain although the next
\* one was set when the next track was asked for (gain_and_fade, 1094-1104).
GainIsOwn ==
  Sane => \A i \in DOMAIN pulled.frames : pulled.frames[i][1] = pulled.gain

\* The frames that are pulled are in outputbuf, before wrap (_output_fill, 258).
PullsWhatIsThere == ~past.stale => ~pulled.fault

AllPulled ==
  decode.track = Tracks /\ (decode.state = "STOPPED" \/ (decode.state = "DONE" /\ Used = 0))

\* Everything is pulled in the end: a crossfade never waits for frames that
\* outputbuf has no room for (_checkfade, 1066-1077).
PulledInTheEnd == <>(AllPulled \/ ~Sane)

=============================================================================
