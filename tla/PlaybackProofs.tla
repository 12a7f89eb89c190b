--------------------------- MODULE PlaybackProofs ---------------------------
(***************************************************************************)
(* Proofs about Playback, for every list of tracks, every set of upsets    *)
(* and any number of them.                                                 *)
(***************************************************************************)
EXTENDS Playback, SequenceTheorems, TLAPS

\* The elements of a sequence.
In(s) == {s[i] : i \in 1..Len(s)}

\* What the device says when it lets a track go.
Ends == {"IDLE", "CLOSE"}

\* What is said, asked or notified of a track names one.
NamedSaid == \A e \in In(events) : e.state \notin Ends => e.track # 0
NamedNotes == \A n \in In(notes) :
                IF n.event = "TRACK_INFO" THEN n.track # 0 /\ ~n.sure ELSE n.track = 0
NamedAsked == \A c \in In(cast) : c.op = "LOAD" => c.track # 0
NamedHeld == /\ dev.state # "none" => dev.track # 0
             /\ slim.at = "track" => output.index # 0

Named == NamedSaid /\ NamedNotes /\ NamedAsked /\ NamedHeld

-----------------------------------------------------------------------------
(* Sequences.                                                              *)

LEMMA InAppend ==
  ASSUME NEW S, NEW s \in Seq(S), NEW x \in S
  PROVE  Append(s, x) \in Seq(S) /\ In(Append(s, x)) = In(s) \cup {x}
<1> DEFINE t == Append(s, x)
<1>1. t \in Seq(S) /\ Len(t) = Len(s) + 1 /\ Len(s) \in Nat /\ t[Len(s) + 1] = x
  BY AppendProperties
<1>2. \A i \in 1..Len(s) : t[i] = s[i]
  BY AppendProperties
<1>3. 1..Len(t) = (1..Len(s)) \cup {Len(s) + 1}
  BY <1>1
<1> QED BY <1>1, <1>2, <1>3 DEF In

LEMMA InTail ==
  ASSUME NEW S, NEW s \in Seq(S), s # <<>>
  PROVE  /\ Tail(s) \in Seq(S) /\ In(Tail(s)) \subseteq In(s)
         /\ Head(s) \in S /\ Head(s) \in In(s)
<1>1. /\ Tail(s) \in Seq(S) /\ Len(Tail(s)) = Len(s) - 1
      /\ \A i \in 1..Len(s) - 1 : Tail(s)[i] = s[i + 1]
      /\ Head(s) = s[1] /\ Len(s) \in Nat /\ Len(s) > 0
  BY HeadTailProperties, EmptySeq
<1> QED BY <1>1, ElementOfSeq DEF In

LEMMA InConcat ==
  ASSUME NEW S, NEW s \in Seq(S), NEW t \in Seq(S)
  PROVE  s \o t \in Seq(S) /\ In(s \o t) = In(s) \cup In(t)
<1> DEFINE u == s \o t
<1>1. /\ u \in Seq(S) /\ Len(u) = Len(s) + Len(t) /\ Len(s) \in Nat /\ Len(t) \in Nat
      /\ \A i \in 1..Len(u) : u[i] = IF i <= Len(s) THEN s[i] ELSE t[i - Len(s)]
  BY ConcatProperties
<1> HIDE DEF u
<1>2. In(u) \subseteq In(s) \cup In(t)
  BY <1>1 DEF In
<1>3. ASSUME NEW i \in 1..Len(s) PROVE s[i] \in In(u)
  BY <1>1 DEF In
<1>4. ASSUME NEW i \in 1..Len(t) PROVE t[i] \in In(u)
  <2> DEFINE k == i + Len(s)
  <2>1. k \in 1..Len(u) /\ ~(k <= Len(s)) /\ k - Len(s) = i
    BY <1>1
  <2> HIDE DEF k
  <2>2. u[k] = t[i]
    BY <1>1, <2>1
  <2> QED BY <2>1, <2>2 DEF In
<1> QED BY <1>1, <1>2, <1>3, <1>4 DEF In, u

LEMMA InOne ==
  ASSUME NEW S, NEW x \in S
  PROVE  <<x>> \in Seq(S) /\ In(<<x>>) = {x}
BY DEF In

LEMMA InTwo ==
  ASSUME NEW S, NEW x \in S, NEW y \in S
  PROVE  <<x, y>> \in Seq(S) /\ In(<<x, y>>) = {x, y}
<1>1. Len(<<x, y>>) = 2 /\ 1..2 = {1, 2}
  OBVIOUS
<1>2. In(<<x, y>>) = {<<x, y>>[i] : i \in {1, 2}}
  BY <1>1 DEF In
<1> QED BY <1>2

LEMMA InNone ==
  ASSUME NEW S
  PROVE  <<>> \in Seq(S) /\ In(<<>>) = {}
BY DEF In

-----------------------------------------------------------------------------
(* Types of the SlimProto client.                                          *)

LEMMA StatusRecords ==
  ASSUME SlimTypeOK
  PROVE  /\ output.index \in Tracks \cup {0} /\ render.index \in Tracks \cup {-1}
         /\ output.started \in BOOLEAN /\ output.completed \in BOOLEAN /\ output.unread \in BOOLEAN
         /\ stream.bytes \in BOOLEAN /\ stream.ok \in BOOLEAN /\ decode.new_stream \in BOOLEAN
         /\ flags.canSTMdu \in BOOLEAN /\ flags.sentSTMu \in BOOLEAN /\ flags.sentSTMo \in BOOLEAN
         /\ flags.sentSTMl \in BOOLEAN /\ flags.sendSTMd \in BOOLEAN /\ flags.lastQ \in BOOLEAN
         /\ slim.next \in BOOLEAN /\ slim.fails \in BOOLEAN /\ slim.round \in Round
         /\ slim.round.STMs \in BOOLEAN /\ slim.round.STMu \in BOOLEAN
         /\ slim.round.STMo \in BOOLEAN /\ slim.round.STMn \in BOOLEAN
         /\ slim.round.DSCO \in BOOLEAN
BY DEF SlimTypeOK, OutputType, RenderType, StreamType, DecodeType, FlagsType, SlimType, Round

LEMMA Joined ==
  ASSUME SlimTypeOK, NEW these, Join(these)
  PROVE  servers' \in [Tracks -> Server] /\ ended' \subseteq Tracks
BY DEF SlimTypeOK, Join, Server

LEMMA Ended ==
  ASSUME SlimTypeOK, NEW t, Terminate(t) \/ TerminateBelow(t)
  PROVE  ended' \subseteq Tracks
BY DEF SlimTypeOK, Terminate, TerminateBelow

LEMMA SaidOf ==
  ASSUME NEW e \in StatEvent, NEW b \in BOOLEAN
  PROVE  Say(e, b) \in Seq(StatEvent) /\ In(Say(e, b)) = IF b THEN {e} ELSE {}
BY InOne, InNone DEF Say

\* The commands of LMS keep the types.
LEMMA StrmTypes ==
  ASSUME SlimTypeOK,
         \/ StrmStop \/ StrmStopped \/ StrmFlush \/ StrmPause \/ StrmPaused
         \/ StrmUnpause \/ StrmUnpausing \/ StrmUnpaused
         \/ \E a \in {0, 1}, r \in BOOLEAN : StrmStart(a, r)
         \/ \E b \in BOOLEAN : StrmTrackSet(b) \/ StrmSocket(b)
  PROVE  SlimTypeOK'
<1> USE DEF GoTo, At
<1>0. /\ output \in OutputType /\ render \in RenderType /\ stream \in StreamType
      /\ decode \in DecodeType /\ servers \in [Tracks -> Server] /\ ended \subseteq Tracks
      /\ flags \in FlagsType /\ slim \in SlimType /\ stat \in Seq(StatEvent)
  BY DEF SlimTypeOK
<1>1. CASE StrmStop
  <2>1. servers' \in [Tracks -> Server] /\ ended' \subseteq Tracks
    BY <1>1, Joined DEF StrmStop, OutputFlush
  <2>2. /\ output' \in OutputType /\ flags' \in FlagsType /\ slim' \in SlimType
        /\ stat' \in Seq(StatEvent)
    BY <1>0, <1>1 DEF StrmStop, OutputFlush, OutputType, FlagsType, SlimType
  <2>3. render' \in RenderType /\ stream' \in StreamType /\ decode' \in DecodeType
    BY <1>0, <1>1 DEF StrmStop, OutputFlush, RenderType, StreamType, DecodeType
  <2> QED BY <2>1, <2>2, <2>3 DEF SlimTypeOK
<1>2. CASE StrmFlush
  <2>1. servers' \in [Tracks -> Server] /\ ended' \subseteq Tracks
    BY <1>2, Joined DEF StrmFlush, OutputFlushNext
  <2>2. /\ output' \in OutputType /\ flags' \in FlagsType /\ slim' \in SlimType
        /\ stat' \in Seq(StatEvent)
    BY <1>0, <1>2 DEF StrmFlush, OutputFlushNext, OutputType, FlagsType
  <2>3. render' \in RenderType /\ stream' \in StreamType /\ decode' \in DecodeType
    BY <1>0, <1>2 DEF StrmFlush, OutputFlushNext, RenderType, StreamType, DecodeType
  <2> QED BY <2>1, <2>2, <2>3 DEF SlimTypeOK
<1>3. CASE StrmStopped \/ StrmPaused \/ StrmUnpausing
  <2>1. slim' \in SlimType
    BY <1>0, <1>3 DEF StrmStopped, StrmPaused, StrmUnpausing, SlimType
  <2> QED BY <1>0, <1>3, <2>1 DEF SlimTypeOK, StrmStopped, StrmPaused, StrmUnpausing
<1>4. CASE StrmPause \/ StrmUnpause \/ StrmUnpaused
  <2>1. slim' \in SlimType /\ flags' \in FlagsType /\ output' \in OutputType
    BY ZenonT(40), <1>0, <1>4 DEF StrmPause, StrmUnpause, StrmUnpaused, SlimType, FlagsType, OutputType
  <2> QED BY <1>0, <1>4, <2>1 DEF SlimTypeOK, StrmPause, StrmUnpause, StrmUnpaused
<1>5. ASSUME NEW a \in {0, 1}, NEW r \in BOOLEAN, StrmStart(a, r)
      PROVE  SlimTypeOK'
  <2>1. NewTrack \in Tracks
    BY <1>5 DEF StrmStart
  <2>2. flags' \in FlagsType /\ render' \in RenderType /\ stream' \in StreamType
        /\ stat' \in Seq(StatEvent)
    BY <1>0, <1>5 DEF StrmStart, FlagsType
  <2>3. slim' \in SlimType
    <3> DEFINE p == IF r THEN "socket" ELSE "track"
               n == render.index # -1
    <3>1. p \in {"socket", "track"} /\ n \in BOOLEAN
      OBVIOUS
    <3>2. slim' = [slim EXCEPT !.at = p, !.next = n, !.fails = r]
      BY <1>5 DEF StrmStart
    <3> HIDE DEF p, n
    <3> QED BY <1>0, <3>1, <3>2 DEF SlimType
  <2>4. CASE r
    BY <1>0, <1>5, <2>1, <2>2, <2>3, <2>4 DEF SlimTypeOK, StrmStart, OutputType
  <2>5. CASE ~r
    <3>1. output' \in OutputType
      BY <1>0, <1>5, <2>1, <2>5 DEF StrmStart, OutputType
    <3>2. decode' \in DecodeType
      <4>1. decode' = [state |-> "READY", new_stream |-> TRUE]
        BY <1>5, <2>5 DEF StrmStart
      <4> QED BY <4>1 DEF DecodeType
    <3>3. servers' \in [Tracks -> Server] /\ ended' \subseteq Tracks
      BY <1>0, <1>5, <2>5 DEF StrmStart, Server
    <3> QED BY <2>2, <2>3, <3>1, <3>2, <3>3 DEF SlimTypeOK
  <2> QED BY <2>4, <2>5
<1>6. ASSUME NEW b \in BOOLEAN, StrmTrackSet(b)
      PROVE  SlimTypeOK'
  <2>1. slim' \in SlimType
    <3> DEFINE f == ~b
    <3>1. f \in BOOLEAN /\ slim' = [slim EXCEPT !.at = "socket", !.fails = f]
      BY <1>6 DEF StrmTrackSet
    <3> HIDE DEF f
    <3> QED BY <1>0, <3>1 DEF SlimType
  <2>2. ended' \subseteq Tracks
    BY <1>0, <1>6, Ended DEF StrmTrackSet
  <2> QED BY <1>0, <1>6, <2>1, <2>2 DEF SlimTypeOK, StrmTrackSet
<1>7. ASSUME NEW b \in BOOLEAN, StrmSocket(b)
      PROVE  SlimTypeOK'
  <2>1. slim' \in SlimType /\ flags' \in FlagsType
    BY <1>0, <1>7 DEF StrmSocket, Untold, SlimType, FlagsType
  <2>2. stream' \in StreamType
    BY <1>0, <1>7 DEF StrmSocket, StreamType
  <2>3. stat' \in Seq(StatEvent)
    BY <1>0, <1>7 DEF StrmSocket, StatEvent
  <2> QED BY <1>0, <1>7, <2>1, <2>2, <2>3 DEF SlimTypeOK, StrmSocket
<1> QED BY <1>1, <1>2, <1>3, <1>4, <1>5, <1>6, <1>7

\* What a round sends is an event of it.
LEMMA SentTypes ==
  ASSUME SlimTypeOK, NEW d \in BOOLEAN, NEW n \in BOOLEAN, NEW l \in BOOLEAN
  PROVE  Milestones(d) \in Seq(StatEvent) /\ Sent(d, n, l) \in Seq(StatEvent)
<1> DEFINE r == slim.round
           held == ~r.STMs /\ (d \/ flags.sendSTMd)
           bad == r.STMn \/ n
<1>1. /\ Say("STMs", r.STMs) \in Seq(StatEvent) /\ Say("STMu", r.STMu) \in Seq(StatEvent)
      /\ Say("STMo", r.STMo) \in Seq(StatEvent) /\ Say("DSCO", r.DSCO) \in Seq(StatEvent)
      /\ Say("STMl", l) \in Seq(StatEvent)
  BY StatusRecords, SaidOf DEF StatEvent
<1>2. Say("STMd", held) \in Seq(StatEvent) /\ Say("STMn", bad) \in Seq(StatEvent)
  <2>1. held \in BOOLEAN /\ bad \in BOOLEAN
    OBVIOUS
  <2> HIDE DEF held, bad
  <2> QED BY <2>1, SaidOf DEF StatEvent
<1>3. Milestones(d) \in Seq(StatEvent)
  BY <1>1, <1>2, InConcat DEF Milestones
<1> QED BY <1>1, <1>2, <1>3, InConcat DEF Sent

\* A status round keeps the types.
LEMMA RoundTypes ==
  ASSUME SlimTypeOK, RoundOutput \/ \E near \in BOOLEAN : RoundDecode(near)
  PROVE  SlimTypeOK'
<1>0. /\ output \in OutputType /\ render \in RenderType /\ stream \in StreamType
      /\ decode \in DecodeType /\ servers \in [Tracks -> Server] /\ ended \subseteq Tracks
      /\ flags \in FlagsType /\ slim \in SlimType /\ stat \in Seq(StatEvent)
  BY DEF SlimTypeOK
<1>1. CASE RoundOutput
  <2> DEFINE gone == stream.state = "DISCONNECT"
             u == Over /\ ~flags.sentSTMu /\ output.completed /\ StreamOver(stream.state)
             o == Over /\ ~flags.sentSTMo /\ stream.state = "HTTP"
             open == stream.state = "HTTP"
             clean == gone /\ stream.ok
             dead == Dead
             can == CanTell
             su == flags.sentSTMu \/ u
             so == flags.sentSTMo \/ o
             st == output.started
             rd == output.completed
  <2>1. /\ gone \in BOOLEAN /\ u \in BOOLEAN /\ o \in BOOLEAN /\ open \in BOOLEAN
        /\ clean \in BOOLEAN /\ dead \in BOOLEAN /\ can \in BOOLEAN
        /\ su \in BOOLEAN /\ so \in BOOLEAN
    BY DEF Over, Dead, CanTell
  <2>2. st \in BOOLEAN /\ rd \in BOOLEAN
    BY <1>0 DEF OutputType
  <2>3. /\ stream' = (IF gone THEN [stream EXCEPT !.state = "STOPPED"] ELSE stream)
        /\ render' = (IF dead THEN [render EXCEPT !.state = "STOPPED"] ELSE render)
        /\ output' = [output EXCEPT !.started = FALSE,
                                    !.state = IF u \/ o THEN "STOPPED" ELSE output.state]
        /\ flags' = [flags EXCEPT !.canSTMdu = can, !.sentSTMu = su, !.sentSTMo = so]
        /\ slim' = [slim EXCEPT !.at = "round", !.round =
                      [STMs |-> st, STMu |-> u, STMo |-> o, STMn |-> dead, DSCO |-> gone,
                       ready |-> rd, open |-> open, clean |-> clean]]
        /\ UNCHANGED <<decode, servers, ended, stat>>
    BY <1>1 DEF RoundOutput
  <2> HIDE DEF gone, u, o, open, clean, dead, can, su, so, st, rd
  <2>4. stream' \in StreamType /\ render' \in RenderType /\ output' \in OutputType
    BY <1>0, <2>3 DEF StreamType, RenderType, OutputType
  <2>5. flags' \in FlagsType
    BY <1>0, <2>1, <2>3 DEF FlagsType
  <2>6. slim' \in SlimType
    <3>1. [STMs |-> st, STMu |-> u, STMo |-> o, STMn |-> dead, DSCO |-> gone,
           ready |-> rd, open |-> open, clean |-> clean] \in Round
      BY <2>1, <2>2 DEF Round
    <3> QED BY <1>0, <2>3, <3>1 DEF SlimType
  <2> QED BY <1>0, <2>3, <2>4, <2>5, <2>6 DEF SlimTypeOK
<1>2. ASSUME NEW near \in BOOLEAN, RoundDecode(near)
      PROVE  SlimTypeOK'
  <2> DEFINE d == IsDecoded(near)
             n == HasFailed(near)
             l == StartsTold
             a == flags.sentSTMl \/ l
             b == slim.round.STMs /\ (d \/ flags.sendSTMd)
  <2>1. d \in BOOLEAN /\ n \in BOOLEAN /\ l \in BOOLEAN /\ a \in BOOLEAN /\ b \in BOOLEAN
    BY DEF IsDecoded, HasFailed, StartsTold
  <2>2. /\ decode' = [decode EXCEPT !.state =
                        IF Starts THEN "RUNNING" ELSE IF d \/ n THEN "STOPPED" ELSE decode.state]
        /\ output' = (IF Starts /\ flags.autostart = 1
                      THEN [output EXCEPT !.state = "RUNNING"] ELSE output)
        /\ stream' = (IF (d \/ n) /\ slim.round.open
                      THEN [stream EXCEPT !.state = "STOPPED"] ELSE stream)
        /\ flags' = [flags EXCEPT !.sentSTMl = a, !.sendSTMd = b]
        /\ stat' = stat \o Sent(d, n, l)
        /\ slim' = [slim EXCEPT !.at = "idle", !.round = NoRound]
        /\ UNCHANGED <<render, servers, ended>>
    BY <1>2 DEF RoundDecode
  <2> HIDE DEF d, n, l, a, b
  <2>3. stat' \in Seq(StatEvent)
    BY <1>0, <2>1, <2>2, SentTypes, InConcat
  <2>4. decode' \in DecodeType /\ output' \in OutputType /\ stream' \in StreamType
    BY <1>0, <2>2 DEF DecodeType, OutputType, StreamType
  <2>5. flags' \in FlagsType
    BY <1>0, <2>1, <2>2 DEF FlagsType
  <2>6. slim' \in SlimType
    <3>1. NoRound \in Round
      BY DEF NoRound, Round
    <3> QED BY <1>0, <2>2, <3>1 DEF SlimType
  <2> QED BY <1>0, <2>2, <2>3, <2>4, <2>5, <2>6 DEF SlimTypeOK
<1> QED BY <1>1, <1>2

\* So do the notifications of MRThread.
LEMMA NotifyTypes ==
  ASSUME SlimTypeOK,
         \/ NotifyPlay \/ NotifyPause \/ NotifyStop \/ NotifyClosed
         \/ \E t \in Tracks : NotifyTrackInfo(t)
  PROVE  SlimTypeOK'
<1>0. /\ output \in OutputType /\ render \in RenderType /\ stream \in StreamType
      /\ decode \in DecodeType /\ servers \in [Tracks -> Server] /\ ended \subseteq Tracks
      /\ flags \in FlagsType /\ slim \in SlimType /\ stat \in Seq(StatEvent)
  BY DEF SlimTypeOK
<1>1. CASE NotifyPlay
  <2> DEFINE starts == render.state \notin {"PAUSED", "PLAYING"} /\ render.index = output.index
             s == output.started \/ starts
  <2>1. s \in BOOLEAN /\ output' = [output EXCEPT !.started = s]
    BY <1>1 DEF NotifyPlay
  <2>2. ended' \subseteq Tracks
    BY <1>0, <1>1, Ended DEF NotifyPlay
  <2>3. render' \in RenderType
    BY <1>0, <1>1 DEF NotifyPlay, RenderType
  <2> HIDE DEF s
  <2>4. output' \in OutputType
    BY <1>0, <2>1 DEF OutputType
  <2> QED BY <1>0, <1>1, <2>2, <2>3, <2>4 DEF SlimTypeOK, NotifyPlay
<1>2. CASE NotifyPause
  <2>1. render' \in RenderType
    BY <1>0, <1>2 DEF NotifyPause, RenderType
  <2> QED BY <1>0, <1>2, <2>1 DEF SlimTypeOK, NotifyPause
<1>3. CASE NotifyStop
  <2>1. render' \in RenderType
    BY <1>0, <1>3 DEF NotifyStop, RenderType
  <2>2. ended' \subseteq Tracks
    BY <1>0, <1>3, Ended DEF NotifyStop
  <2> QED BY <1>0, <1>3, <2>1, <2>2 DEF SlimTypeOK, NotifyStop
<1>4. CASE NotifyClosed
  BY <1>4 DEF NotifyClosed, slimVars, SlimTypeOK
<1>5. ASSUME NEW t \in Tracks, NotifyTrackInfo(t)
      PROVE  SlimTypeOK'
  <2>1. CASE IsNews(t)
    <3> DEFINE s == output.started \/ render.state = "PLAYING"
    <3>1. s \in BOOLEAN /\ output' = [output EXCEPT !.started = s]
      BY <1>5, <2>1 DEF NotifyTrackInfo
    <3>2. ended' \subseteq Tracks
      BY <1>0, <1>5, <2>1, Ended DEF NotifyTrackInfo
    <3>3. render' \in RenderType
      BY <1>0, <1>5, <2>1 DEF NotifyTrackInfo, RenderType
    <3> HIDE DEF s
    <3>4. output' \in OutputType
      BY <1>0, <3>1 DEF OutputType
    <3> QED BY <1>0, <1>5, <3>2, <3>3, <3>4 DEF SlimTypeOK, NotifyTrackInfo
  <2>2. CASE ~IsNews(t)
    BY <1>0, <1>5, <2>2 DEF SlimTypeOK, NotifyTrackInfo
  <2> QED BY <2>1, <2>2
<1> QED BY <1>1, <1>2, <1>3, <1>4, <1>5

\* So do the stream thread, the decoder and the servers.
LEMMA ThreadTypes ==
  ASSUME SlimTypeOK,
         \/ StreamHeaders \/ StreamBuffered \/ StreamEnds \/ StreamEmpty \/ StreamBreaks
         \/ DecodeOpens \/ DecodeEnds \/ DecodeFails
         \/ \E t \in Tracks : ServerReads(t) \/ ServerDrains(t) \/ ServerLingers(t) \/ ServerExits(t)
  PROVE  SlimTypeOK'
<1>0. /\ output \in OutputType /\ render \in RenderType /\ stream \in StreamType
      /\ decode \in DecodeType /\ servers \in [Tracks -> Server] /\ ended \subseteq Tracks
      /\ flags \in FlagsType /\ slim \in SlimType /\ stat \in Seq(StatEvent)
  BY DEF SlimTypeOK
<1>1. CASE StreamHeaders \/ StreamBuffered \/ StreamEnds \/ StreamEmpty \/ StreamBreaks
  <2>1. stream' \in StreamType
    BY <1>0, <1>1
    DEF StreamHeaders, StreamBuffered, StreamEnds, StreamEmpty, StreamBreaks, StreamType
  <2> QED BY <1>0, <1>1, <2>1
    DEF SlimTypeOK, StreamHeaders, StreamBuffered, StreamEnds, StreamEmpty, StreamBreaks
<1>2. CASE DecodeOpens \/ DecodeEnds \/ DecodeFails
  <2>1. decode' \in DecodeType
    BY <1>0, <1>2 DEF DecodeOpens, DecodeEnds, DecodeFails, DecodeType
  <2>2. output' \in OutputType
    BY <1>0, <1>2 DEF DecodeOpens, DecodeEnds, DecodeFails, OutputType
  <2> QED BY <1>0, <1>2, <2>1, <2>2 DEF SlimTypeOK, DecodeOpens, DecodeEnds, DecodeFails
<1>3. ASSUME NEW t \in Tracks, ServerReads(t) \/ ServerDrains(t) \/ ServerLingers(t)
      PROVE  SlimTypeOK'
  <2>1. output' \in OutputType
    BY <1>0, <1>3 DEF ServerReads, ServerDrains, ServerLingers, OutputType
  <2>2. servers' \in [Tracks -> Server]
    BY <1>0, <1>3 DEF ServerReads, ServerDrains, ServerLingers, Server
  <2> QED BY <1>0, <1>3, <2>1, <2>2 DEF SlimTypeOK, ServerReads, ServerDrains, ServerLingers
<1>4. ASSUME NEW t \in Tracks, ServerExits(t)
      PROVE  SlimTypeOK'
  <2>1. servers' \in [Tracks -> Server] /\ ended' \subseteq Tracks
    BY <1>4, Joined DEF ServerExits
  <2> QED BY <1>0, <1>4, <2>1 DEF SlimTypeOK, ServerExits
<1> QED BY <1>1, <1>2, <1>3, <1>4

-----------------------------------------------------------------------------
(* What the renderer does.                                                 *)

LEMMA CommandTypes ==
  ASSUME NEW t \in Tracks \cup {0}, NEW op \in {"LOAD", "PLAY", "PAUSE", "STOP", "RELEASE"}
  PROVE  Tell(op, t) \in Command /\ Tell(op, t).op = op /\ Tell(op, t).track = t
BY DEF Tell, Command

LEMMA NoteTypes ==
  ASSUME NEW e \in {"PLAY", "PAUSE", "STOP"}, NEW b \in BOOLEAN
  PROVE  /\ Notify(e, b) \in Seq(Note)
         /\ \A n \in In(Notify(e, b)) : n.event = e /\ n.track = 0 /\ n.sure = b
<1> DEFINE n == [event |-> e, sure |-> b, track |-> 0]
<1>1. n \in Note /\ n.event = e /\ n.track = 0 /\ n.sure = b
  BY DEF Note
<1> HIDE DEF n
<1>2. <<n>> \in Seq(Note) /\ In(<<n>>) = {n}
  BY <1>1, InOne
<1> QED BY <1>1, <1>2 DEF Notify, n

\* What LMS commands gives the device the track it names and no other.
LEMMA SetTrackDoes ==
  ASSUME RendererTypeOK, NEW t \in Tracks \cup {0}, NEW b \in BOOLEAN,
         SetTrack(t, b) \/ SetTrackFails(t, b)
  PROVE  /\ RendererTypeOK' /\ UNCHANGED <<thread, notes, events>>
         /\ \/ cast' = cast /\ (mr'.next = t \/ mr'.next = 0)
            \/ mr'.next = 0 /\ cast' = Append(cast, Tell("LOAD", t))
            \/ mr'.next = 0 /\ cast' = Append(Append(cast, Tell("LOAD", t)), Tell("PLAY", 0))
         /\ SetTrackFails(t, b) => mr'.next = 0 /\ cast' = cast
         /\ ShortTracks = {} /\ ~mr.ShortTrack /\ ~mr.waits => ~mr'.ShortTrack /\ ~mr'.waits
<1>0. /\ mr \in MR /\ thread \in {"wait", "message", "timers"} /\ notes \in Seq(Note)
      /\ events \in Seq(Status) /\ cast \in Seq(Command)
  BY DEF RendererTypeOK
<1>10. SetTrackFails(t, b) => mr'.next = 0 /\ cast' = cast
  BY <1>0 DEF SetTrackFails, MR
<1> DEFINE s == mr.ShortTrack \/ Short(t)
           w == mr.waits /\ ~b
           loaded == [mr EXCEPT !.next = 0, !.ShortTrack = s, !.waits = w]
           load == Append(cast, Tell("LOAD", t))
<1>1. UNCHANGED <<thread, notes, events>>
  BY DEF SetTrack, SetTrackFails
<1>2. s \in BOOLEAN /\ w \in BOOLEAN /\ loaded \in MR /\ loaded.next = 0
      /\ loaded.ShortTrack = s /\ loaded.waits = w
  <2>1. s \in BOOLEAN /\ w \in BOOLEAN
    OBVIOUS
  <2> HIDE DEF s, w
  <2> QED BY <1>0, <2>1 DEF MR
<1>3. load \in Seq(Command) /\ Append(load, Tell("PLAY", 0)) \in Seq(Command)
  BY <1>0, CommandTypes
<1>4. ShortTracks = {} /\ ~mr.ShortTrack /\ ~mr.waits => ~s /\ ~w
  BY DEF Short
<1>5. CASE mr' = [mr EXCEPT !.next = t] /\ cast' = cast
  <2>1. /\ mr' \in MR /\ mr'.next = t /\ mr'.ShortTrack = mr.ShortTrack /\ mr'.waits = mr.waits
    BY <1>0, <1>5 DEF MR
  <2> QED BY <1>0, <1>1, <1>5, <1>10, <2>1 DEF RendererTypeOK
<1>6. CASE mr' = loaded /\ cast' \in {cast, load, Append(load, Tell("PLAY", 0))}
  <2> HIDE DEF loaded, s, w
  <2> QED BY <1>0, <1>1, <1>2, <1>3, <1>4, <1>6, <1>10 DEF RendererTypeOK
<1>7. (mr' = [mr EXCEPT !.next = t] /\ cast' = cast)
      \/ (mr' = loaded /\ cast' \in {cast, load, Append(load, Tell("PLAY", 0))})
  <2>1. load \o <<Tell("PLAY", 0)>> = Append(load, Tell("PLAY", 0)) /\ load \o <<>> = load
    <3> HIDE DEF load
    <3> QED BY <1>3, CommandTypes, AppendIsConcat, ConcatEmptySeq
  <2>2. CASE SetTrack(t, b)
    BY <2>1, <2>2 DEF SetTrack
  <2>3. CASE SetTrackFails(t, b)
    BY <2>3 DEF SetTrackFails
  <2> QED BY <2>2, <2>3
<1> QED BY <1>5, <1>6, <1>7

LEMMA CallbackDoes ==
  ASSUME RendererTypeOK, SqPlay \/ SqPause \/ SqStop
  PROVE  /\ RendererTypeOK' /\ UNCHANGED <<thread, notes, events>>
         /\ \/ mr'.next = mr.next
               /\ cast' \in {cast, Append(cast, Tell("PLAY", 0)), Append(cast, Tell("PAUSE", 0))}
            \/ mr'.next = 0 /\ cast' = <<Tell("STOP", 0)>>
         /\ SqStop => mr'.next = 0 /\ cast' = <<Tell("STOP", 0)>>
         /\ ~mr.ShortTrack /\ ~mr.waits => ~mr'.ShortTrack /\ ~mr'.waits
<1>0. /\ mr \in MR /\ thread \in {"wait", "message", "timers"} /\ notes \in Seq(Note)
      /\ events \in Seq(Status) /\ cast \in Seq(Command)
  BY DEF RendererTypeOK
<1>1. UNCHANGED <<thread, notes, events>>
  BY DEF SqPlay, SqPause, SqStop
<1>5. SqStop => mr'.next = 0 /\ cast' = <<Tell("STOP", 0)>>
  BY <1>0 DEF SqStop, MR
<1>2. CASE SqPlay
  <2>1. /\ mr' \in MR /\ mr'.next = mr.next /\ mr'.ShortTrack = mr.ShortTrack
        /\ mr'.waits = mr.waits
    BY <1>0, <1>2 DEF SqPlay, MR
  <2>2. CASE mr.sqState = "PLAY"
    <3>1. cast' = cast
      BY <1>2, <2>2 DEF SqPlay
    <3> QED BY <1>0, <1>1, <1>5, <2>1, <3>1 DEF RendererTypeOK
  <2>3. CASE mr.sqState # "PLAY"
    <3>1. cast' = Append(cast, Tell("PLAY", 0))
      BY <1>2, <2>3 DEF SqPlay
    <3>2. cast' \in Seq(Command)
      BY <1>0, <3>1, CommandTypes
    <3> QED BY <1>0, <1>1, <1>5, <2>1, <3>1, <3>2 DEF RendererTypeOK
  <2> QED BY <2>2, <2>3
<1>3. CASE SqPause
  <2>1. /\ mr' \in MR /\ mr'.next = mr.next /\ mr'.ShortTrack = mr.ShortTrack
        /\ mr'.waits = mr.waits
    BY <1>0, <1>3 DEF SqPause, MR
  <2>2. cast' = Append(cast, Tell("PAUSE", 0)) /\ cast' \in Seq(Command)
    BY <1>0, <1>3, CommandTypes DEF SqPause
  <2> QED BY <1>0, <1>1, <1>5, <2>1, <2>2 DEF RendererTypeOK
<1>4. CASE SqStop
  <2>1. /\ mr' \in MR /\ mr'.next = 0 /\ ~mr'.ShortTrack /\ ~mr'.waits
    BY <1>0, <1>4 DEF SqStop, MR
  <2>2. cast' = <<Tell("STOP", 0)>> /\ cast' \in Seq(Command)
    BY <1>4, CommandTypes, InOne DEF SqStop
  <2> QED BY <1>0, <1>1, <1>5, <2>1, <2>2 DEF RendererTypeOK
<1> QED BY <1>2, <1>3, <1>4

\* A notification names a track only if the status it comes from does.
Comes(n, e) ==
  /\ n.event = "TRACK_INFO" => ~n.sure /\ n.track = e.track /\ e.state \notin Ends
  /\ n.event # "TRACK_INFO" => n.track = 0
  /\ n.event = "STOP" => e.state \in Ends

\* One status is consumed.  The next track is loaded at most once.
LEMMA MessageDoes ==
  ASSUME RendererTypeOK, NEW b \in BOOLEAN, MRMessage(b)
  PROVE  /\ RendererTypeOK' /\ thread = "wait" /\ events # <<>> /\ events' = Tail(events)
         /\ \A n \in In(notes') : Comes(n, Head(events))
         /\ \/ cast' = cast /\ mr'.next \in {mr.next, 0}
            \/ /\ mr.next # 0 /\ mr'.next = 0
               /\ cast' = Append(Append(cast, Tell("LOAD", mr.next)), Tell("PLAY", 0))
         /\ ShortTracks = {} /\ ~mr.ShortTrack /\ ~mr.waits => ~mr'.ShortTrack /\ ~mr'.waits
<1> DEFINE e == Head(events)
           info == [event |-> "TRACK_INFO", sure |-> FALSE, track |-> e.track]
           Notes == notes' \in Seq(Note) /\ \A n \in In(notes') : Comes(n, e)
           Kept == /\ mr' \in MR /\ mr'.next = mr.next /\ cast' = cast
                   /\ ~mr.ShortTrack /\ ~mr.waits => ~mr'.ShortTrack /\ ~mr'.waits
<1>0. /\ mr \in MR /\ notes \in Seq(Note) /\ events \in Seq(Status) /\ cast \in Seq(Command)
  BY DEF RendererTypeOK
<1>1. thread = "wait" /\ thread' = "message" /\ events # <<>> /\ events' = Tail(events)
  BY DEF MRMessage
<1>2. e \in Status /\ Tail(events) \in Seq(Status)
  BY <1>0, <1>1, InTail
<1>3. info \in Note /\ info.track = e.track /\ info.event = "TRACK_INFO" /\ ~info.sure
  BY <1>2 DEF Status, Note
<1> HIDE DEF e, info
<1>4. e.state \notin Ends => Comes(info, e)
  BY <1>3 DEF Comes
<1>5. ASSUME NEW v \in {"PLAY", "PAUSE", "STOP"}, NEW c \in BOOLEAN, notes' = Notify(v, c),
             v = "STOP" => e.state \in Ends
      PROVE  Notes
  BY <1>5, NoteTypes DEF Comes
<1>6. ASSUME notes' = <<>> PROVE Notes
  BY <1>6, InNone
<1>7. ASSUME notes' = <<info>>, e.state \notin Ends PROVE Notes
  BY <1>3, <1>4, <1>7, InOne
<1>8. ASSUME Kept, Notes
      PROVE  RendererTypeOK' /\ cast' = cast /\ mr'.next = mr.next
  BY <1>0, <1>1, <1>2, <1>8 DEF RendererTypeOK
<1>10. CASE e.state = "PLAYING" /\ SyncPlaying(e.track)
  <2>1. Kept
    BY <1>0, <1>10 DEF SyncPlaying, MR, PlayerState
  <2>2. Notes
    <3> DEFINE known == mr.sqState = "PAUSE"
               first == IF mr.State # "PLAYING" /\ mr.sqState # "STOP"
                        THEN Notify("PLAY", known) ELSE <<>>
    <3>1. notes' = Append(first, info)
      BY <1>10 DEF SyncPlaying, info
    <3>2. known \in BOOLEAN
      OBVIOUS
    <3> HIDE DEF known
    <3>3. first \in Seq(Note) /\ \A n \in In(first) : Comes(n, e)
      BY <3>2, NoteTypes, InNone DEF Comes
    <3> HIDE DEF first
    <3> QED BY <1>3, <1>4, <1>10, <3>1, <3>3, InAppend DEF Ends
  <2> HIDE DEF Kept, Notes
  <2> QED BY <1>1, <1>8, <2>1, <2>2 DEF Kept, Notes, e
<1>11. CASE e.state = "BUFFERING" /\ SyncOther(e.track)
  <2>1. Kept
    BY <1>0, <1>11 DEF SyncOther
  <2>2. Notes
    <3>1. notes' = <<info>> \/ notes' = <<>>
      BY <1>11 DEF SyncOther, info
    <3> QED BY <1>6, <1>7, <1>11, <3>1 DEF Ends
  <2> HIDE DEF Kept, Notes
  <2> QED BY <1>1, <1>8, <2>1, <2>2 DEF Kept, Notes, e
<1>12. ASSUME NEW recent \in BOOLEAN, e.state = "PAUSED", SyncPaused(recent)
       PROVE  Kept /\ Notes
  <2>1. Kept
    BY <1>0, <1>12 DEF SyncPaused, MR, PlayerState
  <2>2. Notes
    <3> DEFINE c == mr.sqState # "PAUSE" /\ ~recent
    <3>1. c \in BOOLEAN /\ (notes' = Notify("PAUSE", c) \/ notes' = <<>>)
      BY <1>12 DEF SyncPaused
    <3> HIDE DEF c
    <3> QED BY <1>5, <1>6, <3>1
  <2> QED BY <2>1, <2>2
<1>13. CASE e.state = "CLOSE" /\ SyncClosed
  <2>1. Kept
    BY <1>0, <1>13 DEF SyncClosed, MR, PlayerState
  <2>2. Notes
    <3>1. notes' = Notify("STOP", TRUE) \/ notes' = <<>>
      BY <1>13 DEF SyncClosed
    <3> QED BY <1>5, <1>6, <1>13, <3>1 DEF Ends
  <2> HIDE DEF Kept, Notes
  <2> QED BY <1>1, <1>8, <2>1, <2>2 DEF Kept, Notes, e
<1>14. CASE e.state = "IDLE" /\ SyncStopped(b)
  <2>1. Notes
    <3>1. notes' = Notify("STOP", FALSE) \/ notes' = <<>>
      BY <1>14 DEF SyncStopped
    <3> QED BY <1>5, <1>6, <1>14, <3>1 DEF Ends
  <2>2. CASE mr.State # "STOPPED" /\ mr.next # 0
    <3> DEFINE s == Short(mr.next)
    <3>1. s \in BOOLEAN /\ (ShortTracks = {} => ~s)
      BY DEF Short
    <3>2. /\ mr' = [[mr EXCEPT !.State = "STOPPED", !.idles = TRUE]
                       EXCEPT !.ShortTrack = s, !.next = 0]
          /\ cast' = IF b THEN cast \o <<Tell("LOAD", mr.next), Tell("PLAY", 0)>> ELSE cast
      BY <1>14, <2>2 DEF SyncStopped
    <3> HIDE DEF s
    <3>3. mr' \in MR /\ mr'.next = 0 /\ mr'.ShortTrack = s /\ mr'.waits = mr.waits
      BY <1>0, <3>1, <3>2 DEF MR, PlayerState
    <3>4. mr.next \in Tracks \cup {0}
      BY <1>0 DEF MR
    <3> DEFINE load == Tell("LOAD", mr.next)
               play == Tell("PLAY", 0)
    <3>5. load \in Command /\ play \in Command
      BY <3>4, CommandTypes
    <3>6. cast \o <<load, play>> = Append(Append(cast, load), play)
          /\ Append(Append(cast, load), play) \in Seq(Command)
      <4> HIDE DEF load, play
      <4> QED BY <1>0, <3>5
    <3>7. /\ \/ cast' = cast
             \/ cast' = Append(Append(cast, load), play)
          /\ cast' \in Seq(Command)
      BY <1>0, <3>2, <3>6
    <3> HIDE DEF load, play
    <3>8. RendererTypeOK'
      BY <1>1, <1>2, <2>1, <3>3, <3>7 DEF RendererTypeOK
    <3> QED BY <1>1, <2>1, <2>2, <3>1, <3>3, <3>7, <3>8 DEF load, play, e
  <2>3. CASE ~(mr.State # "STOPPED" /\ mr.next # 0)
    <3>1. /\ mr' \in MR /\ mr'.next = mr.next /\ cast' = cast
          /\ ~mr.ShortTrack /\ ~mr.waits => ~mr'.ShortTrack /\ ~mr'.waits
      BY ZenonT(40), <1>0, <1>14, <2>3 DEF SyncStopped, MR, PlayerState
    <3> HIDE DEF Notes
    <3> QED BY <1>1, <1>8, <2>1, <3>1 DEF Kept, Notes, e
  <2> QED BY <2>2, <2>3
<1>15. \/ e.state = "PLAYING" /\ SyncPlaying(e.track)
       \/ e.state = "BUFFERING" /\ SyncOther(e.track)
       \/ e.state = "PAUSED" /\ \E recent \in BOOLEAN : SyncPaused(recent)
       \/ e.state = "IDLE" /\ SyncStopped(b)
       \/ e.state = "CLOSE" /\ SyncClosed
  <2>1. e.state \in {"PLAYING", "BUFFERING", "PAUSED", "IDLE", "CLOSE"}
    BY <1>2 DEF Status
  <2> QED BY <2>1 DEF MRMessage, e
<1>16. CASE e.state = "PAUSED" /\ \E recent \in BOOLEAN : SyncPaused(recent)
  <2>1. Kept /\ Notes
    BY <1>12, <1>16
  <2> HIDE DEF Kept, Notes
  <2> QED BY <1>1, <1>8, <2>1 DEF Kept, Notes, e
<1> QED BY <1>10, <1>11, <1>13, <1>14, <1>15, <1>16

\* The timers ask for nothing but the release of the device, and tell of a stop
\* only when a track was waited for.
LEMMA TimersDo ==
  ASSUME RendererTypeOK,
         \/ MRTimeout \/ MRRelease
         \/ \E w \in {"goes on", "missed", "over"}, x \in BOOLEAN : MRTimers(w, x)
  PROVE  /\ RendererTypeOK' /\ events' = events /\ mr'.next = mr.next
         /\ cast' = cast \/ cast' = Append(cast, Tell("RELEASE", 0))
         /\ notes' = notes \/ notes' = <<>> \/ (mr.waits /\ notes' = Notify("STOP", FALSE))
         /\ ~mr.ShortTrack /\ ~mr.waits => ~mr'.ShortTrack /\ ~mr'.waits
<1>0. /\ mr \in MR /\ thread \in {"wait", "message", "timers"} /\ notes \in Seq(Note)
      /\ events \in Seq(Status) /\ cast \in Seq(Command)
  BY DEF RendererTypeOK
<1>1. CASE MRTimeout
  BY <1>0, <1>1 DEF MRTimeout, RendererTypeOK
<1>2. CASE MRRelease
  BY <1>0, <1>2 DEF MRRelease, RendererTypeOK
<1>3. ASSUME NEW w \in {"goes on", "missed", "over"}, NEW x \in BOOLEAN, MRTimers(w, x)
      PROVE  /\ RendererTypeOK' /\ events' = events /\ mr'.next = mr.next
             /\ cast' = cast \/ cast' = Append(cast, Tell("RELEASE", 0))
             /\ notes' = <<>> \/ (mr.waits /\ notes' = Notify("STOP", FALSE))
             /\ ~mr.ShortTrack /\ ~mr.waits => ~mr'.ShortTrack /\ ~mr'.waits
  <2> DEFINE a == mr.waits /\ w = "goes on"
             s == mr.ShortTrack /\ w # "over"
             i == mr.idles /\ ~x
  <2>1. /\ mr' = [mr EXCEPT !.waits = a, !.ShortTrack = s, !.idles = i]
        /\ a \in BOOLEAN /\ s \in BOOLEAN /\ i \in BOOLEAN
        /\ ~mr.waits => ~a
        /\ ~mr.ShortTrack => ~s
    BY <1>3 DEF MRTimers
  <2> HIDE DEF a, s, i
  <2>2. mr' \in MR /\ mr'.next = mr.next /\ mr'.waits = a /\ mr'.ShortTrack = s
    BY <1>0, <2>1 DEF MR
  <2>3. cast' \in Seq(Command) /\ (cast' = cast \/ cast' = Append(cast, Tell("RELEASE", 0)))
    <3> DEFINE r == Tell("RELEASE", 0)
    <3>1. cast' = cast \/ cast' = Append(cast, r)
      BY <1>3 DEF MRTimers
    <3>2. r \in Command
      BY CommandTypes
    <3> HIDE DEF r
    <3>3. cast \in Seq(Command) /\ Append(cast, r) \in Seq(Command)
      BY <1>0, <3>2, InAppend
    <3>4. cast' \in Seq(Command)
      BY <3>1, <3>3
    <3> QED BY <3>1, <3>4 DEF r
  <2>4. /\ notes' \in Seq(Note)
        /\ notes' = <<>> \/ (mr.waits /\ notes' = Notify("STOP", FALSE))
    BY <1>3, NoteTypes, InNone DEF MRTimers
  <2>5. thread' \in {"wait", "message", "timers"} /\ events' = events
    BY <1>3 DEF MRTimers
  <2> QED BY <1>0, <2>1, <2>2, <2>3, <2>4, <2>5 DEF RendererTypeOK
<1> QED BY <1>1, <1>2, <1>3

-----------------------------------------------------------------------------
(* Type correctness.                                                       *)

\* What a notification does to the player.
Told(n) ==
  CASE n.event = "PLAY"            -> NotifyPlay
    [] n.event = "PAUSE"           -> NotifyPause
    [] n.event = "STOP" /\ ~n.sure -> NotifyStop
    [] n.event = "STOP" /\ n.sure  -> NotifyClosed
    [] n.event = "TRACK_INFO"      -> NotifyTrackInfo(n.track)

LEMMA NotificationIs ==
  ASSUME RendererTypeOK, NamedNotes, Notification
  PROVE  /\ notes # <<>> /\ notes' = Tail(notes) /\ UNCHANGED <<mr, thread, events, cast>>
         /\ Head(notes) \in In(notes) /\ In(notes') \subseteq In(notes)
         /\ RendererTypeOK'
         /\ \/ NotifyPlay \/ NotifyPause \/ NotifyClosed
            \/ Head(notes).event = "STOP" /\ NotifyStop
            \/ \E t \in Tracks : /\ Head(notes).event = "TRACK_INFO" /\ Head(notes).track = t
                                 /\ NotifyTrackInfo(t)
<1> DEFINE n == Head(notes)
<1>1. notes # <<>> /\ notes' = Tail(notes) /\ UNCHANGED <<mr, thread, events, cast>>
  BY DEF Notification, MRNotify
<1>2. n \in Note /\ n \in In(notes) /\ Tail(notes) \in Seq(Note) /\ In(Tail(notes)) \subseteq In(notes)
  BY <1>1, InTail DEF RendererTypeOK
<1>3. RendererTypeOK'
  BY <1>1, <1>2 DEF RendererTypeOK
<1>4. n.event = "TRACK_INFO" => n.track \in Tracks
  BY <1>2 DEF NamedNotes, Note
<1>5. Told(n)
  BY DEF Notification, Told
<1>6. n.event \in {"PLAY", "PAUSE", "STOP", "TRACK_INFO"} /\ n.sure \in BOOLEAN
  BY <1>2 DEF Note
<1> HIDE DEF n
<1>7. \/ NotifyPlay \/ NotifyPause \/ NotifyClosed
      \/ n.event = "STOP" /\ NotifyStop
      \/ \E t \in Tracks : /\ n.event = "TRACK_INFO" /\ n.track = t
                           /\ NotifyTrackInfo(t)
  BY <1>4, <1>5, <1>6 DEF Told
<1> QED BY <1>1, <1>2, <1>3, <1>7 DEF n

\* The steps of the player itself leave the renderer and the device alone.
SlimAlone ==
  \/ Command_q \/ Command_f \/ Command_p \/ Command_u \/ Command_s
  \/ After_UNPAUSE \/ Connect \/ Round1
  \/ Stream \/ Decode \/ Serve

LEMMA SlimAloneKeeps ==
  ASSUME SlimTypeOK, SlimAlone
  PROVE  /\ SlimTypeOK' /\ UNCHANGED <<rendererVars, dev, played>>
         /\ lms' = lms \/ (lms.todo # <<>> /\ lms' = [lms EXCEPT !.todo = Tail(lms.todo)])
<1> USE DEF Rest, Takes, Quiet
<1>1. CASE Command_q
  BY <1>1, StrmTypes DEF Command_q
<1>2. CASE Command_f
  BY <1>2, StrmTypes DEF Command_f
<1>3. CASE Command_p
  BY <1>3, StrmTypes DEF Command_p
<1>4. CASE Command_u
  BY <1>4, StrmTypes DEF Command_u
<1>5. CASE Command_s
  BY <1>5, StrmTypes DEF Command_s
<1>6. CASE After_UNPAUSE
  BY <1>6, StrmTypes DEF After_UNPAUSE
<1>7. CASE Connect
  BY <1>7, StrmTypes DEF Connect
<1>8. CASE Round1
  BY <1>8, RoundTypes DEF Round1
<1>9. CASE Stream
  BY <1>9, ThreadTypes DEF Stream
<1>10. CASE Decode
  BY <1>10, ThreadTypes DEF Decode
<1>11. CASE Serve
  BY <1>11, ThreadTypes DEF Serve
<1> QED BY <1>1, <1>2, <1>3, <1>4, <1>5, <1>6, <1>7, <1>8, <1>9, <1>10, <1>11 DEF SlimAlone

\* What they come to: LMS stops, takes a track back or sends the next one, or
\* none of these.  Only a stop or a track taken back costs a server that was not
\* told to terminate.
KeepsServers == \A t \in Tracks \ ended : servers[t] # "none" => servers'[t] # "none"

SlimQuits ==
  /\ slim.at = "idle" /\ output'.index = output.index /\ flags'.lastQ
  /\ slim'.at = IF flags.lastQ THEN "idle" ELSE "stop"

SlimTakesBack ==
  /\ Command_f /\ slim.at = "idle" /\ slim'.at = "idle" /\ output'.index = output.index

SlimBegins ==
  /\ slim.at = "idle" /\ slim'.at \in {"track", "socket"} /\ ~flags'.lastQ
  /\ output'.index = output.index + 1 /\ output'.index \in Tracks
  /\ KeepsServers
  /\ slim'.at = "track" => servers'[output'.index] # "none" /\ output'.index \notin ended'

SlimPasses ==
  /\ output'.index = output.index /\ KeepsServers
  /\ slim'.at = "track" => slim.at = "track"
  /\ slim'.at = "stop" <=> slim.at = "stop"
  /\ flags'.lastQ => flags.lastQ
  /\ slim.at = "stop" => flags'.lastQ = flags.lastQ

LEMMA SlimAloneDoes ==
  ASSUME SlimTypeOK, SlimAlone
  PROVE  /\ ended' \subseteq ended /\ render'.index \in {render.index, -1}
         /\ SlimQuits \/ SlimTakesBack \/ SlimBegins \/ SlimPasses
<1> USE DEF Rest, Takes, Quiet, At, GoTo
<1>0. /\ output \in OutputType /\ render \in RenderType /\ stream \in StreamType
      /\ decode \in DecodeType /\ servers \in [Tracks -> Server] /\ ended \subseteq Tracks
      /\ flags \in FlagsType /\ slim \in SlimType /\ stat \in Seq(StatEvent)
  BY DEF SlimTypeOK
<1>1. CASE Command_q
  <2>1. SlimQuits
    BY <1>0, <1>1 DEF Command_q, StrmStop, OutputFlush, SlimQuits, OutputType, FlagsType, SlimType
  <2>2. ended' \subseteq ended /\ render'.index = -1
    BY <1>0, <1>1 DEF Command_q, StrmStop, OutputFlush, RenderType, Join
  <2> QED BY <2>1, <2>2
<1>2. CASE Command_f
  <2>1. SlimTakesBack
    BY <1>0, <1>2 DEF Command_f, StrmFlush, OutputFlushNext, SlimTakesBack, OutputType
  <2>2. ended' \subseteq ended /\ render' = render
    BY <1>0, <1>2 DEF Command_f, StrmFlush, OutputFlushNext, Join
  <2> QED BY <2>1, <2>2
<1>3. CASE Command_p \/ Command_u \/ After_UNPAUSE
  <2>1. output'.index = output.index /\ UNCHANGED <<render, servers, ended>>
    BY <1>0, <1>3 DEF Command_p, Command_u, After_UNPAUSE, StrmPause, StrmUnpause, StrmUnpaused, OutputType
  <2>2. /\ slim.at # "stop" /\ slim'.at \notin {"stop", "track"}
        /\ flags'.lastQ => flags.lastQ
    BY <1>0, <1>3 DEF Command_p, Command_u, After_UNPAUSE, StrmPause, StrmUnpause, StrmUnpaused, SlimType, FlagsType
  <2> QED BY <2>1, <2>2 DEF SlimPasses, KeepsServers
<1>4. ASSUME NEW a \in {0, 1}, NEW r \in BOOLEAN, StrmStart(a, r)
      PROVE  SlimBegins /\ ended' \subseteq ended /\ render' = render
  <2>1. NewTrack \in Tracks /\ slim.at = "idle" /\ output'.index = NewTrack /\ ~flags'.lastQ
        /\ render' = render
    BY <1>0, <1>4 DEF StrmStart, OutputType, FlagsType
  <2>2. slim'.at = IF r THEN "socket" ELSE "track"
    BY <1>0, <1>4 DEF StrmStart, SlimType
  <2>3. ended' \subseteq ended /\ KeepsServers
    BY <1>0, <1>4, <2>1 DEF StrmStart, KeepsServers
  <2>4. ~r => servers'[NewTrack] # "none" /\ NewTrack \notin ended'
    BY <1>0, <1>4, <2>1 DEF StrmStart
  <2> QED BY <2>1, <2>2, <2>3, <2>4 DEF SlimBegins, NewTrack
<1>5. CASE Command_s
  BY <1>4, <1>5 DEF Command_s
<1>6. CASE Connect
  <2>1. \E c \in BOOLEAN : StrmSocket(c)
    BY <1>6 DEF Connect
  <2>2. UNCHANGED <<output, render, servers, ended>>
    BY <2>1 DEF StrmSocket
  <2>3. slim.at = "socket" /\ slim'.at = "idle" /\ flags'.lastQ = flags.lastQ
    BY <1>0, <2>1 DEF StrmSocket, Untold, SlimType, FlagsType
  <2> QED BY <2>2, <2>3 DEF SlimPasses, KeepsServers
<1>7. CASE Round1
  <2>1. UNCHANGED <<servers, ended>>
    BY <1>7 DEF Round1, RoundOutput
  <2>2. output'.index = output.index
    BY <1>0, <1>7 DEF Round1, RoundOutput, OutputType
  <2>3. render'.index = render.index
    BY <1>0, <1>7 DEF Round1, RoundOutput, RenderType
  <2>4. slim.at = "idle" /\ slim'.at = "round"
    BY <1>0, <1>7 DEF Round1, RoundOutput, SlimType
  <2>5. flags'.lastQ = flags.lastQ
    BY <1>0, <1>7 DEF Round1, RoundOutput, FlagsType
  <2> QED BY <2>1, <2>2, <2>3, <2>4, <2>5 DEF SlimPasses, KeepsServers
<1>8. CASE Stream
  <2>1. UNCHANGED <<output, render, servers, ended, flags, slim>>
    BY <1>8 DEF Stream, StreamHeaders, StreamBuffered, StreamEnds, StreamEmpty, StreamBreaks
  <2> QED BY <2>1 DEF SlimPasses, KeepsServers
<1>9. CASE Decode
  <2>1. UNCHANGED <<render, servers, ended, flags, slim>> /\ output'.index = output.index
    BY <1>0, <1>9 DEF Decode, DecodeOpens, DecodeEnds, DecodeFails, OutputType
  <2> QED BY <2>1 DEF SlimPasses, KeepsServers
<1>10. ASSUME NEW t \in Tracks, ServerReads(t) \/ ServerDrains(t) \/ ServerLingers(t) \/ ServerExits(t)
       PROVE  SlimPasses /\ ended' \subseteq ended /\ render' = render
  <2>1. UNCHANGED <<render, flags, slim>>
    BY <1>10 DEF ServerReads, ServerDrains, ServerLingers, ServerExits
  <2>2. output'.index = output.index
    BY <1>0, <1>10 DEF ServerReads, ServerDrains, ServerLingers, ServerExits, OutputType
  <2>3. ended' \subseteq ended
    BY <1>0, <1>10 DEF ServerReads, ServerDrains, ServerLingers, ServerExits, Join
  <2>4. KeepsServers
    BY <1>0, <1>10 DEF ServerReads, ServerDrains, ServerLingers, ServerExits, Join, KeepsServers
  <2> QED BY <2>1, <2>2, <2>3, <2>4 DEF SlimPasses
<1>11. CASE Serve
  BY <1>10, <1>11 DEF Serve
<1> QED BY <1>1, <1>2, <1>3, <1>5, <1>6, <1>7, <1>8, <1>9, <1>11 DEF SlimAlone

\* What a step of the device comes to: it loads a track it was asked to load, it
\* keeps the one it has, or it lets it go.
DevStep == Device \/ DeviceReports \/ DeviceMay

Status0(s, t) == [state |-> s, track |-> t]

Shorter == cast' = cast \/ (cast # <<>> /\ cast' = Tail(cast))

Left == IF dev.state = "none" THEN events ELSE Append(events, Status0("IDLE", 0))

DevLoads ==
  /\ cast # <<>> /\ cast' = Tail(cast) /\ Head(cast).op = "LOAD"
  /\ dev' = [track |-> Head(cast).track, state |-> "paused"]
  /\ events' = Append(Left, Status0("PAUSED", Head(cast).track))

DevKeeps ==
  /\ Shorter
  /\ dev'.track = dev.track /\ (dev'.state = "none" <=> dev.state = "none")
  /\ \/ events' = events
     \/ /\ dev.state # "none"
        /\ \E s \in {"PLAYING", "BUFFERING", "PAUSED"} :
             events' = Append(events, Status0(s, dev.track))

DevLeaves ==
  /\ Shorter
  /\ dev' = [track |-> 0, state |-> "none"]
  /\ IF dev.state = "none" THEN events' = events
     ELSE \E s \in Ends : events' = Append(events, Status0(s, 0))

LEMMA IdlesAre ==
  ASSUME events \in Seq(Status), NEW x \in Status
  PROVE  /\ events \o Idles = Left /\ (events \o Idles) \o <<x>> = Append(Left, x)
         /\ events \o (Idles \o <<x>>) = Append(Left, x)
         /\ Left \in Seq(Status) /\ Status0("IDLE", 0) \in Status
<1> DEFINE i == Status0("IDLE", 0)
<1>1. i \in Status /\ Idles = (IF dev.state = "none" THEN <<>> ELSE <<i>>)
  BY DEF Status, Status0, Idles
<1>2. Left = IF dev.state = "none" THEN events ELSE Append(events, i)
  BY DEF Left
<1> HIDE DEF i
<1>3. events \o <<i>> = Append(events, i) /\ Append(events, i) \in Seq(Status) /\ events \o <<>> = events
  BY <1>1
<1>4. events \o Idles = Left /\ Left \in Seq(Status) /\ Idles \in Seq(Status)
  BY <1>1, <1>2, <1>3
<1>5. (events \o Idles) \o <<x>> = Append(Left, x)
  BY <1>4
<1>6. <<x>> \in Seq(Status)
  BY InOne
<1>7. events \o (Idles \o <<x>>) = (events \o Idles) \o <<x>>
  <2> DEFINE y == <<x>>
             j == Idles
  <2>1. events \in Seq(Status) /\ j \in Seq(Status) /\ y \in Seq(Status)
    BY <1>4, <1>6
  <2> HIDE DEF y, j
  <2>2. events \o (j \o y) = (events \o j) \o y
    BY SMTT(30), <2>1, ConcatAssociative
  <2> QED BY <2>2 DEF y, j
<1> QED BY <1>1, <1>4, <1>5, <1>7 DEF i

LEMMA DeviceDoes ==
  ASSUME RendererTypeOK, dev \in DevType, NamedHeld, DevStep
  PROVE  /\ UNCHANGED <<mr, thread, notes, slimVars, lms, told>>
         /\ DevLoads \/ DevKeeps \/ DevLeaves
         /\ dev' \in DevType
         /\ played' \subseteq played \cup Tracks
<1> USE DEF Device, DeviceReports, DeviceMay
<1>0. /\ cast \in Seq(Command) /\ events \in Seq(Status)
      /\ dev.track \in Tracks \cup {0} /\ dev.state \in {"none", "paused", "wanted", "playing"}
  BY DEF RendererTypeOK, DevType
<1>1. CASE Device /\ DevObeys
  <2> DEFINE c == Head(cast)
  <2>1. cast # <<>> /\ cast' = Tail(cast) /\ UNCHANGED <<mr, thread, notes, slimVars, lms, told, played>>
    BY <1>1 DEF DevObeys
  <2>2. c \in Command
    BY <1>0, <2>1, InTail
  <2>3. c.op \in {"LOAD", "PLAY", "PAUSE", "STOP", "RELEASE"} /\ c.track \in Tracks \cup {0}
    BY <2>2 DEF Command
  <2>4. CASE c.op = "LOAD"
    <3> DEFINE x == Status0("PAUSED", c.track)
    <3>1. x \in Status
      BY <2>3 DEF Status0, Status
    <3>2. dev' = [track |-> c.track, state |-> "paused"]
      BY <1>1, <2>4 DEF DevObeys
    <3>3. events' = (events \o Idles) \o <<x>> \/ events' = events \o (Idles \o <<x>>)
      BY <1>1, <2>4 DEF DevObeys, Status0
    <3> HIDE DEF x
    <3>4. events' = Append(Left, x)
      BY <1>0, <3>1, <3>3, IdlesAre
    <3>5. dev' \in DevType
      BY <2>3, <3>2 DEF DevType
    <3> QED BY <2>1, <2>4, <3>2, <3>4, <3>5 DEF DevLoads, x
  <2>5. CASE c.op = "PLAY"
    <3>1. dev' = [dev EXCEPT !.state = IF dev.state = "paused" THEN "wanted" ELSE dev.state]
          /\ events' = events
      BY <1>1, <2>5 DEF DevObeys
    <3>2. dev' \in DevType /\ dev'.track = dev.track /\ (dev'.state = "none" <=> dev.state = "none")
      BY <1>0, <3>1 DEF DevType
    <3> QED BY <2>1, <3>1, <3>2 DEF DevKeeps, Shorter
  <2>6. CASE c.op = "PAUSE"
    <3>1. \/ /\ dev.state \in {"wanted", "playing"} /\ dev' = [dev EXCEPT !.state = "paused"]
             /\ Says("PAUSED")
          \/ UNCHANGED <<dev, events>>
      BY <1>1, <2>6 DEF DevObeys
    <3>2. CASE UNCHANGED <<dev, events>>
      BY <1>0, <2>1, <3>2 DEF DevKeeps, Shorter
    <3>3. CASE /\ dev.state \in {"wanted", "playing"} /\ dev' = [dev EXCEPT !.state = "paused"]
               /\ Says("PAUSED")
      <4>1. dev' \in DevType /\ dev'.track = dev.track /\ dev'.state # "none" /\ dev.state # "none"
        BY <1>0, <3>3 DEF DevType
      <4>2. events' = Append(events, Status0("PAUSED", dev.track))
        BY <3>3 DEF Says, Status0
      <4> QED BY <2>1, <4>1, <4>2 DEF DevKeeps, Shorter
    <3> QED BY <3>1, <3>2, <3>3
  <2>7. CASE c.op \in {"STOP", "RELEASE"}
    <3>1. dev' = [track |-> 0, state |-> "none"] /\ events' = events \o Idles
      BY <1>1, <2>7 DEF DevObeys
    <3>2. events' = Left
      <4>1. [state |-> "IDLE", track |-> 0] \in Status
        BY DEF Status
      <4> QED BY <1>0, <3>1, <4>1, IdlesAre
    <3>3. dev' \in DevType
      BY <3>1 DEF DevType
    <3> QED BY <2>1, <3>1, <3>2, <3>3 DEF DevLeaves, Shorter, Left, Ends
  <2> QED BY <2>3, <2>4, <2>5, <2>6, <2>7
<1>2. CASE Device /\ DevPlays
  <2>1. dev' = [dev EXCEPT !.state = "playing"] /\ dev.state = "wanted" /\ Says("PLAYING")
    BY <1>2 DEF DevPlays
  <2>2. dev' \in DevType /\ dev'.track = dev.track /\ dev'.state # "none" /\ dev.state # "none"
    BY <1>0, <2>1 DEF DevType
  <2>3. dev.track \in Tracks
    BY <1>0, <2>1 DEF NamedHeld
  <2>4. played' = played \cup {dev.track} /\ UNCHANGED <<mr, thread, notes, slimVars, lms, told, cast>>
    BY <1>2 DEF DevPlays
  <2> QED BY <2>1, <2>2, <2>3, <2>4 DEF DevKeeps, Shorter, Says, Status0
<1>3. CASE Device /\ (DevEnds \/ DevGivesUp)
  <2>1. /\ dev.state # "none" /\ dev' = [track |-> 0, state |-> "none"] /\ events' = events \o Idles
        /\ UNCHANGED <<mr, thread, notes, slimVars, lms, told, cast, played>>
    BY <1>3 DEF DevEnds, DevGivesUp
  <2>2. events' = Left
    <3>1. [state |-> "IDLE", track |-> 0] \in Status
      BY DEF Status
    <3> QED BY <1>0, <2>1, <3>1, IdlesAre
  <2>3. dev' \in DevType
    BY <2>1 DEF DevType
  <2> QED BY <2>1, <2>2, <2>3 DEF DevLeaves, Shorter, Left, Ends
<1>4. CASE DeviceReports
  <2>1. /\ dev.state # "none" /\ (Says("PLAYING") \/ Says("BUFFERING"))
        /\ UNCHANGED <<mr, thread, notes, slimVars, lms, told, cast, played, dev>>
    BY <1>4 DEF DevReports
  <2> QED BY <2>1 DEF DevKeeps, Shorter, Says, Status0
<1>5. CASE DeviceMay /\ DevFails
  <2>1. /\ dev.state # "none" /\ dev' = [track |-> 0, state |-> "none"]
        /\ events' = events \o Idles \/ events' = Append(events, Status0("CLOSE", 0))
        /\ UNCHANGED <<mr, thread, notes, slimVars, lms, told, cast, played>>
    BY <1>5 DEF DevFails, Status0
  <2>2. events \o Idles = Left
    <3>1. [state |-> "IDLE", track |-> 0] \in Status
      BY DEF Status
    <3> QED BY <1>0, <2>1, <3>1, IdlesAre
  <2>3. dev' \in DevType
    BY <2>1 DEF DevType
  <2> QED BY <2>1, <2>2, <2>3 DEF DevLeaves, Shorter, Left, Ends
<1>6. CASE DeviceMay /\ DevUser
  <2>1. /\ UNCHANGED <<mr, thread, notes, slimVars, lms, told, cast, played>>
        /\ \/ dev.state = "playing" /\ dev' = [dev EXCEPT !.state = "paused"] /\ Says("PAUSED")
           \/ dev.state = "paused" /\ dev' = [dev EXCEPT !.state = "wanted"] /\ events' = events
    BY <1>6 DEF DevUser
  <2>2. dev' \in DevType /\ dev'.track = dev.track /\ dev'.state # "none" /\ dev.state # "none"
    BY <1>0, <2>1 DEF DevType
  <2> QED BY <2>1, <2>2 DEF DevKeeps, Shorter, Says, Status0
<1> QED BY <1>1, <1>2, <1>3, <1>4, <1>5, <1>6 DEF DevStep

\* Of what LMS sends, only what a user takes back is a flush.
Commands == {"q", "s", "f", "p", "u"}

LEMMA MoreToDo ==
  ASSUME NEW l \in LmsType, NEW t \in {<<>>, <<"u">>, <<"p">>, <<"s">>, <<"q">>, <<"p", "u">>, <<"q", "s">>}
  PROVE  /\ l.todo \o t \in Seq(Commands)
         /\ In(l.todo \o t) \subseteq In(l.todo) \cup {"q", "s", "p", "u"}
<1>1. t \in Seq(Commands) /\ In(t) \subseteq {"q", "s", "p", "u"}
  <2>1. ASSUME NEW x \in {"q", "s", "p", "u"}, t = <<x>>
        PROVE  t \in Seq(Commands) /\ In(t) \subseteq {"q", "s", "p", "u"}
    <3>1. x \in Commands
      BY DEF Commands
    <3> QED BY <2>1, <3>1, InOne
  <2>2. ASSUME NEW x \in {"q", "s", "p", "u"}, NEW y \in {"q", "s", "p", "u"}, t = <<x, y>>
        PROVE  t \in Seq(Commands) /\ In(t) \subseteq {"q", "s", "p", "u"}
    <3>1. x \in Commands /\ y \in Commands
      BY DEF Commands
    <3> QED BY <2>2, <3>1, InTwo
  <2>3. CASE t = <<>>
    BY <2>3, InNone
  <2> QED BY <2>1, <2>2, <2>3
<1>2. l.todo \in Seq(Commands)
  BY DEF LmsType, Commands
<1> QED BY <1>1, <1>2, InConcat

\* The answers of LMS.
Answered(l) ==
  /\ l \in LmsType
  /\ In(l.todo) \subseteq In(lms.todo) \cup {"q", "s", "p", "u"}

LEMMA AnswersAre ==
  ASSUME lms \in LmsType, NEW e \in StatEvent
  PROVE  Answered(Answer(e))
<1>0. /\ lms.todo \in Seq(Commands) /\ lms.mode \in {"stop", "play", "pause"}
      /\ lms.sent \in Tracks \cup {0} /\ lms.begun \in BOOLEAN /\ lms.plays \in BOOLEAN
  BY DEF LmsType, Commands
<1>1. Answered(lms)
  BY DEF Answered
<1>2. /\ Send(<<"u">>) \in Seq(Commands) /\ In(Send(<<"u">>)) \subseteq In(lms.todo) \cup {"q", "s", "p", "u"}
      /\ Send(<<"s">>) \in Seq(Commands) /\ In(Send(<<"s">>)) \subseteq In(lms.todo) \cup {"q", "s", "p", "u"}
      /\ Send(<<"q">>) \in Seq(Commands) /\ In(Send(<<"q">>)) \subseteq In(lms.todo) \cup {"q", "s", "p", "u"}
      /\ Send(<<"p", "u">>) \in Seq(Commands) /\ In(Send(<<"p", "u">>)) \subseteq In(lms.todo) \cup {"q", "s", "p", "u"}
      /\ Send(<<"q", "s">>) \in Seq(Commands) /\ In(Send(<<"q", "s">>)) \subseteq In(lms.todo) \cup {"q", "s", "p", "u"}
  BY MoreToDo DEF Send
<1>3. ASSUME NEW t \in Seq(Commands), In(t) \subseteq In(lms.todo) \cup {"q", "s", "p", "u"}
      PROVE  /\ Answered([lms EXCEPT !.todo = t])
             /\ Answered([lms EXCEPT !.begun = TRUE, !.plays = TRUE])
             /\ Answered([lms EXCEPT !.mode = "stop", !.todo = t, !.plays = FALSE])
             /\ More => Answered([lms EXCEPT !.todo = t, !.sent = lms.sent + 1, !.begun = FALSE])
             /\ More => Answered([[lms EXCEPT !.todo = Send(<<"s">>), !.sent = lms.sent + 1, !.begun = FALSE]
                                    EXCEPT !.mode = "play", !.todo = t, !.plays = FALSE])
  <2>1. Answered([lms EXCEPT !.todo = t])
    BY <1>0, <1>3 DEF Answered, LmsType, Commands
  <2>2. Answered([lms EXCEPT !.begun = TRUE, !.plays = TRUE])
    BY <1>0 DEF Answered, LmsType, Commands
  <2>3. Answered([lms EXCEPT !.mode = "stop", !.todo = t, !.plays = FALSE])
    BY <1>0, <1>3 DEF Answered, LmsType, Commands
  <2>4. More => Answered([lms EXCEPT !.todo = t, !.sent = lms.sent + 1, !.begun = FALSE])
    BY <1>0, <1>3 DEF Answered, LmsType, Commands, More
  <2>5. More => Answered([[lms EXCEPT !.todo = Send(<<"s">>), !.sent = lms.sent + 1, !.begun = FALSE]
                            EXCEPT !.mode = "play", !.todo = t, !.plays = FALSE])
    BY <1>0, <1>3 DEF Answered, LmsType, Commands, More
  <2> QED BY <2>1, <2>2, <2>3, <2>4, <2>5
<1>4. /\ Answered([lms EXCEPT !.todo = Send(<<"u">>)])
      /\ Answered([lms EXCEPT !.todo = Send(<<"p", "u">>)])
      /\ Answered([lms EXCEPT !.begun = TRUE, !.plays = TRUE])
      /\ Answered(Stop_q)
      /\ More => Answered(Next_s)
      /\ More => Answered(Skip_qs)
  BY <1>2, <1>3 DEF Stop_q, Next_s, Skip_qs
<1> QED BY <1>1, <1>4 DEF Answer

LEMMA HearsIs ==
  ASSUME lms \in LmsType, stat \in Seq(StatEvent), LMSHears
  PROVE  /\ Answered(lms') /\ stat' \in Seq(StatEvent)
         /\ UNCHANGED <<output, render, stream, decode, servers, ended, flags, slim>>
         /\ UNCHANGED <<rendererVars, dev, upsets, told, played>>
<1>1. stat # <<>> /\ stat' = Tail(stat) /\ lms' = Answer(Head(stat))
  BY DEF LMSHears
<1>2. Head(stat) \in StatEvent /\ stat' \in Seq(StatEvent)
  BY <1>1, InTail
<1> QED BY <1>1, <1>2, AnswersAre DEF LMSHears

LEMMA UserIs ==
  ASSUME lms \in LmsType, LMSUser
  PROVE  /\ UNCHANGED <<slimVars, rendererVars, dev, told, played>>
         /\ lms' \in LmsType
         /\ Answered(lms') \/ "take back" \in Upsets
<1>0. /\ lms.todo \in Seq(Commands) /\ lms.mode \in {"stop", "play", "pause"}
      /\ lms.sent \in Tracks \cup {0} /\ lms.begun \in BOOLEAN /\ lms.plays \in BOOLEAN
      /\ lms.todo = <<>>
  BY DEF LmsType, Commands, LMSUser
<1>1. /\ Send(<<"q">>) \in Seq(Commands) /\ In(Send(<<"q">>)) \subseteq In(lms.todo) \cup {"q", "s", "p", "u"}
      /\ Send(<<"q", "s">>) \in Seq(Commands) /\ In(Send(<<"q", "s">>)) \subseteq In(lms.todo) \cup {"q", "s", "p", "u"}
  BY MoreToDo DEF Send
<1>2. /\ <<"p">> \in Seq(Commands) /\ In(<<"p">>) = {"p"}
      /\ <<"u">> \in Seq(Commands) /\ In(<<"u">>) = {"u"}
      /\ <<"f">> \in Seq(Commands)
  BY InOne DEF Commands
<1>3. CASE More /\ lms' = Skip_qs
  <2> DEFINE t == Send(<<"q", "s">>)
             n == lms.sent + 1
  <2>1. lms' = [[lms EXCEPT !.todo = Send(<<"s">>), !.sent = n, !.begun = FALSE]
                   EXCEPT !.mode = "play", !.todo = t, !.plays = FALSE]
    BY <1>3 DEF Skip_qs, Next_s
  <2>2. n \in Tracks
    BY <1>3 DEF More
  <2> HIDE DEF t, n
  <2>3. lms' \in LmsType /\ lms'.todo = t
    BY <1>0, <1>1, <2>1, <2>2 DEF LmsType, Commands, t
  <2> QED BY <1>1, <2>3 DEF Answered, LMSUser, t
<1>4. CASE lms' = Stop_q
  BY <1>0, <1>1, <1>4 DEF Answered, LmsType, Commands, Stop_q, LMSUser
<1>5. CASE lms' = [lms EXCEPT !.mode = "pause", !.todo = <<"p">>]
  BY <1>0, <1>2, <1>5 DEF Answered, LmsType, Commands, LMSUser
<1>6. CASE lms' = [lms EXCEPT !.mode = "play", !.todo = <<"u">>]
  BY <1>0, <1>2, <1>6 DEF Answered, LmsType, Commands, LMSUser
<1>7. CASE "take back" \in Upsets /\ lms' = [lms EXCEPT !.todo = <<"f">>, !.begun = TRUE]
  BY <1>0, <1>2, <1>7 DEF LmsType, Commands, LMSUser
<1> QED BY <1>3, <1>4, <1>5, <1>6, <1>7 DEF LMSUser, Upset

LEMMA HeedIs ==
  ASSUME lms \in LmsType, NEW n \in Note, n.event = "TRACK_INFO" => ~n.sure, Heed(n)
  PROVE  Answered(lms')
<1>0. /\ lms.todo \in Seq(Commands) /\ lms.mode \in {"stop", "play", "pause"}
      /\ lms.sent \in Tracks \cup {0} /\ lms.begun \in BOOLEAN /\ lms.plays \in BOOLEAN
  BY DEF LmsType, Commands
<1>1. ASSUME NEW x \in {"p", "u", "q"}
      PROVE  /\ Append(lms.todo, x) \in Seq(Commands)
             /\ In(Append(lms.todo, x)) \subseteq In(lms.todo) \cup {"q", "s", "p", "u"}
  <2>1. x \in Commands
    BY DEF Commands
  <2> QED BY <1>0, <2>1, InAppend
<1>2. CASE lms' = lms
  BY <1>2 DEF Answered
<1>3. ASSUME NEW m \in {"play", "pause", "stop"}, NEW x \in {"p", "u", "q"},
             lms' = [lms EXCEPT !.mode = m, !.todo = Append(lms.todo, x)]
      PROVE  Answered(lms')
  <2> DEFINE t == Append(lms.todo, x)
  <2>1. t \in Seq(Commands) /\ In(t) \subseteq In(lms.todo) \cup {"q", "s", "p", "u"}
    BY <1>1
  <2> HIDE DEF t
  <2>2. lms' \in LmsType /\ lms'.todo = t
    BY <1>0, <1>3, <2>1 DEF LmsType, Commands, t
  <2> QED BY <2>1, <2>2 DEF Answered
<1>4. \/ lms' = lms
      \/ lms' = [lms EXCEPT !.mode = "play", !.todo = Append(lms.todo, "u")]
      \/ lms' = [lms EXCEPT !.mode = "pause", !.todo = Append(lms.todo, "p")]
      \/ lms' = [lms EXCEPT !.mode = "stop", !.todo = Append(lms.todo, "q")]
  BY DEF Heed, Note
<1> QED BY <1>2, <1>3, <1>4

-----------------------------------------------------------------------------
(* Type correctness.  What is said, asked or notified of a track names one. *)

LEMMA InitTypes == Init => TypeOK /\ Named
<1> SUFFICES ASSUME Init PROVE TypeOK /\ Named
  OBVIOUS
<1> USE DEF Init, RendererInit, SlimInit
<1>1. RendererTypeOK
  BY InNone DEF RendererTypeOK, MR, PlayerState
<1>2. SlimTypeOK
  <2>1. NoRound \in Round
    BY DEF NoRound, Round
  <2>2. output \in OutputType /\ render \in RenderType /\ stream \in StreamType /\ decode \in DecodeType
    BY DEF OutputType, RenderType, StreamType, DecodeType
  <2>3. flags \in FlagsType /\ slim \in SlimType
    BY <2>1 DEF FlagsType, SlimType
  <2> QED BY <2>2, <2>3 DEF SlimTypeOK, Server
<1>3. PlaybackTypeOK
  <2>1. dev \in DevType /\ told \in ToldType /\ upsets \in 0 .. MaxUpsets
    <3>1. MaxUpsets \in Nat /\ <<>> \in Seq(StatEvent)
      BY PlaybackAssumption, InNone
    <3> QED BY <3>1 DEF DevType, ToldType
  <2>2. lms \in LmsType
    <3>1. <<"s">> \in Seq({"q", "s", "f", "p", "u"}) /\ 1 \in Tracks
      BY InOne, PlaybackAssumption
    <3> QED BY <3>1 DEF LmsType
  <2> QED BY <2>1, <2>2 DEF PlaybackTypeOK
<1>4. Named
  BY DEF Named, NamedSaid, NamedNotes, NamedAsked, NamedHeld, In
<1> QED BY <1>1, <1>2, <1>3, <1>4 DEF TypeOK

\* Nothing goes wrong more often than it may.
LEMMA UpsetsTypes ==
  ASSUME upsets \in 0 .. MaxUpsets, Next
  PROVE  upsets' \in 0 .. MaxUpsets
<1>1. NoUpset \/ \E kind \in Upsets : Upset(kind)
  <2> USE DEF Upset, NoUpset
  <2>1. CASE SlimCommand
    BY <2>1 DEF SlimCommand, Command_q, Command_f, Command_p, Command_u, Command_s
  <2>2. CASE Round1 \/ SlimGoesOn
    BY <2>2
    DEF Round1, SlimGoesOn, Callback_STOP, Callback_PAUSE, Callback_UNPAUSE, After_UNPAUSE,
        Callback_SET_TRACK, Connect, Round2
  <2>3. CASE MRStep
    BY <2>3 DEF MRStep, Message, Timers, WaitOver, Notification
  <2>4. CASE Stream \/ Decode \/ Serve
    BY <2>4 DEF Stream, Decode, Serve
  <2>5. CASE Device \/ DeviceReports \/ DeviceMay
    BY <2>5
    DEF Device, DeviceReports, DeviceMay, DevObeys, DevPlays, DevEnds, DevGivesUp, DevFails,
        DevReports, DevUser
  <2>6. CASE LMSHears \/ LMSUser
    BY <2>6 DEF LMSHears, LMSUser
  <2> QED BY <2>1, <2>2, <2>3, <2>4, <2>5, <2>6 DEF Next
<1>2. MaxUpsets \in Nat
  BY PlaybackAssumption
<1>3. upsets' = upsets \/ (upsets < MaxUpsets /\ upsets' = upsets + 1)
  BY <1>1 DEF NoUpset, Upset
<1> QED BY <1>2, <1>3

\* The kinds of steps that the proofs tell apart.
LEMMA StepsAre ==
  ASSUME Next
  PROVE  \/ SlimAlone \/ Callback_STOP \/ Callback_PAUSE \/ Callback_UNPAUSE
         \/ Callback_SET_TRACK \/ Round2 \/ Message \/ Timers \/ WaitOver \/ Notification
         \/ DevStep \/ LMSHears \/ LMSUser
BY DEF Next, SlimAlone, SlimCommand, SlimGoesOn, MRStep, DevStep

LEMMA ToldTypes ==
  ASSUME TypeOK, Next
  PROVE  told' \in ToldType
<1>0. told \in ToldType /\ told.events \in Seq(StatEvent) /\ told.holds \in BOOLEAN /\ SlimTypeOK
  BY DEF TypeOK, PlaybackTypeOK, ToldType
<1>1. CASE Command_f
  BY <1>0, <1>1 DEF Command_f, ToldType
<1>2. CASE Connect
  <2> DEFINE h == ~slim.fails /\ (slim.next => told.holds)
  <2>1. h \in BOOLEAN /\ told' = [events |-> <<>>, holds |-> h] /\ <<>> \in Seq(StatEvent)
    BY <1>2 DEF Connect
  <2> HIDE DEF h
  <2> QED BY <2>1 DEF ToldType
<1>3. CASE Round2
  <2>1. PICK near \in BOOLEAN :
          told' = [told EXCEPT !.events = told.events \o Milestones(IsDecoded(near))]
    BY <1>3 DEF Round2
  <2> DEFINE d == IsDecoded(near)
             e == told.events \o Milestones(d)
  <2>2. d \in BOOLEAN
    BY DEF IsDecoded
  <2> HIDE DEF d
  <2>3. Milestones(d) \in Seq(StatEvent)
    BY <1>0, <2>2, SentTypes
  <2>4. e \in Seq(StatEvent)
    BY <1>0, <2>3, InConcat
  <2>5. told' = [told EXCEPT !.events = e]
    BY <2>1 DEF d
  <2> HIDE DEF e
  <2> QED BY <1>0, <2>4, <2>5 DEF ToldType
<1>4. CASE told' = told
  BY <1>0, <1>4
<1>5. Command_f \/ Connect \/ Round2 \/ told' = told
  <2>1. CASE SlimAlone
    BY <2>1
    DEF SlimAlone, Command_q, Command_p, Command_u, Command_s, After_UNPAUSE, Round1, Stream,
        Decode, Serve, Quiet
  <2>2. CASE ~SlimAlone
    BY <2>2, StepsAre
    DEF Callback_STOP, Callback_PAUSE, Callback_UNPAUSE, Callback_SET_TRACK, Message, Timers,
        WaitOver, Notification, DevStep, Device, DeviceReports, DeviceMay, LMSHears, LMSUser
  <2> QED BY <2>1, <2>2
<1> QED BY <1>1, <1>2, <1>3, <1>4, <1>5

\* What a command of the callbacks gives the renderer and the player.
LEMMA CallbackIs ==
  ASSUME RendererTypeOK, SlimTypeOK, Callback_STOP \/ Callback_PAUSE \/ Callback_UNPAUSE
  PROVE  /\ SqPlay \/ SqPause \/ SqStop
         /\ Callback_STOP => SqStop
         /\ slim.at \in {"stop", "pause", "unpause"} /\ slim'.at \in {"idle", "unpaused"}
         /\ Callback_STOP <=> slim.at = "stop"
         /\ SlimTypeOK' /\ UNCHANGED <<output, render, stream, decode, servers, ended, flags, stat>>
         /\ UNCHANGED <<dev, lms, played, told, upsets>>
<1>1. slim \in SlimType
  BY DEF SlimTypeOK
<1>2. \/ Callback_STOP /\ StrmStopped /\ SqStop
      \/ Callback_PAUSE /\ StrmPaused /\ SqPause
      \/ Callback_UNPAUSE /\ StrmUnpausing /\ SqPlay
  BY DEF Callback_STOP, Callback_PAUSE, Callback_UNPAUSE
<1>3. Callback_STOP => slim.at = "stop" /\ SqStop
  BY DEF Callback_STOP, StrmStopped, At
<1>4. slim.at = "stop" => Callback_STOP
  BY DEF Callback_PAUSE, Callback_UNPAUSE, StrmPaused, StrmUnpausing, At
<1>5. slim.at \in {"stop", "pause", "unpause"} /\ slim'.at \in {"idle", "unpaused"}
  BY <1>1, <1>2 DEF StrmStopped, StrmPaused, StrmUnpausing, At, GoTo, SlimType
<1>6. SlimTypeOK'
  BY <1>2, StrmTypes
<1>7. UNCHANGED <<output, render, stream, decode, servers, ended, flags, stat>>
  BY <1>2 DEF StrmStopped, StrmPaused, StrmUnpausing
<1>8. UNCHANGED <<dev, lms, played, told, upsets>>
  BY DEF Callback_STOP, Callback_PAUSE, Callback_UNPAUSE, Rest, NoUpset
<1> QED BY <1>2, <1>3, <1>4, <1>5, <1>6, <1>7, <1>8

LEMMA SetTrackIs ==
  ASSUME RendererTypeOK, SlimTypeOK, Callback_SET_TRACK
  PROVE  /\ SetTrack(output.index, slim.next) \/ SetTrackFails(output.index, slim.next)
         /\ output.index \in Tracks \cup {0} /\ slim.next \in BOOLEAN
         /\ slim.at = "track" /\ slim'.at = "socket"
         /\ SlimTypeOK' /\ UNCHANGED <<output, render, stream, decode, servers, flags, stat>>
         /\ UNCHANGED <<dev, lms, played, told>>
         /\ \/ ended' = ended
            \/ /\ SetTrackFails(output.index, slim.next)
               /\ \A t \in Tracks : t \in ended' => t \in ended \/ t = output.index
<1>1. slim \in SlimType /\ output \in OutputType
  BY DEF SlimTypeOK
<1>2. PICK b \in BOOLEAN : /\ StrmTrackSet(b)
                           /\ \/ b /\ SetTrack(output.index, slim.next)
                              \/ ~b /\ SetTrackFails(output.index, slim.next)
  BY DEF Callback_SET_TRACK
<1>3. SlimTypeOK'
  BY <1>2, StrmTypes
<1>4. slim.at = "track" /\ slim'.at = "socket"
  BY <1>1, <1>2 DEF StrmTrackSet, At, SlimType
<1>5. output.index \in Tracks \cup {0} /\ slim.next \in BOOLEAN
  BY <1>1 DEF OutputType, SlimType
<1>6. UNCHANGED <<output, render, stream, decode, servers, flags, stat>>
  BY <1>2 DEF StrmTrackSet
<1>7. UNCHANGED <<dev, lms, played, told>>
  BY DEF Callback_SET_TRACK, Rest
<1>8. b => ended' = ended
  BY <1>2 DEF StrmTrackSet
<1>9. ~b => \A t \in Tracks : t \in ended' => t \in ended \/ t = output.index
  BY <1>2 DEF StrmTrackSet, Terminate
<1> QED BY <1>2, <1>3, <1>4, <1>5, <1>6, <1>7, <1>8, <1>9

LEMMA Round2Is ==
  ASSUME RendererTypeOK, SlimTypeOK, Round2
  PROVE  /\ SqPlay \/ UNCHANGED rendererVars
         /\ slim.at = "round" /\ slim'.at = "idle" /\ output'.index = output.index
         /\ flags'.lastQ = flags.lastQ
         /\ SlimTypeOK' /\ UNCHANGED <<render, servers, ended>>
         /\ UNCHANGED <<dev, lms, played>>
<1>1. slim \in SlimType /\ output \in OutputType /\ flags \in FlagsType
  BY DEF SlimTypeOK
<1>2. PICK near \in BOOLEAN : RoundDecode(near)
  BY DEF Round2
<1>3. SlimTypeOK'
  BY <1>2, RoundTypes
<1>4. slim.at = "round" /\ slim'.at = "idle"
  BY <1>1, <1>2 DEF RoundDecode, At, SlimType
<1>5. output'.index = output.index
  BY <1>1, <1>2 DEF RoundDecode, OutputType
<1>6. flags'.lastQ = flags.lastQ
  BY <1>1, <1>2 DEF RoundDecode, FlagsType
<1>7. UNCHANGED <<render, servers, ended>>
  BY <1>2 DEF RoundDecode
<1> QED BY <1>3, <1>4, <1>5, <1>6, <1>7 DEF Round2, Rest

\* What MRThread tells the player (n) changes the track it plays to the one that
\* n names, and terminates servers of earlier tracks, or of a track that stopped.
LEMMA NotifyDoes ==
  ASSUME SlimTypeOK, NEW n \in Note,
         \/ NotifyPlay \/ NotifyPause \/ NotifyClosed
         \/ n.event = "STOP" /\ NotifyStop
         \/ \E t \in Tracks : n.event = "TRACK_INFO" /\ n.track = t /\ NotifyTrackInfo(t)
  PROVE  /\ UNCHANGED <<servers, flags, slim>> /\ output'.index = output.index
         /\ \/ render'.index = render.index
            \/ n.event = "TRACK_INFO" /\ n.track \in Tracks /\ render'.index = n.track
         /\ \A u \in Tracks : u \in ended' =>
              \/ u \in ended \/ u < render.index
              \/ n.event = "STOP" /\ u = render.index
              \/ n.event = "TRACK_INFO" /\ n.track \in Tracks /\ u < n.track
<1>0. output \in OutputType /\ render \in RenderType /\ ended \subseteq Tracks
  BY DEF SlimTypeOK
<1>1. CASE NotifyPlay
  <2>1. output'.index = output.index /\ render'.index = render.index
    BY <1>0, <1>1 DEF NotifyPlay, OutputType, RenderType
  <2>2. \A u \in Tracks : u \in ended' => u \in ended \/ u < render.index
    BY <1>1 DEF NotifyPlay, TerminateBelow
  <2> QED BY <1>1, <2>1, <2>2 DEF NotifyPlay
<1>2. CASE NotifyPause
  <2>1. render'.index = render.index
    BY <1>0, <1>2 DEF NotifyPause, RenderType
  <2> QED BY <1>2, <2>1 DEF NotifyPause
<1>3. CASE n.event = "STOP" /\ NotifyStop
  <2>1. render'.index = render.index
    BY <1>0, <1>3 DEF NotifyStop, RenderType
  <2>2. \A u \in Tracks : u \in ended' => u \in ended \/ u = render.index
    BY <1>3 DEF NotifyStop, Terminate
  <2> QED BY <1>3, <2>1, <2>2 DEF NotifyStop
<1>4. CASE NotifyClosed
  BY <1>4 DEF NotifyClosed, slimVars
<1>5. ASSUME NEW t \in Tracks, NotifyTrackInfo(t)
      PROVE  /\ UNCHANGED <<servers, flags, slim>> /\ output'.index = output.index
             /\ render'.index = render.index \/ render'.index = t
             /\ \A u \in Tracks : u \in ended' => u \in ended \/ u < t
  <2>1. output'.index = output.index /\ (render'.index = render.index \/ render'.index = t)
    BY <1>0, <1>5 DEF NotifyTrackInfo, OutputType, RenderType
  <2>2. \A u \in Tracks : u \in ended' => u \in ended \/ u < t
    BY <1>5 DEF NotifyTrackInfo, TerminateBelow
  <2> QED BY <1>5, <2>1, <2>2 DEF NotifyTrackInfo
<1> QED BY <1>1, <1>2, <1>3, <1>4, <1>5

\* A command that is handed over, or nothing.
LEMMA AskedKept ==
  ASSUME cast \in Seq(Command), NamedAsked, NEW t \in Tracks \cup {0},
         NEW op \in {"PLAY", "PAUSE", "STOP", "RELEASE"},
         \/ cast' = cast \/ Shorter
         \/ cast' = Append(cast, Tell(op, 0)) \/ cast' = <<Tell(op, 0)>>
         \/ t # 0 /\ cast' = Append(cast, Tell("LOAD", t))
         \/ t # 0 /\ cast' = Append(Append(cast, Tell("LOAD", t)), Tell(op, 0))
  PROVE  NamedAsked'
<1> DEFINE x == Tell(op, 0)
           y == Tell("LOAD", t)
<1>1. x \in Command /\ x.op = op /\ y \in Command /\ y.op = "LOAD" /\ y.track = t
  BY CommandTypes
<1>2. \/ cast' = cast \/ (cast # <<>> /\ cast' = Tail(cast))
      \/ cast' = Append(cast, x) \/ cast' = <<x>>
      \/ t # 0 /\ cast' = Append(cast, y)
      \/ t # 0 /\ cast' = Append(Append(cast, y), x)
  BY DEF Shorter
<1> HIDE DEF x, y
<1>3. CASE cast' = cast
  BY <1>3 DEF NamedAsked
<1>4. CASE cast # <<>> /\ cast' = Tail(cast)
  BY <1>4, InTail DEF NamedAsked
<1>5. CASE cast' = Append(cast, x)
  BY <1>1, <1>5, InAppend DEF NamedAsked
<1>6. CASE cast' = <<x>>
  BY <1>1, <1>6, InOne DEF NamedAsked
<1>7. CASE t # 0 /\ cast' = Append(cast, y)
  BY <1>1, <1>7, InAppend DEF NamedAsked
<1>8. CASE t # 0 /\ cast' = Append(Append(cast, y), x)
  <2> DEFINE z == Append(cast, y)
  <2>1. z \in Seq(Command) /\ In(z) = In(cast) \cup {y}
    BY <1>1, InAppend
  <2> HIDE DEF z
  <2>2. cast' = Append(z, x)
    BY <1>8 DEF z
  <2>3. In(cast') = In(z) \cup {x}
    BY <1>1, <2>1, <2>2, InAppend
  <2> QED BY <1>1, <1>8, <2>1, <2>3 DEF NamedAsked
<1> QED BY <1>2, <1>3, <1>4, <1>5, <1>6, <1>7, <1>8

LEMMA TypesKept ==
  ASSUME TypeOK, Named, Next
  PROVE  TypeOK' /\ Named'
<1>0. /\ RendererTypeOK /\ SlimTypeOK /\ dev \in DevType /\ lms \in LmsType /\ played \subseteq Tracks
      /\ NamedSaid /\ NamedNotes /\ NamedAsked /\ NamedHeld
      /\ cast \in Seq(Command) /\ events \in Seq(Status) /\ notes \in Seq(Note)
      /\ mr.next \in Tracks \cup {0} /\ stat \in Seq(StatEvent) /\ upsets \in 0 .. MaxUpsets
  BY DEF TypeOK, PlaybackTypeOK, Named, RendererTypeOK, SlimTypeOK, MR
<1>1. told' \in ToldType /\ upsets' \in 0 .. MaxUpsets
  BY <1>0, ToldTypes, UpsetsTypes
<1>2. ASSUME UNCHANGED rendererVars
      PROVE  RendererTypeOK' /\ NamedSaid' /\ NamedNotes' /\ NamedAsked'
  BY <1>0, <1>2 DEF rendererVars, RendererTypeOK, NamedSaid, NamedNotes, NamedAsked
<1> DEFINE Kept == /\ RendererTypeOK' /\ SlimTypeOK' /\ dev' \in DevType /\ lms' \in LmsType
                   /\ played' \subseteq Tracks
                   /\ NamedSaid' /\ NamedNotes' /\ NamedAsked' /\ NamedHeld'
<1> SUFFICES Kept
  BY <1>1 DEF TypeOK, PlaybackTypeOK, Named
<1>3. CASE SlimAlone
  <2>1. SlimTypeOK' /\ UNCHANGED <<rendererVars, dev, played>>
    BY <1>0, <1>3, SlimAloneKeeps
  <2>2. lms' \in LmsType
    <3>1. CASE lms.todo # <<>> /\ lms' = [lms EXCEPT !.todo = Tail(lms.todo)]
      <4>1. Tail(lms.todo) \in Seq({"q", "s", "f", "p", "u"})
        BY <1>0, <3>1, InTail DEF LmsType
      <4> QED BY <1>0, <3>1, <4>1 DEF LmsType
    <3> QED BY <1>0, <1>3, <3>1, SlimAloneKeeps
  <2>3. NamedHeld'
    <3>1. slim'.at = "track" => (slim.at = "track" /\ output'.index = output.index) \/ output'.index \in Tracks
      BY <1>0, <1>3, SlimAloneDoes DEF SlimQuits, SlimTakesBack, SlimBegins, SlimPasses
    <3> QED BY <1>0, <2>1, <3>1, PlaylistAssumption DEF NamedHeld
  <2> QED BY <1>0, <1>2, <2>1, <2>2, <2>3
<1>4. CASE Callback_STOP \/ Callback_PAUSE \/ Callback_UNPAUSE
  <2>1. /\ SqPlay \/ SqPause \/ SqStop
        /\ slim'.at # "track" /\ SlimTypeOK' /\ UNCHANGED <<dev, lms, played>>
    BY <1>0, <1>4, CallbackIs
  <2>2. /\ RendererTypeOK' /\ UNCHANGED <<notes, events>>
        /\ \/ cast' \in {cast, Append(cast, Tell("PLAY", 0)), Append(cast, Tell("PAUSE", 0))}
           \/ cast' = <<Tell("STOP", 0)>>
    BY <1>0, <2>1, CallbackDoes
  <2>3. NamedAsked'
    BY <1>0, <2>2, AskedKept
  <2> QED BY <1>0, <2>1, <2>2, <2>3 DEF NamedHeld, NamedSaid, NamedNotes
<1>5. CASE Callback_SET_TRACK
  <2> DEFINE t == output.index
  <2>1. /\ SetTrack(t, slim.next) \/ SetTrackFails(t, slim.next)
        /\ t \in Tracks \cup {0} /\ slim.next \in BOOLEAN
        /\ slim.at = "track" /\ slim'.at = "socket"
        /\ SlimTypeOK' /\ UNCHANGED <<dev, lms, played>>
    BY <1>0, <1>5, SetTrackIs
  <2>2. t # 0
    BY <1>0, <2>1 DEF NamedHeld
  <2> HIDE DEF t
  <2>3. /\ RendererTypeOK' /\ UNCHANGED <<notes, events>>
        /\ \/ cast' = cast \/ cast' = Append(cast, Tell("LOAD", t))
           \/ cast' = Append(Append(cast, Tell("LOAD", t)), Tell("PLAY", 0))
    BY <1>0, <2>1, SetTrackDoes
  <2>4. NamedAsked'
    BY <1>0, <2>1, <2>2, <2>3, AskedKept
  <2> QED BY <1>0, <2>1, <2>3, <2>4 DEF NamedHeld, NamedSaid, NamedNotes
<1>6. CASE Round2
  <2>1. /\ SqPlay \/ UNCHANGED rendererVars
        /\ slim'.at # "track" /\ SlimTypeOK' /\ UNCHANGED <<dev, lms, played>>
    BY <1>0, <1>6, Round2Is
  <2>2. NamedHeld'
    BY <1>0, <2>1 DEF NamedHeld
  <2>3. CASE SqPlay
    <3>1. /\ RendererTypeOK' /\ UNCHANGED <<notes, events>>
          /\ \/ cast' \in {cast, Append(cast, Tell("PLAY", 0)), Append(cast, Tell("PAUSE", 0))}
             \/ cast' = <<Tell("STOP", 0)>>
      BY <1>0, <2>3, CallbackDoes
    <3>2. NamedAsked'
      BY <1>0, <3>1, AskedKept
    <3> QED BY <1>0, <2>1, <2>2, <3>1, <3>2 DEF NamedSaid, NamedNotes
  <2> QED BY <1>0, <1>2, <2>1, <2>2, <2>3
<1>7. CASE Message
  <2>1. PICK b \in BOOLEAN : MRMessage(b)
    BY <1>7 DEF Message
  <2>2. UNCHANGED <<slimVars, dev, lms, played>>
    BY <1>7 DEF Message, Rest
  <2>3. /\ RendererTypeOK' /\ events # <<>> /\ events' = Tail(events)
        /\ \A n \in In(notes') : Comes(n, Head(events))
        /\ \/ cast' = cast
           \/ /\ mr.next # 0
              /\ cast' = Append(Append(cast, Tell("LOAD", mr.next)), Tell("PLAY", 0))
    BY <1>0, <2>1, MessageDoes
  <2>4. NamedAsked'
    <3> DEFINE t == mr.next
    <3>1. t \in Tracks \cup {0}
      BY <1>0
    <3> HIDE DEF t
    <3>2. \/ cast' = cast
          \/ t # 0 /\ cast' = Append(Append(cast, Tell("LOAD", t)), Tell("PLAY", 0))
      BY <2>3 DEF t
    <3> QED BY <1>0, <3>1, <3>2, AskedKept
  <2>5. In(events') \subseteq In(events) /\ Head(events) \in In(events)
    BY <1>0, <2>3, InTail
  <2>6. NamedSaid' /\ NamedNotes'
    BY <1>0, <2>3, <2>5 DEF NamedSaid, NamedNotes, Comes
  <2> QED BY <1>0, <2>2, <2>3, <2>4, <2>6 DEF slimVars, SlimTypeOK, NamedHeld
<1>8. CASE Timers \/ WaitOver
  <2>1. \/ MRTimeout \/ MRRelease
        \/ \E w \in {"goes on", "missed", "over"}, x \in BOOLEAN : MRTimers(w, x)
    BY <1>8 DEF Timers, WaitOver
  <2>2. UNCHANGED <<slimVars, dev, lms, played>>
    BY <1>8 DEF Timers, WaitOver, Rest
  <2>3. /\ RendererTypeOK' /\ events' = events
        /\ cast' = cast \/ cast' = Append(cast, Tell("RELEASE", 0))
        /\ notes' = notes \/ notes' = <<>> \/ notes' = Notify("STOP", FALSE)
    BY <1>0, <2>1, TimersDo
  <2>4. NamedAsked'
    BY <1>0, <2>3, AskedKept
  <2>5. NamedNotes'
    BY <1>0, <2>3, NoteTypes, InNone DEF NamedNotes
  <2> QED BY <1>0, <2>2, <2>3, <2>4, <2>5 DEF slimVars, SlimTypeOK, NamedHeld, NamedSaid
<1>9. CASE Notification
  <2>1. /\ notes # <<>> /\ UNCHANGED <<events, cast>> /\ RendererTypeOK'
        /\ Head(notes) \in In(notes) /\ In(notes') \subseteq In(notes)
        /\ \/ NotifyPlay \/ NotifyPause \/ NotifyClosed
           \/ Head(notes).event = "STOP" /\ NotifyStop
           \/ \E t \in Tracks : /\ Head(notes).event = "TRACK_INFO" /\ Head(notes).track = t
                                /\ NotifyTrackInfo(t)
    BY <1>0, <1>9, NotificationIs
  <2>5. Head(notes) \in Note
    BY <1>0, <2>1, InTail
  <2>2. SlimTypeOK' /\ UNCHANGED slim /\ output'.index = output.index
    BY <1>0, <2>1, <2>5, NotifyTypes, NotifyDoes
  <2>3. lms' \in LmsType
    <3>1. Head(notes) \in Note /\ Heed(Head(notes))
      BY <1>0, <1>9, <2>1, InTail DEF Notification
    <3>2. Head(notes).event = "TRACK_INFO" => ~Head(notes).sure
      BY <1>0, <2>1 DEF NamedNotes
    <3> QED BY <1>0, <3>1, <3>2, HeedIs DEF Answered
  <2>4. UNCHANGED <<dev, played>>
    BY <1>9 DEF Notification
  <2> QED BY <1>0, <2>1, <2>2, <2>3, <2>4 DEF NamedHeld, NamedSaid, NamedNotes, NamedAsked
<1>10. CASE DevStep
  <2>1. /\ UNCHANGED <<mr, thread, notes, slimVars, lms>>
        /\ DevLoads \/ DevKeeps \/ DevLeaves
        /\ dev' \in DevType /\ played' \subseteq played \cup Tracks
    BY <1>0, <1>10, DeviceDoes
  <2>2. /\ Left \in Seq(Status) /\ NamedSaid /\ \A e \in In(Left) : e.state \notin Ends => e.track # 0
    <3>1. Status0("IDLE", 0) \in Status /\ Status0("IDLE", 0).state = "IDLE"
      BY DEF Status0, Status
    <3> QED BY <1>0, <3>1, InAppend DEF Left, NamedSaid, Ends
  <2>3. CASE DevLoads
    <3>1. Head(cast) \in Command /\ Head(cast) \in In(cast) /\ cast' \in Seq(Command) /\ Shorter
      BY <1>0, <2>3, InTail DEF DevLoads, Shorter
    <3> DEFINE t == Head(cast).track
               e == Status0("PAUSED", t)
    <3>2. t \in Tracks \cup {0} /\ t # 0
      BY <1>0, <2>3, <3>1 DEF Command, DevLoads, NamedAsked
    <3>3. e \in Status /\ e.track = t
      BY <3>2 DEF Status, Status0
    <3>4. events' = Append(Left, e) /\ dev'.track = t
      BY <2>3 DEF DevLoads
    <3> HIDE DEF t, e
    <3>5. events' \in Seq(Status) /\ In(events') = In(Left) \cup {e}
      BY <2>2, <3>3, <3>4, InAppend
    <3>6. NamedSaid'
      BY <2>2, <3>2, <3>3, <3>5 DEF NamedSaid
    <3>7. NamedAsked'
      BY <1>0, <3>1, AskedKept
    <3>8. RendererTypeOK'
      BY <1>0, <2>1, <3>1, <3>5 DEF RendererTypeOK
    <3> QED BY <1>0, <2>1, <3>2, <3>4, <3>6, <3>7, <3>8 DEF slimVars, SlimTypeOK, NamedHeld, NamedNotes
  <2>4. ASSUME Shorter
        PROVE  cast' \in Seq(Command) /\ NamedAsked'
    BY <1>0, <2>4, InTail, AskedKept DEF Shorter
  <2>5. CASE DevKeeps
    <3>1. events' \in Seq(Status) /\ NamedSaid'
      <4>1. ASSUME NEW s \in {"PLAYING", "BUFFERING", "PAUSED"}, dev.state # "none",
                   events' = Append(events, Status0(s, dev.track))
            PROVE  events' \in Seq(Status) /\ NamedSaid'
        <5>1. Status0(s, dev.track) \in Status /\ Status0(s, dev.track).track # 0
          BY <1>0, <4>1 DEF Status0, Status, DevType, NamedHeld
        <5> QED BY <1>0, <4>1, <5>1, InAppend DEF NamedSaid
      <4> QED BY <1>0, <2>5, <4>1 DEF DevKeeps, NamedSaid
    <3>2. NamedHeld'
      BY <1>0, <2>1, <2>5 DEF DevKeeps, NamedHeld, slimVars
    <3>3. cast' \in Seq(Command) /\ NamedAsked'
      BY <2>4, <2>5 DEF DevKeeps
    <3> QED BY <1>0, <2>1, <3>1, <3>2, <3>3 DEF RendererTypeOK, slimVars, SlimTypeOK, NamedNotes
  <2>6. CASE DevLeaves
    <3>1. events' \in Seq(Status) /\ NamedSaid'
      <4>1. ASSUME NEW s \in Ends, events' = Append(events, Status0(s, 0))
            PROVE  events' \in Seq(Status) /\ NamedSaid'
        <5>1. Status0(s, 0) \in Status /\ Status0(s, 0).state \in Ends
          BY DEF Status0, Status, Ends
        <5> QED BY <1>0, <4>1, <5>1, InAppend DEF NamedSaid
      <4> QED BY <1>0, <2>6, <4>1 DEF DevLeaves, NamedSaid
    <3>2. NamedHeld'
      BY <1>0, <2>1, <2>6 DEF DevLeaves, NamedHeld, slimVars
    <3>3. cast' \in Seq(Command) /\ NamedAsked'
      BY <2>4, <2>6 DEF DevLeaves
    <3> QED BY <1>0, <2>1, <3>1, <3>2, <3>3 DEF RendererTypeOK, slimVars, SlimTypeOK, NamedNotes
  <2> QED BY <2>1, <2>3, <2>5, <2>6
<1>11. CASE LMSHears
  <2>1. /\ lms' \in LmsType /\ stat' \in Seq(StatEvent)
        /\ UNCHANGED <<output, render, stream, decode, servers, ended, flags, slim>>
        /\ UNCHANGED <<rendererVars, dev, played>>
    BY <1>0, <1>11, HearsIs DEF Answered
  <2> QED BY <1>0, <1>2, <2>1 DEF SlimTypeOK, NamedHeld
<1>12. CASE LMSUser
  <2>1. lms' \in LmsType /\ UNCHANGED <<slimVars, rendererVars, dev, played>>
    BY <1>0, <1>12, UserIs
  <2> QED BY <1>0, <1>2, <2>1 DEF slimVars, SlimTypeOK, NamedHeld
<1> QED BY <1>3, <1>4, <1>5, <1>6, <1>7, <1>8, <1>9, <1>10, <1>11, <1>12, StepsAre

LEMMA TypesStay ==
  ASSUME TypeOK, Named, UNCHANGED vars
  PROVE  TypeOK' /\ Named'
BY DEF vars, rendererVars, slimVars, envVars, TypeOK, RendererTypeOK, SlimTypeOK, PlaybackTypeOK,
       Named, NamedSaid, NamedNotes, NamedAsked, NamedHeld

\* The tracks, the events and the flags of the whole player keep their types,
\* for any number of tracks and of upsets: no message of the device, of LMS or
\* of another thread is taken for what it is not.
THEOREM PlayerIsTyped == Spec => []TypeOK
<1>1. TypeOK /\ Named /\ [Next]_vars => TypeOK' /\ Named'
  BY TypesKept, TypesStay
<1> QED BY InitTypes, <1>1, PTL DEF Spec

-----------------------------------------------------------------------------
(* LMS hears that a track has started before anything else of it.           *)

\* Nothing was decoded of a track that is being set up.
Fresh ==
  slim.at = "track" \/ (slim.at = "socket" /\ ~slim.fails) =>
    ~output.completed /\ decode.state = "READY" /\ decode.new_stream

StartsFirst(s) == s = <<>> \/ s[1] = "STMs"

\* What lets the end of a track be told is left by the start that was told, or
\* that the round has found; a track that was decoded or sent brought something.
InOrder ==
  told.holds =>
    /\ StartsFirst(told.events)
    /\ flags.sendSTMd => told.events # <<>>
    /\ flags.canSTMdu => told.events # <<>> \/ (slim.at = "round" /\ slim.round.STMs)
    /\ slim.at = "round" /\ slim.round.STMu => flags.canSTMdu
    /\ output.completed \/ ~decode.new_stream => stream.bytes

\* What these two look at.
orderView == <<told, flags.sendSTMd, flags.canSTMdu, slim, output.completed,
               decode.new_stream, stream.bytes>>

LEMMA MilestonesAre ==
  ASSUME SlimTypeOK, NEW d \in BOOLEAN
  PROVE  /\ Milestones(d) \in Seq(StatEvent)
         /\ slim.round.STMs => Milestones(d) # <<>> /\ Milestones(d)[1] = "STMs"
         /\ ~slim.round.STMs /\ ~d /\ ~flags.sendSTMd /\ ~slim.round.STMu => Milestones(d) = <<>>
<1> DEFINE r == slim.round
           held == ~r.STMs /\ (d \/ flags.sendSTMd)
           x == Say("STMs", r.STMs)
           y == Say("STMd", held)
           z == Say("STMu", r.STMu)
<1>1. held \in BOOLEAN /\ r.STMs \in BOOLEAN /\ r.STMu \in BOOLEAN
  BY StatusRecords
<1>2. Milestones(d) = x \o (y \o z)
  BY DEF Milestones
<1>3. x \in Seq(StatEvent) /\ z \in Seq(StatEvent)
  BY <1>1, SaidOf DEF StatEvent
<1>4. y \in Seq(StatEvent)
  <2> HIDE DEF held
  <2> QED BY <1>1, SaidOf DEF StatEvent
<1>5. /\ r.STMs => x = <<"STMs">>
      /\ ~r.STMs => x = <<>>
      /\ ~held => y = <<>>
      /\ ~r.STMu => z = <<>>
  BY DEF Say
<1>6. y \o z \in Seq(StatEvent)
  BY <1>3, <1>4, InConcat
<1>7. ASSUME r.STMs PROVE Milestones(d) # <<>> /\ Milestones(d)[1] = "STMs"
  <2> DEFINE w == y \o z
  <2>1. w \in Seq(StatEvent) /\ Milestones(d) = <<"STMs">> \o w
    BY <1>2, <1>5, <1>6, <1>7
  <2> HIDE DEF w
  <2> QED BY <2>1
<1>8. ASSUME ~r.STMs, ~d, ~flags.sendSTMd, ~r.STMu PROVE Milestones(d) = <<>>
  BY <1>2, <1>5, <1>8
<1> QED BY <1>2, <1>3, <1>6, <1>7, <1>8, InConcat

LEMMA OrderSteady ==
  ASSUME Fresh, InOrder, UNCHANGED orderView, decode'.state = decode.state \/ decode.state # "READY"
  PROVE  Fresh' /\ InOrder'
<1>1. /\ told' = told /\ slim' = slim /\ flags'.sendSTMd = flags.sendSTMd
      /\ flags'.canSTMdu = flags.canSTMdu /\ output'.completed = output.completed
      /\ decode'.new_stream = decode.new_stream /\ stream'.bytes = stream.bytes
  BY DEF orderView
<1>2. Fresh'
  BY <1>1 DEF Fresh
<1> QED BY <1>1, <1>2 DEF InOrder, StartsFirst

\* Outside the rounds the place of the SlimProto thread does not matter, but for
\* what a new track must be.
LEMMA OrderPasses ==
  ASSUME Fresh, InOrder, slim.at # "round", slim'.at # "round",
         told' = told, flags'.sendSTMd = flags.sendSTMd, flags'.canSTMdu = flags.canSTMdu,
         output'.completed \/ ~decode'.new_stream =>
           output.completed \/ ~decode.new_stream,
         stream'.bytes = stream.bytes,
         Fresh'
  PROVE  Fresh' /\ InOrder'
BY DEF InOrder, StartsFirst

LEMMA OrderKept ==
  ASSUME TypeOK, Named, Fresh, InOrder, Next
  PROVE  Fresh' /\ InOrder'
<1>0. /\ output \in OutputType /\ render \in RenderType /\ stream \in StreamType
      /\ decode \in DecodeType /\ flags \in FlagsType /\ slim \in SlimType
      /\ told \in ToldType /\ RendererTypeOK /\ SlimTypeOK /\ dev \in DevType
      /\ lms \in LmsType /\ stat \in Seq(StatEvent) /\ NamedNotes /\ NamedHeld
  BY DEF TypeOK, SlimTypeOK, PlaybackTypeOK, Named
<1> USE DEF At, GoTo
<1>1. CASE Command_q
  <2>1. /\ slim.at = "idle" /\ slim'.at \in {"idle", "stop"} /\ told' = told
        /\ flags'.sendSTMd = flags.sendSTMd /\ flags'.canSTMdu = flags.canSTMdu
    BY <1>0, <1>1 DEF Command_q, StrmStop, FlagsType, SlimType
  <2>2. /\ output'.completed = output.completed /\ decode'.new_stream = decode.new_stream
        /\ stream'.bytes = stream.bytes
    BY <1>0, <1>1 DEF Command_q, StrmStop, OutputFlush, OutputType, DecodeType, StreamType
  <2>3. Fresh'
    BY <2>1 DEF Fresh
  <2> QED BY <2>1, <2>2, <2>3, OrderPasses
<1>2. CASE Command_f
  <2>1. slim.at = "idle" /\ slim'.at = "idle" /\ ~told'.holds
    BY <1>0, <1>2 DEF Command_f, StrmFlush, ToldType
  <2> QED BY <2>1 DEF Fresh, InOrder
<1>3. CASE Command_p \/ Command_u \/ After_UNPAUSE
  <2>1. /\ slim.at \in {"idle", "unpaused"} /\ slim'.at \in {"idle", "pause", "unpause"} /\ told' = told
        /\ flags'.sendSTMd = flags.sendSTMd /\ flags'.canSTMdu = flags.canSTMdu
    BY <1>0, <1>3 DEF Command_p, Command_u, After_UNPAUSE, StrmPause, StrmUnpause, StrmUnpaused, FlagsType, SlimType
  <2>2. output'.completed = output.completed /\ UNCHANGED <<decode, stream>>
    BY <1>0, <1>3 DEF Command_p, Command_u, After_UNPAUSE, StrmPause, StrmUnpause, StrmUnpaused, OutputType
  <2>3. Fresh'
    BY <2>1 DEF Fresh
  <2> QED BY <2>1, <2>2, <2>3, OrderPasses
<1>4. CASE Command_s
  <2>1. PICK a \in {0, 1}, r \in BOOLEAN : StrmStart(a, r)
    BY <1>4 DEF Command_s
  <2>2. /\ slim.at = "idle" /\ told' = told /\ stream' = stream
        /\ flags'.sendSTMd = flags.sendSTMd /\ flags'.canSTMdu = flags.canSTMdu
    BY <1>0, <1>4, <2>1 DEF Command_s, StrmStart, FlagsType
  <2>3. slim'.at = (IF r THEN "socket" ELSE "track") /\ (r => slim'.fails)
    BY <1>0, <2>1 DEF StrmStart, SlimType
  <2>4. r => output'.completed = output.completed /\ decode' = decode
    BY <1>0, <2>1 DEF StrmStart, OutputType
  <2>5. ~r => ~output'.completed /\ decode' = [state |-> "READY", new_stream |-> TRUE]
    BY <1>0, <2>1 DEF StrmStart, OutputType
  <2>6. Fresh'
    BY <2>3, <2>4, <2>5 DEF Fresh
  <2> QED BY <2>2, <2>3, <2>4, <2>5, <2>6, OrderPasses
<1>5. CASE Connect
  <2>1. PICK c \in BOOLEAN : StrmSocket(c)
    BY <1>5 DEF Connect
  <2>2. /\ slim.at = "socket" /\ slim'.at = "idle" /\ UNCHANGED <<output, decode>>
        /\ ~flags'.sendSTMd /\ ~flags'.canSTMdu
    BY <1>0, <2>1 DEF StrmSocket, Untold, FlagsType, SlimType
  <2>3. told'.events = <<>> /\ (told'.holds => ~slim.fails)
    <3> DEFINE h == ~slim.fails /\ (slim.next => told.holds)
    <3>1. told' = [events |-> <<>>, holds |-> h]
      BY <1>5 DEF Connect
    <3> QED BY <3>1
  <2> QED BY <2>2, <2>3 DEF Fresh, InOrder, StartsFirst
<1>6. CASE Round1
  <2> DEFINE u == Over /\ ~flags.sentSTMu /\ output.completed /\ StreamOver(stream.state)
             can == CanTell
             st == output.started
  <2>1. slim.at = "idle" /\ slim'.at = "round" /\ slim'.round.STMs = st /\ slim'.round.STMu = u
    BY <1>0, <1>6 DEF Round1, RoundOutput, SlimType, Round
  <2>2. flags'.canSTMdu = can /\ flags'.sendSTMd = flags.sendSTMd
    BY <1>0, <1>6 DEF Round1, RoundOutput, FlagsType
  <2>3. /\ output'.completed = output.completed /\ stream'.bytes = stream.bytes
        /\ decode' = decode /\ told' = told
    BY <1>0, <1>6 DEF Round1, RoundOutput, OutputType, StreamType
  <2>4. u => can
    BY DEF Over
  <2>5. told.holds => ~Dead
    BY DEF InOrder, Dead
  <2>6. told.holds /\ can => flags.canSTMdu \/ st
    BY <2>5 DEF CanTell
  <2> HIDE DEF u, can, st
  <2>7. Fresh'
    BY <2>1 DEF Fresh
  <2> QED BY <2>1, <2>2, <2>3, <2>4, <2>6, <2>7 DEF InOrder, StartsFirst
<1>7. CASE Round2
  <2>1. PICK near \in BOOLEAN : /\ RoundDecode(near)
                                /\ told' = [told EXCEPT !.events = told.events \o Milestones(IsDecoded(near))]
    BY <1>7 DEF Round2
  <2> DEFINE d == IsDecoded(near)
             b == slim.round.STMs /\ (d \/ flags.sendSTMd)
             m == Milestones(d)
             e == told.events \o m
  <2>2. d \in BOOLEAN /\ (d => flags.canSTMdu)
    BY DEF IsDecoded, AsksNext
  <2>3. slim.at = "round" /\ slim'.at = "idle"
    BY <1>0, <2>1 DEF RoundDecode, SlimType
  <2>4. flags'.sendSTMd = b /\ flags'.canSTMdu = flags.canSTMdu
    BY <1>0, <2>1 DEF RoundDecode, FlagsType
  <2>5. /\ output'.completed = output.completed /\ stream'.bytes = stream.bytes
        /\ decode'.new_stream = decode.new_stream
    BY <1>0, <2>1 DEF RoundDecode, OutputType, StreamType, DecodeType
  <2>6. told'.events = e /\ told'.holds = told.holds
    BY <1>0, <2>1 DEF ToldType
  <2> HIDE DEF d
  <2>7. /\ m \in Seq(StatEvent) /\ (slim.round.STMs => m # <<>> /\ m[1] = "STMs")
        /\ ~slim.round.STMs /\ ~d /\ ~flags.sendSTMd /\ ~slim.round.STMu => m = <<>>
    BY <1>0, <2>2, MilestonesAre
  <2> DEFINE s == told.events
  <2>8. s \in Seq(StatEvent) /\ e = s \o m
    BY <1>0 DEF ToldType
  <2> HIDE DEF m, e, s
  <2>9. ASSUME told.holds
        PROVE  StartsFirst(e) /\ (b => e # <<>>) /\ (flags.canSTMdu => e # <<>>)
    <3>1. StartsFirst(s) /\ (flags.sendSTMd => s # <<>>) /\ (flags.canSTMdu => s # <<>> \/ slim.round.STMs)
          /\ (slim.round.STMu => flags.canSTMdu)
      BY <2>3, <2>9 DEF InOrder, s
    <3>2. CASE s # <<>>
      <4>1. e # <<>> /\ e[1] = s[1]
        BY <2>7, <2>8, <3>2
      <4> QED BY <3>1, <3>2, <4>1 DEF StartsFirst
    <3>3. CASE s = <<>>
      <4>1. e = m
        BY <2>7, <2>8, <3>3
      <4> QED BY <2>2, <2>7, <3>1, <3>3, <4>1 DEF StartsFirst
    <3> QED BY <3>2, <3>3
  <2>10. Fresh'
    BY <2>3 DEF Fresh
  <2> QED BY <2>3, <2>4, <2>5, <2>6, <2>9, <2>10 DEF InOrder, StartsFirst
<1>8. CASE Stream
  <2>1. UNCHANGED <<told, flags, slim, output, decode>>
    BY <1>8 DEF Stream, Quiet, StreamHeaders, StreamBuffered, StreamEnds, StreamEmpty, StreamBreaks
  <2>2. stream.bytes => stream'.bytes
    BY <1>0, <1>8
    DEF Stream, StreamHeaders, StreamBuffered, StreamEnds, StreamEmpty, StreamBreaks, StreamType
  <2> QED BY <2>1, <2>2 DEF Fresh, InOrder, StartsFirst
<1>9. CASE Decode
  <2>1. UNCHANGED <<told, flags, slim, stream>> /\ output'.completed = output.completed
        /\ decode.state = "RUNNING"
    BY <1>0, <1>9 DEF Decode, Quiet, DecodeOpens, DecodeEnds, DecodeFails, OutputType
  <2>2. decode'.new_stream = decode.new_stream \/ stream.bytes
    BY <1>0, <1>9 DEF Decode, DecodeOpens, DecodeEnds, DecodeFails, DecodeType
  <2> QED BY <2>1, <2>2 DEF Fresh, InOrder, StartsFirst
<1>10. CASE Serve
  <2>1. UNCHANGED <<told, flags, slim, stream, decode>>
    BY <1>10 DEF Serve, Quiet, ServerReads, ServerDrains, ServerLingers, ServerExits
  <2>2. output'.completed = output.completed \/ ~decode.new_stream
    BY <1>0, <1>10 DEF Serve, ServerReads, ServerDrains, ServerLingers, ServerExits, Pulls, OutputType
  <2> QED BY <2>1, <2>2 DEF Fresh, InOrder, StartsFirst
<1>11. CASE Callback_STOP \/ Callback_PAUSE \/ Callback_UNPAUSE
  <2>1. /\ slim.at \in {"stop", "pause", "unpause"} /\ slim'.at \in {"idle", "unpaused"}
        /\ UNCHANGED <<told, output, stream, decode, flags>>
    BY <1>0, <1>11, CallbackIs
  <2>2. Fresh'
    BY <2>1 DEF Fresh
  <2> QED BY <2>1, <2>2, OrderPasses
<1>12. CASE Callback_SET_TRACK
  <2>1. /\ slim.at = "track" /\ slim'.at = "socket" /\ UNCHANGED <<told, output, stream, decode, flags>>
    BY <1>0, <1>12, SetTrackIs
  <2>2. Fresh'
    BY <2>1 DEF Fresh
  <2> QED BY <2>1, <2>2, OrderPasses
<1>13. CASE Notification
  <2>1. \/ NotifyPlay \/ NotifyPause \/ NotifyClosed \/ NotifyStop
        \/ \E t \in Tracks : NotifyTrackInfo(t)
    BY <1>0, <1>13, NotificationIs
  <2>2. UNCHANGED <<flags, slim, stream, decode>> /\ output'.completed = output.completed
    BY <1>0, <2>1
    DEF NotifyPlay, NotifyPause, NotifyClosed, slimVars, NotifyStop, NotifyTrackInfo, OutputType
  <2>3. told' = told
    BY <1>13 DEF Notification
  <2> QED BY <2>2, <2>3, OrderSteady DEF orderView
<1>14. CASE Message \/ Timers \/ WaitOver
  <2>1. UNCHANGED <<told, flags, slim, stream, decode, output>>
    BY <1>14 DEF Message, Timers, WaitOver, slimVars
  <2> QED BY <2>1, OrderSteady DEF orderView
<1>15. CASE DevStep
  <2>1. UNCHANGED <<told, flags, slim, stream, decode, output>>
    BY <1>0, <1>15, DeviceDoes DEF slimVars
  <2> QED BY <2>1, OrderSteady DEF orderView
<1>16. CASE LMSHears \/ LMSUser
  <2>1. UNCHANGED <<told, flags, slim, stream, decode, output>>
    BY <1>16 DEF LMSHears, LMSUser, slimVars
  <2> QED BY <2>1, OrderSteady DEF orderView
<1> QED BY <1>1, <1>2, <1>3, <1>4, <1>5, <1>6, <1>7, <1>8, <1>9, <1>10, <1>11, <1>12, <1>13,
           <1>14, <1>15, <1>16, StepsAre DEF SlimAlone

LEMMA OrderTellsFirst ==
  ASSUME TypeOK, InOrder
  PROVE  StartToldFirst
<1> SUFFICES ASSUME told.holds, NEW i \in DOMAIN told.events, told.events[i] # "STMs"
             PROVE  \E j \in 1 .. i - 1 : told.events[j] = "STMs"
  BY DEF StartToldFirst
<1>1. told.events \in Seq(StatEvent) /\ StartsFirst(told.events)
  BY DEF TypeOK, PlaybackTypeOK, ToldType, InOrder
<1>2. i \in Nat /\ i > 1 /\ told.events[1] = "STMs"
  BY <1>1 DEF StartsFirst
<1> QED BY <1>2

\* What LMS hears of a track, as long as none was taken back or refused, begins
\* with its start (STMs): neither the end of decoding (STMd) nor the end of play
\* (STMu) overtakes it, whatever the threads that find them do in between.
THEOREM StartIsToldFirst == Spec => []StartToldFirst
<1> DEFINE I == TypeOK /\ Named /\ Fresh /\ InOrder
<1>1. Init => I
  BY InitTypes DEF Init, SlimInit, Fresh, InOrder, StartsFirst
<1>2. I /\ [Next]_vars => I'
  <2>1. ASSUME I, UNCHANGED vars PROVE I'
    <3>1. UNCHANGED <<told, flags, slim, stream, decode, output>>
      BY <2>1 DEF vars, slimVars
    <3> QED BY <2>1, <3>1, TypesStay, OrderSteady DEF orderView
  <2> QED BY <2>1, TypesKept, OrderKept
<1>3. I => StartToldFirst
  BY OrderTellsFirst
<1> QED BY <1>1, <1>2, <1>3, PTL DEF Spec

-----------------------------------------------------------------------------
(* The order of the tracks.  Whatever still speaks of a track speaks of one  *)
(* before those that are to be loaded, and these wait in their order.        *)

\* Tracks the renderer still hears of, is asked to load, will ask for, and the
\* one it is being given.
Seen == Tracks \cap ({dev.track, render.index} \cup {e.track : e \in In(events)}
                                               \cup {n.track : n \in In(notes)})
Loads(s) == {c.track : c \in {d \in In(s) : d.op = "LOAD"}}
Waits == {mr.next} \ {0}
New == IF slim.at = "track" THEN {output.index} ELSE {}

ToServe == (Loads(cast) \cup Waits) \cup New

Below(A, B) == \A a \in A, b \in B : a < b

InPlaces(s) == \A i, j \in 1..Len(s) : i < j /\ s[i].op = "LOAD" /\ s[j].op = "LOAD"
                                         => s[i].track < s[j].track

InTurn ==
  /\ Below(Seen, ToServe) /\ Below(Loads(cast), Waits \cup New) /\ Below(Waits, New)
  /\ InPlaces(cast)
  /\ \A t \in Seen \cup ToServe : t <= output.index
  /\ IF dev.state = "none" THEN dev.track = 0 ELSE \A t \in Seen : t <= dev.track

LEMMA TracksAre ==
  ASSUME TypeOK, Named
  PROVE  /\ Tracks \subseteq Nat \ {0} /\ Seen \subseteq Tracks /\ ToServe \subseteq Tracks
         /\ Loads(cast) \subseteq Tracks /\ Waits \subseteq Tracks /\ New \subseteq Tracks
         /\ output.index \in Tracks \cup {0} /\ output.index \in Nat
<1>1. /\ cast \in Seq(Command) /\ mr.next \in Tracks \cup {0} /\ output.index \in Tracks \cup {0}
      /\ NamedAsked /\ NamedHeld
  BY DEF TypeOK, RendererTypeOK, SlimTypeOK, OutputType, MR, Named
<1>2. \A c \in In(cast) : c \in Command
  BY <1>1, ElementOfSeq DEF In
<1>3. Loads(cast) \subseteq Tracks
  BY <1>1, <1>2 DEF Loads, NamedAsked, Command
<1>4. Waits \subseteq Tracks /\ New \subseteq Tracks
  BY <1>1 DEF Waits, New, NamedHeld
<1>5. Tracks \subseteq Nat \ {0}
  BY PlaylistAssumption
<1>6. Seen \subseteq Tracks
  BY DEF Seen
<1>7. ToServe \subseteq Tracks
  BY <1>3, <1>4 DEF ToServe
<1>8. output.index \in Tracks \cup {0} /\ output.index \in Nat
  <2> DEFINE i == output.index
  <2>1. i \in Tracks \cup {0}
    BY <1>1
  <2> HIDE DEF i
  <2>2. i \in Nat
    BY <1>5, <2>1
  <2> QED BY <2>1, <2>2 DEF i
<1> QED BY <1>3, <1>4, <1>5, <1>6, <1>7, <1>8

\* Commands that are handed over or obeyed.
LEMMA LoadsShrink ==
  ASSUME cast \in Seq(Command), InPlaces(cast), NEW op \in {"PLAY", "PAUSE", "STOP", "RELEASE"},
         Shorter \/ cast' = Append(cast, Tell(op, 0)) \/ cast' = <<Tell(op, 0)>>
  PROVE  Loads(cast)' \subseteq Loads(cast) /\ InPlaces(cast)'
<1> DEFINE x == Tell(op, 0)
           s == cast
           t == cast'
<1>1. x \in Command /\ x.op = op
  BY CommandTypes
<1>2. t = s \/ (s # <<>> /\ t = Tail(s)) \/ t = Append(s, x) \/ t = <<x>>
  BY DEF Shorter
<1>3. s \in Seq(Command) /\ InPlaces(s)
  OBVIOUS
<1> HIDE DEF x, s, t
<1>4. CASE s # <<>> /\ t = Tail(s)
  <2>1. In(t) \subseteq In(s)
    BY <1>3, <1>4, InTail
  <2>2. /\ Len(t) = Len(s) - 1 /\ Len(s) \in Nat
        /\ \A i \in 1..Len(s) - 1 : t[i] = s[i + 1]
    BY <1>3, <1>4, HeadTailProperties
  <2>3. InPlaces(t)
    <3> SUFFICES ASSUME NEW i \in 1..Len(t), NEW j \in 1..Len(t), i < j,
                        t[i].op = "LOAD", t[j].op = "LOAD"
                 PROVE  t[i].track < t[j].track
      BY DEF InPlaces
    <3>1. t[i] = s[i + 1] /\ t[j] = s[j + 1] /\ i + 1 \in 1..Len(s) /\ j + 1 \in 1..Len(s)
          /\ i + 1 < j + 1
      BY <2>2
    <3> QED BY <1>3, <3>1 DEF InPlaces
  <2> QED BY <2>1, <2>3 DEF Loads, s, t
<1>5. CASE t = Append(s, x)
  <2>1. In(t) = In(s) \cup {x}
    BY <1>1, <1>3, <1>5, InAppend
  <2>2. /\ Len(t) = Len(s) + 1 /\ Len(s) \in Nat /\ t[Len(s) + 1] = x
        /\ \A i \in 1..Len(s) : t[i] = s[i]
    BY <1>1, <1>3, <1>5, AppendProperties
  <2>3. InPlaces(t)
    <3> SUFFICES ASSUME NEW i \in 1..Len(t), NEW j \in 1..Len(t), i < j,
                        t[i].op = "LOAD", t[j].op = "LOAD"
                 PROVE  t[i].track < t[j].track
      BY DEF InPlaces
    <3>1. i \in 1..Len(s) /\ j \in 1..Len(s)
      BY <1>1, <2>2
    <3> QED BY <1>3, <2>2, <3>1 DEF InPlaces
  <2> QED BY <1>1, <2>1, <2>3 DEF Loads, s, t
<1>6. CASE t = <<x>>
  <2>1. In(t) = {x} /\ Len(t) = 1
    BY <1>1, <1>6, InOne
  <2> QED BY <1>1, <2>1 DEF Loads, InPlaces, s, t
<1>7. CASE t = s
  BY <1>3, <1>7 DEF s, t, Loads
<1> QED BY <1>2, <1>4, <1>5, <1>6, <1>7

\* A track that is asked for after those that wait.
LEMMA LoadsGrow ==
  ASSUME cast \in Seq(Command), InPlaces(cast), NEW n \in Tracks, Below(Loads(cast), {n}),
         \/ cast' = Append(cast, Tell("LOAD", n))
         \/ cast' = Append(Append(cast, Tell("LOAD", n)), Tell("PLAY", 0))
  PROVE  Loads(cast)' \subseteq Loads(cast) \cup {n} /\ InPlaces(cast)'
<1> DEFINE x == Tell("LOAD", n)
           y == Tell("PLAY", 0)
           s == cast
           t == Append(cast, x)
           u == cast'
<1>1. x \in Command /\ y \in Command /\ x.op = "LOAD" /\ x.track = n /\ y.op = "PLAY"
  BY CommandTypes
<1>2. u = t \/ u = Append(t, y)
  OBVIOUS
<1>3. s \in Seq(Command) /\ InPlaces(s) /\ Below(Loads(s), {n}) /\ t = Append(s, x)
  OBVIOUS
<1> HIDE DEF x, y, s, t, u
<1>4. t \in Seq(Command) /\ In(t) = In(s) \cup {x}
  BY <1>1, <1>3, InAppend
<1>5. InPlaces(t)
  <2>1. /\ Len(t) = Len(s) + 1 /\ Len(s) \in Nat /\ t[Len(s) + 1] = x
        /\ \A i \in 1..Len(s) : t[i] = s[i]
    BY <1>1, <1>3, AppendProperties
  <2> SUFFICES ASSUME NEW i \in 1..Len(t), NEW j \in 1..Len(t), i < j,
                      t[i].op = "LOAD", t[j].op = "LOAD"
               PROVE  t[i].track < t[j].track
    BY DEF InPlaces
  <2>2. i \in 1..Len(s) /\ t[i] = s[i]
    BY <2>1
  <2>3. CASE j \in 1..Len(s)
    BY <1>3, <2>1, <2>2, <2>3 DEF InPlaces
  <2>4. CASE j = Len(s) + 1
    <3>1. s[i].track \in Loads(s)
      BY <2>2 DEF Loads, In
    <3> QED BY <1>1, <1>3, <2>1, <2>2, <2>4, <3>1 DEF Below
  <2>5. j \in 1..Len(s) \/ j = Len(s) + 1
    BY <2>1
  <2> QED BY <2>3, <2>4, <2>5
<1>6. CASE u = t
  BY <1>1, <1>4, <1>5, <1>6 DEF Loads, s, t, u
<1>7. CASE u = Append(t, y)
  <2>1. In(u) = In(t) \cup {y}
    BY <1>1, <1>4, <1>7, InAppend
  <2>2. /\ Len(u) = Len(t) + 1 /\ Len(t) \in Nat /\ u[Len(t) + 1] = y
        /\ \A i \in 1..Len(t) : u[i] = t[i]
    BY <1>1, <1>4, <1>7, AppendProperties
  <2>3. InPlaces(u)
    <3> SUFFICES ASSUME NEW i \in 1..Len(u), NEW j \in 1..Len(u), i < j,
                        u[i].op = "LOAD", u[j].op = "LOAD"
                 PROVE  u[i].track < u[j].track
      BY DEF InPlaces
    <3>1. i \in 1..Len(t) /\ j \in 1..Len(t)
      BY SMTT(30), <1>1, <2>2
    <3> QED BY <1>5, <2>2, <3>1 DEF InPlaces
  <2>4. Loads(u) \subseteq Loads(s) \cup {n}
    BY <1>1, <1>4, <2>1 DEF Loads
  <2>5. Loads(u) = Loads(cast)' /\ InPlaces(u) = InPlaces(cast)' /\ Loads(s) = Loads(cast)
    BY DEF u, s, Loads, InPlaces
  <2> QED BY <2>3, <2>4, <2>5
<1> QED BY <1>2, <1>6, <1>7

\* A load that is obeyed was the first of those asked for.
LEMMA LoadsTake ==
  ASSUME cast \in Seq(Command), InPlaces(cast), cast # <<>>, cast' = Tail(cast),
         Head(cast).op = "LOAD"
  PROVE  /\ Head(cast).track \in Loads(cast) /\ Below({Head(cast).track}, Loads(cast)')
         /\ Loads(cast)' \subseteq Loads(cast) /\ InPlaces(cast)'
<1>1. Loads(cast)' \subseteq Loads(cast) /\ InPlaces(cast)'
  BY LoadsShrink DEF Shorter
<1> DEFINE s == cast
           t == cast'
<1>2. s \in Seq(Command) /\ s # <<>> /\ t = Tail(s) /\ Head(s).op = "LOAD" /\ InPlaces(s)
  OBVIOUS
<1> HIDE DEF s, t
<1>3. /\ Len(t) = Len(s) - 1 /\ Len(s) \in Nat /\ Len(s) > 0 /\ Head(s) = s[1]
      /\ \A i \in 1..Len(s) - 1 : t[i] = s[i + 1]
  BY <1>2, HeadTailProperties, EmptySeq
<1>4. Head(s).track \in Loads(s)
  BY <1>2, InTail DEF Loads
<1>5. ASSUME NEW i \in 1..Len(t), t[i].op = "LOAD" PROVE Head(s).track < t[i].track
  <2>1. t[i] = s[i + 1] /\ i + 1 \in 1..Len(s) /\ 1 \in 1..Len(s) /\ 1 < i + 1
    BY <1>3
  <2> QED BY <1>2, <1>3, <1>5, <2>1 DEF InPlaces
<1>6. Below({Head(s).track}, Loads(t))
  BY <1>5 DEF Below, Loads, In
<1> QED BY <1>1, <1>4, <1>6 DEF s, t, Loads, Below

\* Nothing speaks of a track it did not speak of.
LEMMA SeenShrinks ==
  ASSUME render'.index \in Tracks => render'.index \in Seen,
         dev'.track \in Tracks => dev'.track \in Seen,
         \A e \in In(events)' : e.track \in Tracks => e.track \in Seen,
         \A n \in In(notes)' : n.track \in Tracks => n.track \in Seen
  PROVE  Seen' \subseteq Seen
BY DEF Seen

LEMMA SeenAre ==
  /\ render.index \in Tracks => render.index \in Seen
  /\ dev.track \in Tracks => dev.track \in Seen
  /\ \A e \in In(events) : e.track \in Tracks => e.track \in Seen
  /\ \A n \in In(notes) : n.track \in Tracks => n.track \in Seen
  /\ 0 \notin Tracks /\ -1 \notin Tracks
<1>1. 0 \notin Tracks /\ -1 \notin Tracks
  BY PlaylistAssumption
<1> QED BY <1>1 DEF Seen

LEMMA TurnShrinks ==
  ASSUME InTurn, Seen' \subseteq Seen, Loads(cast)' \subseteq Loads(cast), InPlaces(cast)',
         Waits' \subseteq Waits, New' \subseteq New, output'.index = output.index,
         dev'.track = dev.track, dev'.state = "none" <=> dev.state = "none"
  PROVE  InTurn' /\ ToServe' \subseteq ToServe
<1>1. ToServe' \subseteq ToServe
  BY DEF ToServe
<1>2. Below(Seen, ToServe)' /\ Below(Loads(cast), Waits \cup New)' /\ Below(Waits, New)'
  BY <1>1 DEF InTurn, Below
<1>3. (\A t \in Seen \cup ToServe : t <= output.index)'
  BY <1>1 DEF InTurn
<1>4. (IF dev.state = "none" THEN dev.track = 0 ELSE \A t \in Seen : t <= dev.track)'
  BY DEF InTurn
<1> QED BY <1>1, <1>2, <1>3, <1>4 DEF InTurn

\* What becomes of the tracks that are to be loaded: nothing new, or the track
\* that LMS sends.
Served ==
  \/ ToServe' \subseteq ToServe
  \/ SlimBegins /\ ToServe' \subseteq ToServe \cup {output'.index}
     /\ (output'.index \in ToServe' => slim'.at = "track")

LEMMA TurnKept ==
  ASSUME TypeOK, Named, InTurn, Next
  PROVE  InTurn' /\ Served
<1>0. /\ RendererTypeOK /\ SlimTypeOK /\ dev \in DevType /\ lms \in LmsType
      /\ cast \in Seq(Command) /\ events \in Seq(Status) /\ notes \in Seq(Note)
      /\ mr \in MR /\ mr.next \in Tracks \cup {0} /\ stat \in Seq(StatEvent)
      /\ NamedNotes /\ NamedHeld /\ InPlaces(cast)
  BY DEF TypeOK, PlaybackTypeOK, Named, RendererTypeOK, SlimTypeOK, MR, InTurn
<1>1. /\ Tracks \subseteq Nat \ {0} /\ Seen \subseteq Tracks /\ ToServe \subseteq Tracks
      /\ Loads(cast) \subseteq Tracks /\ Waits \subseteq Tracks /\ New \subseteq Tracks
      /\ output.index \in Tracks \cup {0} /\ output.index \in Nat
  BY TracksAre
<1>2. ASSUME UNCHANGED cast PROVE Loads(cast)' \subseteq Loads(cast) /\ InPlaces(cast)'
  BY <1>0, <1>2 DEF Loads
<1>3. ASSUME UNCHANGED <<dev, render, events>>, \A n \in In(notes)' : n.track \in Tracks => n.track \in Seen
      PROVE  Seen' \subseteq Seen
  BY <1>3, SeenAre DEF Seen
<1>4. CASE SlimAlone
  <2>1. UNCHANGED <<rendererVars, dev>>
    BY <1>0, <1>4, SlimAloneKeeps
  <2>2. render'.index \in {render.index, -1} /\ (SlimQuits \/ SlimTakesBack \/ SlimBegins \/ SlimPasses)
    BY <1>0, <1>4, SlimAloneDoes
  <2>3. UNCHANGED <<mr, notes, events, cast>>
    BY <2>1 DEF rendererVars
  <2>4. Seen' \subseteq Seen
    BY <2>1, <2>2, <2>3, SeenAre, SeenShrinks
  <2>5. Loads(cast)' = Loads(cast) /\ InPlaces(cast)' /\ Waits' = Waits
    BY <1>0, <2>3 DEF Waits, Loads
  <2>6. CASE ~SlimBegins
    <3>1. New' \subseteq New /\ output'.index = output.index
      BY <2>2, <2>6 DEF SlimQuits, SlimTakesBack, SlimPasses, New
    <3> QED BY <2>1, <2>4, <2>5, <3>1, TurnShrinks DEF Served
  <2>7. CASE SlimBegins
    <3> DEFINE n == output'.index
    <3>1. n = output.index + 1 /\ n \in Tracks /\ New = {} /\ New' = IF slim'.at = "track" THEN {n} ELSE {}
      BY <2>7 DEF SlimBegins, New
    <3> HIDE DEF n
    <3>2. \A t \in Seen \cup ToServe : t < n
      BY <1>1, <3>1 DEF InTurn
    <3>3. ToServe' \subseteq ToServe \cup {n} /\ ToServe = Loads(cast) \cup Waits
          /\ (n \in ToServe' => slim'.at = "track")
      <4>1. ToServe = Loads(cast) \cup Waits /\ ToServe' = (Loads(cast) \cup Waits) \cup New'
        BY <2>5, <3>1 DEF ToServe
      <4> QED BY <1>1, <3>1, <3>2, <4>1
    <3>4. Below(Seen, ToServe)' /\ Below(Loads(cast), Waits \cup New)' /\ Below(Waits, New)'
      BY <2>4, <2>5, <3>1, <3>2, <3>3 DEF InTurn, Below
    <3>5. (\A t \in Seen \cup ToServe : t <= output.index)'
      BY <1>1, <2>4, <3>1, <3>2, <3>3 DEF n
    <3>6. (IF dev.state = "none" THEN dev.track = 0 ELSE \A t \in Seen : t <= dev.track)'
      BY <2>1, <2>4 DEF InTurn
    <3> QED BY <2>5, <2>7, <3>3, <3>4, <3>5, <3>6 DEF InTurn, Served, n
  <2> QED BY <2>6, <2>7
<1>5. CASE Callback_STOP \/ Callback_PAUSE \/ Callback_UNPAUSE
  <2>1. /\ SqPlay \/ SqPause \/ SqStop
        /\ slim'.at # "track" /\ UNCHANGED <<output, render, dev>>
    BY <1>0, <1>5, CallbackIs
  <2>2. /\ UNCHANGED <<notes, events>> /\ mr'.next \in {mr.next, 0}
        /\ \/ cast' \in {cast, Append(cast, Tell("PLAY", 0)), Append(cast, Tell("PAUSE", 0))}
           \/ cast' = <<Tell("STOP", 0)>>
    BY <1>0, <2>1, CallbackDoes
  <2>3. Seen' \subseteq Seen /\ Waits' \subseteq Waits /\ New' \subseteq New
    BY <1>3, <2>1, <2>2, SeenAre DEF Waits, New
  <2>4. Loads(cast)' \subseteq Loads(cast) /\ InPlaces(cast)'
    BY <1>0, <1>2, <2>2, LoadsShrink
  <2> QED BY <2>1, <2>3, <2>4, TurnShrinks DEF Served
<1>6. CASE Round2
  <2>1. /\ SqPlay \/ UNCHANGED rendererVars
        /\ slim'.at # "track" /\ output'.index = output.index /\ UNCHANGED <<render, dev>>
    BY <1>0, <1>6, Round2Is
  <2>2. /\ UNCHANGED <<notes, events>> /\ mr'.next \in {mr.next, 0}
        /\ \/ cast' \in {cast, Append(cast, Tell("PLAY", 0)), Append(cast, Tell("PAUSE", 0))}
           \/ cast' = <<Tell("STOP", 0)>>
    BY <1>0, <2>1, CallbackDoes DEF rendererVars
  <2>3. Seen' \subseteq Seen /\ Waits' \subseteq Waits /\ New' \subseteq New
    BY <1>3, <2>1, <2>2, SeenAre DEF Waits, New
  <2>4. Loads(cast)' \subseteq Loads(cast) /\ InPlaces(cast)'
    BY <1>0, <1>2, <2>2, LoadsShrink
  <2> QED BY <2>1, <2>3, <2>4, TurnShrinks DEF Served
<1>7. CASE Callback_SET_TRACK
  <2> DEFINE n == output.index
  <2>1. /\ SetTrack(n, slim.next) \/ SetTrackFails(n, slim.next)
        /\ n \in Tracks \cup {0} /\ slim.next \in BOOLEAN
        /\ slim.at = "track" /\ slim'.at = "socket" /\ UNCHANGED <<output, render, dev>>
    BY <1>0, <1>7, SetTrackIs
  <2>2. New = {n} /\ New' = {} /\ n \in Tracks
    BY <1>0, <1>1, <2>1 DEF New
  <2>3. output'.index = n
    BY <2>1
  <2> HIDE DEF n
  <2>4. /\ UNCHANGED <<notes, events>>
        /\ \/ cast' = cast /\ (mr'.next = n \/ mr'.next = 0)
           \/ mr'.next = 0 /\ cast' = Append(cast, Tell("LOAD", n))
           \/ mr'.next = 0 /\ cast' = Append(Append(cast, Tell("LOAD", n)), Tell("PLAY", 0))
    BY <1>0, <2>1, SetTrackDoes
  <2>5. Seen' \subseteq Seen
    BY <1>3, <2>1, <2>4, SeenAre
  <2>6. Below(Loads(cast), {n}) /\ Below(Seen, ToServe)
    BY <2>2 DEF InTurn, Below
  <2>7. /\ \/ Loads(cast)' \subseteq Loads(cast) /\ Waits' \subseteq {n}
           \/ Loads(cast)' \subseteq Loads(cast) \cup {n} /\ Waits' = {}
        /\ InPlaces(cast)'
    <3>1. CASE cast' = cast /\ (mr'.next = n \/ mr'.next = 0)
      BY <1>2, <3>1 DEF Waits
    <3>2. CASE /\ mr'.next = 0
               /\ \/ cast' = Append(cast, Tell("LOAD", n))
                  \/ cast' = Append(Append(cast, Tell("LOAD", n)), Tell("PLAY", 0))
      BY <1>0, <2>2, <2>6, <3>2, LoadsGrow DEF Waits
    <3> QED BY <2>4, <3>1, <3>2
  <2>8. ToServe' \subseteq ToServe
    BY <2>2, <2>7 DEF ToServe
  <2>9. Below(Seen, ToServe)' /\ Below(Loads(cast), Waits \cup New)' /\ Below(Waits, New)'
    BY <2>2, <2>5, <2>6, <2>7, <2>8 DEF Below
  <2>10. (\A t \in Seen \cup ToServe : t <= output.index)'
    BY <2>1, <2>5, <2>8 DEF InTurn
  <2>11. (IF dev.state = "none" THEN dev.track = 0 ELSE \A t \in Seen : t <= dev.track)'
    BY <2>1, <2>5 DEF InTurn
  <2> QED BY <2>7, <2>8, <2>9, <2>10, <2>11 DEF InTurn, Served
<1>8. CASE Message
  <2>1. PICK b \in BOOLEAN : MRMessage(b)
    BY <1>8 DEF Message
  <2>2. UNCHANGED <<output, render, slim, dev>>
    BY <1>8 DEF Message, Rest, slimVars
  <2> DEFINE n == mr.next
  <2>3. /\ events # <<>> /\ events' = Tail(events)
        /\ \A x \in In(notes') : Comes(x, Head(events))
        /\ \/ cast' = cast /\ mr'.next \in {n, 0}
           \/ /\ n # 0 /\ mr'.next = 0
              /\ cast' = Append(Append(cast, Tell("LOAD", n)), Tell("PLAY", 0))
    BY <1>0, <2>1, MessageDoes
  <2>4. In(events') \subseteq In(events) /\ Head(events) \in In(events)
    BY <1>0, <2>3, InTail
  <2>5. Seen' \subseteq Seen
    BY <2>2, <2>3, <2>4, SeenAre, SeenShrinks DEF Comes
  <2>6. New' = New
    BY <2>2 DEF New
  <2>7. CASE cast' = cast /\ mr'.next \in {n, 0}
    <3>1. Waits' \subseteq Waits
      BY <2>7 DEF Waits
    <3> QED BY <1>2, <2>2, <2>5, <2>6, <2>7, <3>1, TurnShrinks DEF Served
  <2>8. CASE /\ n # 0 /\ mr'.next = 0
             /\ cast' = Append(Append(cast, Tell("LOAD", n)), Tell("PLAY", 0))
    <3>1. Waits = {n} /\ Waits' = {} /\ n \in Tracks
      BY <1>0, <2>8 DEF Waits
    <3> HIDE DEF n
    <3>2. Below(Loads(cast), {n}) /\ Below({n}, New) /\ Below(Loads(cast), New) /\ Below(Seen, ToServe)
      BY <3>1 DEF InTurn, Below
    <3>3. Loads(cast)' \subseteq Loads(cast) \cup {n} /\ InPlaces(cast)'
      BY <1>0, <2>8, <3>1, <3>2, LoadsGrow
    <3>4. ToServe' \subseteq ToServe
      BY <2>6, <3>1, <3>3 DEF ToServe
    <3>5. Below(Seen, ToServe)' /\ Below(Loads(cast), Waits \cup New)' /\ Below(Waits, New)'
      BY <2>5, <2>6, <3>1, <3>2, <3>3, <3>4 DEF Below
    <3>6. (\A t \in Seen \cup ToServe : t <= output.index)'
      BY <2>2, <2>5, <3>4 DEF InTurn
    <3>7. (IF dev.state = "none" THEN dev.track = 0 ELSE \A t \in Seen : t <= dev.track)'
      BY <2>2, <2>5 DEF InTurn
    <3> QED BY <3>3, <3>4, <3>5, <3>6, <3>7 DEF InTurn, Served
  <2> QED BY <2>3, <2>7, <2>8
<1>9. CASE Timers \/ WaitOver
  <2>1. \/ MRTimeout \/ MRRelease
        \/ \E w \in {"goes on", "missed", "over"}, x \in BOOLEAN : MRTimers(w, x)
    BY <1>9 DEF Timers, WaitOver
  <2>2. UNCHANGED <<output, render, slim, dev>>
    BY <1>9 DEF Timers, WaitOver, Rest, slimVars
  <2>3. /\ events' = events /\ mr'.next = mr.next
        /\ cast' = cast \/ cast' = Append(cast, Tell("RELEASE", 0))
        /\ notes' = notes \/ notes' = <<>> \/ notes' = Notify("STOP", FALSE)
    BY <1>0, <2>1, TimersDo
  <2>4. Seen' \subseteq Seen
    <3>1. \A n \in In(notes') : n.track \in Tracks => n.track \in Seen
      BY <2>3, SeenAre, NoteTypes, InNone
    <3> QED BY <1>3, <2>2, <2>3, <3>1
  <2>5. Waits' \subseteq Waits /\ New' \subseteq New
    BY <2>2, <2>3 DEF Waits, New
  <2>6. Loads(cast)' \subseteq Loads(cast) /\ InPlaces(cast)'
    BY <1>0, <1>2, <2>3, LoadsShrink
  <2> QED BY <2>2, <2>4, <2>5, <2>6, TurnShrinks DEF Served
<1>10. CASE Notification
  <2> DEFINE h == Head(notes)
  <2>1. /\ notes # <<>> /\ UNCHANGED <<mr, events, cast>>
        /\ h \in In(notes) /\ In(notes') \subseteq In(notes)
        /\ \/ NotifyPlay \/ NotifyPause \/ NotifyClosed
           \/ h.event = "STOP" /\ NotifyStop
           \/ \E t \in Tracks : h.event = "TRACK_INFO" /\ h.track = t /\ NotifyTrackInfo(t)
    BY <1>0, <1>10, NotificationIs
  <2>2. h \in Note
    BY <1>0, <2>1, InTail
  <2> HIDE DEF h
  <2>3. /\ UNCHANGED slim /\ output'.index = output.index
        /\ render'.index = render.index \/ (h.track \in Tracks /\ render'.index = h.track)
    BY <1>0, <2>1, <2>2, NotifyDoes
  <2>4. UNCHANGED dev
    BY <1>10 DEF Notification
  <2>5. Seen' \subseteq Seen
    BY <2>1, <2>3, <2>4, SeenAre, SeenShrinks
  <2>6. Waits' \subseteq Waits /\ New' \subseteq New
    BY <2>1, <2>3 DEF Waits, New
  <2> QED BY <1>2, <2>1, <2>3, <2>4, <2>5, <2>6, TurnShrinks DEF Served
<1>11. CASE DevStep
  <2>1. /\ UNCHANGED <<mr, notes, output, render, slim>>
        /\ DevLoads \/ DevKeeps \/ DevLeaves
    BY <1>0, <1>11, DeviceDoes DEF slimVars
  <2>2. Waits' = Waits /\ New' = New /\ output'.index = output.index
    BY <2>1 DEF Waits, New
  <2>3. /\ Left \in Seq(Status)
        /\ \A e \in In(Left) : e.track \in Tracks => e.track \in Seen
    <3>1. Status0("IDLE", 0) \in Status /\ Status0("IDLE", 0).track = 0
      BY DEF Status0, Status
    <3> QED BY <1>0, <3>1, InAppend, SeenAre DEF Left
  <2>4. CASE DevKeeps
    <3>1. \A e \in In(events)' : e.track \in Tracks => e.track \in Seen
      <4>1. ASSUME NEW s \in {"PLAYING", "BUFFERING", "PAUSED"},
                   events' = Append(events, Status0(s, dev.track))
            PROVE  \A e \in In(events') : e.track \in Tracks => e.track \in Seen
        <5>1. Status0(s, dev.track) \in Status /\ Status0(s, dev.track).track = dev.track
          BY <1>0 DEF Status0, Status, DevType
        <5> QED BY <1>0, <4>1, <5>1, InAppend, SeenAre
      <4> QED BY <2>4, <4>1, SeenAre DEF DevKeeps
    <3>2. Seen' \subseteq Seen
      BY <2>1, <2>4, <3>1, SeenAre, SeenShrinks DEF DevKeeps
    <3>3. Loads(cast)' \subseteq Loads(cast) /\ InPlaces(cast)'
      BY <1>0, <2>4, LoadsShrink DEF DevKeeps
    <3> QED BY <2>2, <2>4, <3>2, <3>3, TurnShrinks DEF DevKeeps, Served
  <2>5. CASE DevLeaves
    <3>1. \A e \in In(events)' : e.track \in Tracks => e.track \in Seen
      <4>1. ASSUME NEW s \in Ends, events' = Append(events, Status0(s, 0))
            PROVE  \A e \in In(events') : e.track \in Tracks => e.track \in Seen
        <5>1. Status0(s, 0) \in Status /\ Status0(s, 0).track = 0
          BY DEF Status0, Status, Ends
        <5> QED BY <1>0, <4>1, <5>1, InAppend, SeenAre
      <4> QED BY <2>5, <4>1, SeenAre DEF DevLeaves
    <3>2. dev'.track = 0 /\ dev'.state = "none"
      BY <2>5 DEF DevLeaves
    <3>3. Seen' \subseteq Seen
      BY <2>1, <3>1, <3>2, SeenAre, SeenShrinks
    <3>4. Loads(cast)' \subseteq Loads(cast) /\ InPlaces(cast)'
      BY <1>0, <2>5, LoadsShrink DEF DevLeaves
    <3>5. ToServe' \subseteq ToServe
      BY <2>2, <3>4 DEF ToServe
    <3>6. Below(Seen, ToServe)' /\ Below(Loads(cast), Waits \cup New)' /\ Below(Waits, New)'
      BY <2>2, <3>3, <3>4, <3>5 DEF InTurn, Below
    <3>7. (\A t \in Seen \cup ToServe : t <= output.index)'
      BY <2>2, <3>3, <3>5 DEF InTurn
    <3> QED BY <3>2, <3>4, <3>5, <3>6, <3>7 DEF InTurn, Served
  <2>6. CASE DevLoads
    <3> DEFINE t == Head(cast).track
               x == Status0("PAUSED", t)
    <3>1. /\ t \in Loads(cast) /\ Below({t}, Loads(cast)')
          /\ Loads(cast)' \subseteq Loads(cast) /\ InPlaces(cast)'
      BY <1>0, <2>6, LoadsTake DEF DevLoads
    <3>2. dev'.track = t /\ dev'.state # "none" /\ events' = Append(Left, x)
      BY <2>6 DEF DevLoads
    <3>3. x \in Status /\ x.track = t /\ t \in Tracks
      BY <1>1, <3>1 DEF Status0, Status
    <3> HIDE DEF t, x
    <3>4. Seen' \subseteq Seen \cup {t}
      <4>1. \A e \in In(events') : e.track \in Tracks => e.track \in Seen \cup {t}
        BY <2>3, <3>2, <3>3, InAppend
      <4> QED BY <2>1, <3>2, <4>1, SeenAre DEF Seen
    <3>5. ToServe' \subseteq ToServe
      BY <2>2, <3>1 DEF ToServe
    <3>6. Below({t}, ToServe')
      BY <2>2, <3>1 DEF InTurn, Below, ToServe
    <3>7. Below(Seen, ToServe)' /\ Below(Loads(cast), Waits \cup New)' /\ Below(Waits, New)'
      BY <2>2, <3>1, <3>4, <3>5, <3>6 DEF InTurn, Below
    <3>8. t \in ToServe
      BY <3>1 DEF ToServe
    <3>9. (\A u \in Seen \cup ToServe : u <= output.index)'
      BY <2>2, <3>4, <3>5, <3>8 DEF InTurn
    <3>10. \A u \in Seen' : u <= dev'.track
      BY <1>1, <3>2, <3>3, <3>4, <3>8 DEF InTurn, Below
    <3> QED BY <3>1, <3>2, <3>5, <3>7, <3>9, <3>10 DEF InTurn, Served
  <2> QED BY <2>1, <2>4, <2>5, <2>6
<1>12. CASE LMSHears \/ LMSUser
  <2>1. UNCHANGED <<rendererVars, dev, output, render, slim>>
    BY <1>12 DEF LMSHears, LMSUser, slimVars
  <2>2. UNCHANGED <<mr, notes, events, cast>>
    BY <2>1 DEF rendererVars
  <2>3. Seen' \subseteq Seen /\ Waits' \subseteq Waits /\ New' \subseteq New
    BY <1>3, <2>1, <2>2, SeenAre DEF Waits, New
  <2> QED BY <1>2, <2>1, <2>2, <2>3, TurnShrinks DEF Served
<1> QED BY <1>4, <1>5, <1>6, <1>7, <1>8, <1>9, <1>10, <1>11, <1>12, StepsAre

LEMMA TurnStays ==
  ASSUME InTurn, UNCHANGED vars
  PROVE  InTurn'
BY DEF vars, rendererVars, slimVars, envVars, InTurn, Seen, Loads, Waits, New, ToServe, Below, InPlaces

LEMMA TurnBegins == Init => InTurn
<1> SUFFICES ASSUME Init PROVE InTurn
  OBVIOUS
<1>1. /\ cast = <<>> /\ events = <<>> /\ notes = <<>> /\ mr.next = 0 /\ render.index = -1
      /\ dev.track = 0 /\ dev.state = "none" /\ slim.at = "idle"
  BY DEF Init, RendererInit, SlimInit
<1>2. In(cast) = {} /\ In(events) = {} /\ In(notes) = {} /\ Len(cast) = 0
  BY <1>1, InNone
<1>3. Seen = {} /\ Loads(cast) = {} /\ Waits = {} /\ New = {}
  BY <1>1, <1>2, SeenAre DEF Seen, Loads, Waits, New
<1> QED BY <1>1, <1>2, <1>3 DEF InTurn, ToServe, Below, InPlaces

-----------------------------------------------------------------------------
(* No server that is still to be used is told to terminate.                 *)

Unended == ToServe \cap ended = {}

\* What may terminate servers terminates those of tracks that were seen, or of the
\* one that could not be loaded.
LEMMA EndedAre ==
  ASSUME TypeOK, Named, InTurn, Next, NEW u \in Tracks, u \in ended', u \notin ended
  PROVE  \/ Notification /\ UNCHANGED dev
            /\ \/ \E t \in Seen : u < t
               \/ /\ u \in Seen /\ u = render.index
                  /\ \E n \in In(notes) : n.event = "STOP"
         \/ /\ Callback_SET_TRACK /\ UNCHANGED dev
            /\ New = {u} /\ u \notin Seen /\ u \notin ToServe'
<1>0. RendererTypeOK /\ SlimTypeOK /\ dev \in DevType /\ notes \in Seq(Note) /\ NamedNotes /\ NamedHeld
  BY DEF TypeOK, RendererTypeOK, PlaybackTypeOK, Named
<1>1. Tracks \subseteq Nat \ {0} /\ ToServe \subseteq Tracks /\ Seen \subseteq Tracks
  BY TracksAre
<1>2. CASE Notification
  <2> DEFINE h == Head(notes)
  <2>1. /\ notes # <<>> /\ h \in In(notes)
        /\ \/ NotifyPlay \/ NotifyPause \/ NotifyClosed
           \/ h.event = "STOP" /\ NotifyStop
           \/ \E t \in Tracks : h.event = "TRACK_INFO" /\ h.track = t /\ NotifyTrackInfo(t)
    BY <1>0, <1>2, NotificationIs
  <2>2. h \in Note
    BY <1>0, <2>1, InTail
  <2> HIDE DEF h
  <2>3. \/ u < render.index
        \/ h.event = "STOP" /\ u = render.index
        \/ h.event = "TRACK_INFO" /\ h.track \in Tracks /\ u < h.track
    BY <1>0, <2>1, <2>2, NotifyDoes
  <2>4. render.index \in Tracks \cup {-1}
    BY <1>0 DEF SlimTypeOK, RenderType
  <2>5. u < render.index => render.index \in Tracks
    <3>1. u \in Nat
      BY <1>1
    <3> QED BY <2>4, <3>1
  <2>6. UNCHANGED dev
    BY <1>2 DEF Notification
  <2> QED BY <1>2, <2>1, <2>3, <2>5, <2>6, SeenAre
<1>3. CASE Callback_SET_TRACK
  <2> DEFINE n == output.index
  <2>1. /\ slim.at = "track" /\ slim'.at = "socket" /\ UNCHANGED <<dev, output>>
        /\ SetTrackFails(n, slim.next) /\ u = n /\ n \in Tracks \cup {0} /\ slim.next \in BOOLEAN
    BY <1>0, <1>3, SetTrackIs
  <2>2. mr'.next = 0 /\ cast' = cast
    BY <1>0, <2>1, SetTrackDoes
  <2>3. New = {u} /\ New' = {} /\ Waits' = {} /\ Loads(cast)' = Loads(cast)
    BY <2>1, <2>2 DEF New, Waits, Loads
  <2>4. u \notin Seen /\ u \notin Loads(cast)
    <3>1. u \in Nat /\ ~(u < u)
      BY <1>1
    <3> QED BY <2>3, <3>1 DEF InTurn, Below, ToServe
  <2> QED BY <1>3, <2>1, <2>3, <2>4 DEF ToServe
<1>4. CASE SlimAlone
  BY <1>0, <1>4, SlimAloneDoes
<1>5. CASE Callback_STOP \/ Callback_PAUSE \/ Callback_UNPAUSE
  BY <1>0, <1>5, CallbackIs
<1>6. CASE Round2
  BY <1>0, <1>6, Round2Is
<1>7. CASE Message \/ Timers \/ WaitOver \/ LMSHears \/ LMSUser
  BY <1>7 DEF Message, Timers, WaitOver, LMSHears, LMSUser, slimVars
<1>8. CASE DevStep
  BY <1>0, <1>8, DeviceDoes DEF slimVars
<1> QED BY <1>2, <1>3, <1>4, <1>5, <1>6, <1>7, <1>8, StepsAre

LEMMA UnendedKept ==
  ASSUME TypeOK, Named, InTurn, Unended, Next
  PROVE  Unended'
<1>1. Tracks \subseteq Nat \ {0} /\ ToServe \subseteq Tracks /\ Seen \subseteq Tracks
  BY TracksAre
<1>2. InTurn' /\ Served
  BY TurnKept
<1>3. CASE SlimBegins /\ ToServe' \subseteq ToServe \cup {output'.index}
            /\ (output'.index \in ToServe' => slim'.at = "track")
  <2>1. \A u \in ToServe' : u # output'.index => u \in ToServe
    BY <1>3
  <2>2. output'.index \in ToServe' => output'.index \notin ended'
    BY <1>3 DEF SlimBegins
  <2>3. slim.at = "idle"
    BY <1>3 DEF SlimBegins
  <2>4. ASSUME NEW u \in ToServe', u \in ended', u # output'.index PROVE FALSE
    <3>1. u \in ToServe /\ u \in Tracks /\ u \notin ended
      BY <1>1, <2>1, <2>4 DEF Unended
    <3>2. \/ \E t \in Seen : u < t
          \/ u \in Seen
          \/ u \notin ToServe'
      BY <2>4, <3>1, EndedAre
    <3> QED BY <1>1, <2>4, <3>1, <3>2 DEF InTurn, Below
  <2> QED BY <2>2, <2>4 DEF Unended
<1>4. CASE ToServe' \subseteq ToServe
  <2>1. ASSUME NEW u \in ToServe', u \in ended' PROVE FALSE
    <3>1. u \in ToServe /\ u \in Tracks /\ u \notin ended
      BY <1>1, <1>4 DEF Unended
    <3>2. \/ \E t \in Seen : u < t
          \/ u \in Seen
          \/ u \notin ToServe'
      BY <2>1, <3>1, EndedAre
    <3> QED BY <1>1, <2>1, <3>1, <3>2 DEF InTurn, Below
  <2> QED BY <2>1 DEF Unended
<1> QED BY <1>2, <1>3, <1>4 DEF Served

-----------------------------------------------------------------------------
(* What the device said before it lets a track go is not of the track it has *)
(* loaded since.                                                             *)

Before(s, t) == \A i, j \in 1..Len(s) : i < j /\ s[j].state \in Ends => s[i].track # t

\* The end of an earlier track has still to be told to the player.
Ending == \/ \E e \in In(events) : e.state \in Ends
          \/ \E n \in In(notes) : n.event = "STOP"

PastEnds ==
  dev.state # "none" =>
    /\ Before(events, dev.track)
    /\ Ending => render.index # dev.track /\ \A n \in In(notes) : n.track # dev.track

\* No track is waited for: that happens after a short one.
NoneAwaited == ~mr.ShortTrack /\ ~mr.waits

LEMMA BeforeAppend ==
  ASSUME NEW s \in Seq(Status), NEW x \in Status, NEW t, Before(s, t),
         x.state \in Ends => \A e \in In(s) : e.track # t
  PROVE  Before(Append(s, x), t)
<1> DEFINE u == Append(s, x)
<1>1. /\ Len(u) = Len(s) + 1 /\ Len(s) \in Nat /\ u[Len(s) + 1] = x
      /\ \A i \in 1..Len(s) : u[i] = s[i]
  BY AppendProperties
<1> HIDE DEF u
<1> SUFFICES ASSUME NEW i \in 1..Len(u), NEW j \in 1..Len(u), i < j, u[j].state \in Ends
             PROVE  u[i].track # t
  BY DEF Before, u
<1>2. i \in 1..Len(s) /\ u[i] = s[i]
  BY <1>1
<1>3. CASE j \in 1..Len(s)
  BY <1>1, <1>2, <1>3 DEF Before
<1>4. CASE j = Len(s) + 1
  BY <1>1, <1>2, <1>4 DEF In
<1> QED BY <1>1, <1>3, <1>4

LEMMA BeforeTail ==
  ASSUME NEW s \in Seq(Status), NEW t, Before(s, t), s # <<>>
  PROVE  /\ Before(Tail(s), t)
         /\ (\E e \in In(Tail(s)) : e.state \in Ends) => Head(s).track # t
<1> DEFINE u == Tail(s)
<1>1. /\ Len(u) = Len(s) - 1 /\ Len(s) \in Nat /\ Len(s) > 0 /\ Head(s) = s[1]
      /\ \A i \in 1..Len(s) - 1 : u[i] = s[i + 1]
  BY HeadTailProperties, EmptySeq
<1> HIDE DEF u
<1>2. ASSUME NEW i \in 1..Len(u), NEW j \in 1..Len(u), i < j, u[j].state \in Ends
      PROVE  u[i].track # t
  <2>1. i \in 1..Len(s) - 1 /\ j \in 1..Len(s) - 1
    BY <1>1
  <2>2. i + 1 \in 1..Len(s) /\ j + 1 \in 1..Len(s) /\ i + 1 < j + 1
    BY <1>1, <1>2, <2>1
  <2>3. u[i] = s[i + 1] /\ u[j] = s[j + 1]
    BY <1>1, <2>1
  <2> QED BY <1>2, <2>2, <2>3 DEF Before
<1>3. ASSUME NEW j \in 1..Len(u), u[j].state \in Ends PROVE s[1].track # t
  <2>1. /\ 1 \in 1..Len(s) /\ j + 1 \in 1..Len(s) /\ 1 < j + 1 /\ u[j] = s[j + 1]
    BY <1>1
  <2> QED BY <1>3, <2>1 DEF Before
<1> QED BY <1>1, <1>2, <1>3 DEF Before, In, u

LEMMA AwaitedKept ==
  ASSUME ShortTracks = {}, TypeOK, Named, NoneAwaited, Next
  PROVE  NoneAwaited'
<1>0. RendererTypeOK /\ SlimTypeOK /\ dev \in DevType /\ NamedNotes /\ NamedHeld
  BY DEF TypeOK, PlaybackTypeOK, Named
<1>1. CASE SlimAlone
  BY <1>0, <1>1, SlimAloneKeeps DEF rendererVars, NoneAwaited
<1>2. CASE Callback_STOP \/ Callback_PAUSE \/ Callback_UNPAUSE
  BY <1>0, <1>2, CallbackIs, CallbackDoes DEF NoneAwaited
<1>3. CASE Callback_SET_TRACK
  BY <1>0, <1>3, SetTrackIs, SetTrackDoes DEF NoneAwaited
<1>4. CASE Round2
  BY <1>0, <1>4, Round2Is, CallbackDoes DEF NoneAwaited, rendererVars
<1>5. CASE Message
  BY <1>0, <1>5, MessageDoes DEF Message, NoneAwaited
<1>6. CASE Timers \/ WaitOver
  <2>1. \/ MRTimeout \/ MRRelease
        \/ \E w \in {"goes on", "missed", "over"}, x \in BOOLEAN : MRTimers(w, x)
    BY <1>6 DEF Timers, WaitOver
  <2> QED BY <1>0, <2>1, TimersDo DEF NoneAwaited
<1>7. CASE Notification
  BY <1>0, <1>7, NotificationIs DEF NoneAwaited
<1>8. CASE DevStep
  BY <1>0, <1>8, DeviceDoes DEF NoneAwaited
<1>9. CASE LMSHears \/ LMSUser
  BY <1>9 DEF LMSHears, LMSUser, rendererVars, NoneAwaited
<1> QED BY <1>1, <1>2, <1>3, <1>4, <1>5, <1>6, <1>7, <1>8, <1>9, StepsAre

\* Nothing of what the invariant looks at grows.
LEMMA PastShrinks ==
  ASSUME dev \in DevType, PastEnds, UNCHANGED <<dev, events>>, render'.index \in {render.index, -1},
         notes' = notes \/ notes' = <<>>
  PROVE  PastEnds'
<1>1. dev.track # -1
  <2>1. -1 \notin Tracks
    BY SeenAre
  <2> QED BY <2>1 DEF DevType
<1>2. In(notes') \subseteq In(notes)
  BY InNone
<1> QED BY <1>1, <1>2 DEF PastEnds, Ending

LEMMA PastKept ==
  ASSUME TypeOK, Named, InTurn, NoneAwaited, PastEnds, Next
  PROVE  PastEnds'
<1>0. /\ RendererTypeOK /\ SlimTypeOK /\ dev \in DevType /\ notes \in Seq(Note)
      /\ events \in Seq(Status) /\ cast \in Seq(Command) /\ NamedNotes /\ NamedHeld /\ InPlaces(cast)
  BY DEF TypeOK, RendererTypeOK, PlaybackTypeOK, Named, InTurn
<1>1. dev.state # "none" => dev.track \in Tracks /\ dev.track # 0 /\ dev.track # -1
  BY <1>0, SeenAre DEF DevType, NamedHeld
<1>2. CASE SlimAlone
  BY <1>0, <1>2, SlimAloneKeeps, SlimAloneDoes, PastShrinks DEF rendererVars
<1>3. CASE Callback_STOP \/ Callback_PAUSE \/ Callback_UNPAUSE
  BY <1>0, <1>3, CallbackIs, CallbackDoes, PastShrinks
<1>4. CASE Callback_SET_TRACK
  BY <1>0, <1>4, SetTrackIs, SetTrackDoes, PastShrinks
<1>5. CASE Round2
  BY <1>0, <1>5, Round2Is, CallbackDoes, PastShrinks DEF rendererVars
<1>6. CASE Message
  <2> DEFINE h == Head(events)
  <2>1. PICK b \in BOOLEAN : MRMessage(b)
    BY <1>6 DEF Message
  <2>2. UNCHANGED <<render, dev>>
    BY <1>6 DEF Message, Rest, slimVars
  <2>3. /\ events # <<>> /\ events' = Tail(events) /\ \A n \in In(notes') : Comes(n, h)
    BY <1>0, <2>1, MessageDoes
  <2>4. In(events') \subseteq In(events) /\ h \in In(events)
    BY <1>0, <2>3, InTail
  <2> SUFFICES ASSUME dev.state # "none"
               PROVE  /\ Before(events', dev.track)
                      /\ Ending' => render.index # dev.track /\ \A n \in In(notes') : n.track # dev.track
    BY <2>2 DEF PastEnds
  <2>5. /\ Before(events', dev.track)
        /\ (\E e \in In(events') : e.state \in Ends) => h.track # dev.track
    BY <1>0, <2>3, BeforeTail DEF PastEnds
  <2>6. CASE h.state \in Ends
    <3>1. \A n \in In(notes') : n.track = 0
      BY <2>3, <2>6 DEF Comes
    <3> QED BY <1>1, <2>4, <2>5, <2>6, <3>1 DEF PastEnds, Ending
  <2>7. CASE h.state \notin Ends
    <3>1. \A n \in In(notes') : n.event # "STOP"
      BY <2>3, <2>7 DEF Comes
    <3>2. \A n \in In(notes') : n.track = 0 \/ n.track = h.track
      BY <2>3 DEF Comes
    <3>3. Ending' => \E e \in In(events') : e.state \in Ends
      BY <3>1 DEF Ending
    <3>4. Ending' => Ending /\ h.track # dev.track
      BY <2>4, <2>5, <3>3 DEF Ending
    <3> QED BY <1>1, <2>5, <3>2, <3>4 DEF PastEnds
  <2> QED BY <2>6, <2>7
<1>7. CASE Timers \/ WaitOver
  <2>1. \/ MRTimeout \/ MRRelease
        \/ \E w \in {"goes on", "missed", "over"}, x \in BOOLEAN : MRTimers(w, x)
    BY <1>7 DEF Timers, WaitOver
  <2>2. UNCHANGED <<render, dev>>
    BY <1>7 DEF Timers, WaitOver, Rest, slimVars
  <2>3. events' = events /\ (notes' = notes \/ notes' = <<>>)
    BY <1>0, <2>1, TimersDo DEF NoneAwaited
  <2> QED BY <1>0, <2>2, <2>3, PastShrinks
<1>8. CASE Notification
  <2> DEFINE h == Head(notes)
  <2>1. /\ notes # <<>> /\ UNCHANGED events /\ h \in In(notes) /\ In(notes') \subseteq In(notes)
        /\ \/ NotifyPlay \/ NotifyPause \/ NotifyClosed
           \/ h.event = "STOP" /\ NotifyStop
           \/ \E t \in Tracks : h.event = "TRACK_INFO" /\ h.track = t /\ NotifyTrackInfo(t)
    BY <1>0, <1>8, NotificationIs
  <2>2. h \in Note
    BY <1>0, <2>1, InTail
  <2> HIDE DEF h
  <2>3. render'.index = render.index \/ render'.index = h.track
    BY <1>0, <2>1, <2>2, NotifyDoes
  <2>4. UNCHANGED dev
    BY <1>8 DEF Notification
  <2>5. Ending' => Ending
    BY <2>1 DEF Ending
  <2> QED BY <2>1, <2>3, <2>4, <2>5 DEF PastEnds
<1>9. CASE DevStep
  <2>1. UNCHANGED <<notes, render>> /\ (DevLoads \/ DevKeeps \/ DevLeaves)
    BY <1>0, <1>9, DeviceDoes DEF slimVars
  <2>2. CASE DevLeaves
    BY <2>2 DEF DevLeaves, PastEnds
  <2>3. CASE DevKeeps
    <3>1. CASE events' = events
      <4>1. Ending' = Ending
        BY <2>1, <3>1 DEF Ending
      <4> QED BY <2>1, <2>3, <3>1, <4>1 DEF DevKeeps, PastEnds
    <3>2. ASSUME NEW s \in {"PLAYING", "BUFFERING", "PAUSED"}, dev.state # "none",
                 events' = Append(events, Status0(s, dev.track))
          PROVE  PastEnds'
      <4> DEFINE x == Status0(s, dev.track)
      <4>1. x \in Status /\ x.state \notin Ends
        BY <1>0, <3>2 DEF Status0, Status, DevType, Ends
      <4> HIDE DEF x
      <4>2. events' = Append(events, x)
        BY <3>2 DEF x
      <4>3. In(events') = In(events) \cup {x} /\ Before(events', dev.track)
        BY <1>0, <3>2, <4>1, <4>2, InAppend, BeforeAppend DEF PastEnds
      <4>4. Ending' => Ending
        BY <2>1, <4>1, <4>3 DEF Ending
      <4> QED BY <2>1, <2>3, <3>2, <4>3, <4>4 DEF DevKeeps, PastEnds
    <3> QED BY <2>3, <3>1, <3>2 DEF DevKeeps
  <2>4. CASE DevLoads
    <3> DEFINE t == Head(cast).track
               x == Status0("PAUSED", t)
               i == Status0("IDLE", 0)
    <3>1. t \in Loads(cast)
      BY <1>0, <2>4, LoadsTake DEF DevLoads
    <3>2. t \in Tracks /\ t \notin Seen
      <4>1. Loads(cast) \subseteq Tracks /\ Tracks \subseteq Nat \ {0}
        BY TracksAre
      <4>2. t \in Tracks /\ Below(Seen, {t})
        BY <3>1, <4>1 DEF InTurn, Below, ToServe
      <4> HIDE DEF t
      <4>3. t \in Nat /\ ~(t < t)
        BY <4>1, <4>2
      <4> QED BY <4>2, <4>3 DEF Below
    <3>3. x \in Status /\ x.state \notin Ends /\ i \in Status /\ i.track = 0
      BY <3>2 DEF Status0, Status, Ends
    <3>4. events' = Append(Left, x) /\ dev'.track = t
      BY <2>4 DEF DevLoads
    <3>5. Left = IF dev.state = "none" THEN events ELSE Append(events, i)
      BY DEF Left
    <3> HIDE DEF t, x, i
    <3>6. t # 0 /\ render.index # t /\ (\A e \in In(events) : e.track # t) /\ (\A n \in In(notes) : n.track # t)
      BY <3>2, SeenAre
    <3>7. Left \in Seq(Status) /\ \A e \in In(Left) : e.track # t
      BY <1>0, <3>3, <3>5, <3>6, InAppend
    <3>8. Before(Left, t)
      <4>1. \A k \in 1..Len(Left) : Left[k] \in In(Left)
        BY DEF In
      <4> QED BY <3>7, <4>1 DEF Before
    <3>9. Before(events', t)
      BY <3>3, <3>4, <3>7, <3>8, BeforeAppend
    <3> QED BY <2>1, <3>4, <3>6, <3>9 DEF PastEnds
  <2> QED BY <2>1, <2>2, <2>3, <2>4
<1>10. CASE LMSHears \/ LMSUser
  BY <1>0, <1>10, PastShrinks DEF LMSHears, LMSUser, rendererVars, slimVars
<1> QED BY <1>2, <1>3, <1>4, <1>5, <1>6, <1>7, <1>8, <1>9, <1>10, StepsAre

LEMMA LoadedKept ==
  ASSUME TypeOK, Named, InTurn, Unended, PastEnds, ServedWhileLoaded, Next
  PROVE  ServedWhileLoaded'
<1>0. /\ RendererTypeOK /\ SlimTypeOK /\ dev \in DevType /\ NamedHeld
      /\ cast \in Seq(Command) /\ InPlaces(cast)
  BY DEF TypeOK, PlaybackTypeOK, RendererTypeOK, Named, InTurn
<1>1. Tracks \subseteq Nat \ {0} /\ Seen \subseteq Tracks
  BY TracksAre
<1>2. CASE DevStep
  <2>1. UNCHANGED ended /\ (DevLoads \/ DevKeeps \/ DevLeaves)
    BY <1>0, <1>2, DeviceDoes DEF slimVars
  <2>2. CASE DevLoads
    <3>1. Head(cast).track \in Loads(cast) /\ dev'.track = Head(cast).track
      BY <1>0, <2>2, LoadsTake DEF DevLoads
    <3> QED BY <2>1, <3>1 DEF Unended, ToServe, ServedWhileLoaded
  <2> QED BY <2>1, <2>2 DEF DevKeeps, DevLeaves, ServedWhileLoaded
<1>3. CASE ~DevStep
  <2>1. UNCHANGED dev
    <3>1. CASE SlimAlone
      BY <1>0, <3>1, SlimAloneKeeps
    <3>2. CASE ~SlimAlone
      BY <1>3, <3>2, StepsAre
      DEF Callback_STOP, Callback_PAUSE, Callback_UNPAUSE, Callback_SET_TRACK, Round2, Message,
          Timers, WaitOver, Notification, LMSHears, LMSUser, Rest
    <3> QED BY <3>1, <3>2
  <2> SUFFICES ASSUME dev.state # "none", dev.track \in ended' PROVE FALSE
    BY <2>1 DEF ServedWhileLoaded
  <2> DEFINE u == dev.track
  <2>2. u \in Tracks /\ u \notin ended /\ u \in Seen
    BY <1>0, SeenAre DEF DevType, NamedHeld, ServedWhileLoaded
  <2>3. \A t \in Seen : t <= u
    BY DEF InTurn
  <2>4. u \in ended'
    OBVIOUS
  <2>5. \/ \E t \in Seen : u < t
        \/ u = render.index /\ \E n \in In(notes) : n.event = "STOP"
        \/ u \notin Seen
    <3> HIDE DEF u
    <3> QED BY <2>2, <2>4, EndedAre
  <2>6. ~(\E t \in Seen : u < t)
    <3>1. u \in Nat
      BY <1>1, <2>2
    <3> HIDE DEF u
    <3> QED BY <1>1, <2>3, <3>1
  <2>7. u = render.index /\ \E n \in In(notes) : n.event = "STOP"
    BY <2>2, <2>5, <2>6
  <2> QED BY <2>7 DEF PastEnds, Ending
<1> QED BY <1>2, <1>3

LEMMA ServingStays ==
  ASSUME Unended, PastEnds, NoneAwaited, ServedWhileLoaded, UNCHANGED vars
  PROVE  Unended' /\ PastEnds' /\ NoneAwaited' /\ ServedWhileLoaded'
BY DEF vars, rendererVars, slimVars, envVars, Unended, ToServe, Loads, Waits, New, PastEnds, Before,
       Ending, NoneAwaited, ServedWhileLoaded

\* While the device has a track, that track's server is not told to terminate, for
\* any playlist without short tracks and whatever is skipped, paused, taken back or
\* goes wrong: a stop that is told late, or the start of another track, ends the
\* servers of earlier tracks only.  (With short tracks it may: a timer of the
\* renderer then tells a stop that is not the device's, see ServedWhileLoaded.)
THEOREM LoadedIsServed ==
  ASSUME ShortTracks = {}
  PROVE  Spec => []ServedWhileLoaded
<1> DEFINE I == TypeOK /\ Named /\ InTurn /\ Unended /\ PastEnds /\ NoneAwaited /\ ServedWhileLoaded
<1>1. Init => I
  <2> SUFFICES ASSUME Init PROVE I
    OBVIOUS
  <2>1. ended = {} /\ dev.state = "none" /\ ~mr.ShortTrack /\ ~mr.waits
    BY DEF Init, RendererInit, SlimInit
  <2> QED BY <2>1, InitTypes, TurnBegins DEF Unended, PastEnds, NoneAwaited, ServedWhileLoaded
<1>2. I /\ [Next]_vars => I'
  <2>1. CASE Next
    BY <2>1, TypesKept, TurnKept, UnendedKept, PastKept, AwaitedKept, LoadedKept
  <2>2. CASE UNCHANGED vars
    BY <2>2, TypesStay, TurnStays, ServingStays
  <2> QED BY <2>1, <2>2
<1> QED BY <1>1, <1>2, PTL DEF Spec

-----------------------------------------------------------------------------
(* A track that is to be loaded has its server, unless LMS stops.           *)

\* No flush is on its way.
NoneTaken == "f" \notin In(lms.todo)

\* After a stop nothing is to be loaded, once its callback was made.
HasServers ==
  /\ slim.at = "stop" => flags.lastQ
  /\ slim.at # "stop" /\ flags.lastQ => ToServe = {}
  /\ slim.at # "stop" => \A t \in ToServe : servers[t] # "none"

LEMMA TakenKept ==
  ASSUME "take back" \notin Upsets, TypeOK, Named, NoneTaken, Next
  PROVE  NoneTaken'
<1>0. /\ RendererTypeOK /\ SlimTypeOK /\ dev \in DevType /\ lms \in LmsType /\ notes \in Seq(Note)
      /\ stat \in Seq(StatEvent) /\ NamedNotes /\ NamedHeld
  BY DEF TypeOK, RendererTypeOK, SlimTypeOK, PlaybackTypeOK, Named
<1>1. ASSUME Answered(lms') PROVE NoneTaken'
  BY <1>1 DEF Answered, NoneTaken
<1>2. CASE lms' = lms
  BY <1>2 DEF NoneTaken
<1>3. CASE SlimAlone
  <2>1. lms' = lms \/ (lms.todo # <<>> /\ lms' = [lms EXCEPT !.todo = Tail(lms.todo)])
    BY <1>0, <1>3, SlimAloneKeeps
  <2>2. CASE lms.todo # <<>> /\ lms' = [lms EXCEPT !.todo = Tail(lms.todo)]
    <3>1. In(Tail(lms.todo)) \subseteq In(lms.todo) /\ lms'.todo = Tail(lms.todo)
      BY <1>0, <2>2, InTail DEF LmsType
    <3> QED BY <3>1 DEF NoneTaken
  <2> QED BY <1>2, <2>1, <2>2
<1>4. CASE Notification
  <2>1. notes # <<>> /\ Head(notes) \in In(notes)
    BY <1>0, <1>4, NotificationIs
  <2>2. Head(notes) \in Note /\ Heed(Head(notes)) /\ (Head(notes).event = "TRACK_INFO" => ~Head(notes).sure)
    BY <1>0, <1>4, <2>1, InTail DEF Notification, NamedNotes
  <2> QED BY <1>0, <1>1, <2>2, HeedIs
<1>5. CASE LMSHears
  BY <1>0, <1>1, <1>5, HearsIs
<1>6. CASE LMSUser
  BY <1>0, <1>1, <1>6, UserIs
<1>7. CASE DevStep
  BY <1>0, <1>2, <1>7, DeviceDoes
<1>8. CASE \/ Callback_STOP \/ Callback_PAUSE \/ Callback_UNPAUSE \/ Callback_SET_TRACK
           \/ Round2 \/ Message \/ Timers \/ WaitOver
  BY <1>2, <1>8
  DEF Callback_STOP, Callback_PAUSE, Callback_UNPAUSE, Callback_SET_TRACK, Round2, Message, Timers,
      WaitOver, Rest
<1> QED BY <1>3, <1>4, <1>5, <1>6, <1>7, <1>8, StepsAre

\* The place, the flag and the servers are the same, or differ for the better.
LEMMA ServersShrink ==
  ASSUME HasServers, ToServe' \subseteq ToServe, slim.at # "stop", slim'.at # "stop",
         servers' = servers, flags'.lastQ = flags.lastQ
  PROVE  HasServers'
BY DEF HasServers

LEMMA ServersSteady ==
  ASSUME HasServers, ToServe' \subseteq ToServe, UNCHANGED <<slim, servers, flags>>
  PROVE  HasServers'
BY DEF HasServers

LEMMA ServersKept ==
  ASSUME TypeOK, Named, InTurn, Unended, NoneTaken, HasServers, Next
  PROVE  HasServers'
<1>0. /\ RendererTypeOK /\ SlimTypeOK /\ dev \in DevType /\ NamedNotes /\ NamedHeld
      /\ mr.next \in Tracks \cup {0} /\ cast \in Seq(Command) /\ notes \in Seq(Note)
      /\ lms \in LmsType
  BY DEF TypeOK, RendererTypeOK, PlaybackTypeOK, Named, MR
<1>1. Served /\ ToServe \subseteq Tracks
  BY TurnKept, TracksAre
<1>2. slim.at # "idle" => ToServe' \subseteq ToServe
  BY <1>1 DEF Served, SlimBegins
<1>3. CASE SlimAlone
  <2>1. \A t \in ToServe : t \in Tracks \ ended
    BY <1>1 DEF Unended
  <2>2. ~Command_f
    <3>1. Command_f => "f" \in In(lms.todo)
      BY <1>0, InTail DEF Command_f, Takes, LmsType
    <3> QED BY <3>1 DEF NoneTaken
  <2>3. SlimQuits \/ SlimBegins \/ SlimPasses
    BY <1>0, <1>3, <2>2, SlimAloneDoes DEF SlimTakesBack
  <2>4. CASE SlimBegins
    <3>1. /\ slim.at = "idle" /\ slim'.at # "stop" /\ ~flags'.lastQ
          /\ \A t \in ToServe : servers'[t] # "none"
      BY <2>1, <2>4 DEF SlimBegins, KeepsServers, HasServers
    <3>2. ToServe' \subseteq ToServe \cup {output'.index}
          /\ (output'.index \in ToServe' => servers'[output'.index] # "none" \/ output'.index \in ToServe)
      BY <1>1, <2>4 DEF Served, SlimBegins
    <3> QED BY <3>1, <3>2 DEF HasServers
  <2>5. CASE SlimQuits
    <3>1. ~SlimBegins /\ ToServe' \subseteq ToServe
      BY <1>1, <2>5 DEF SlimQuits, SlimBegins, Served
    <3> QED BY <2>5, <3>1 DEF SlimQuits, HasServers
  <2>6. CASE SlimPasses /\ ~SlimBegins
    <3>1. ToServe' \subseteq ToServe
      BY <1>1, <2>6 DEF Served
    <3>2. slim.at # "stop" => \A t \in ToServe : servers'[t] # "none"
      BY <2>1, <2>6 DEF SlimPasses, KeepsServers, HasServers
    <3> QED BY <2>6, <3>1, <3>2 DEF SlimPasses, HasServers
  <2> QED BY <2>3, <2>4, <2>5, <2>6
<1>4. CASE Callback_STOP \/ Callback_PAUSE \/ Callback_UNPAUSE
  <2>1. /\ SqPlay \/ SqPause \/ SqStop
        /\ Callback_STOP => SqStop
        /\ slim.at \in {"stop", "pause", "unpause"} /\ slim'.at \in {"idle", "unpaused"}
        /\ Callback_STOP <=> slim.at = "stop"
        /\ UNCHANGED <<servers, flags>>
    BY <1>0, <1>4, CallbackIs
  <2>2. ToServe' \subseteq ToServe
    BY <1>2, <2>1
  <2>3. CASE Callback_STOP
    <3>1. mr'.next = 0 /\ cast' = <<Tell("STOP", 0)>>
      BY <1>0, <2>1, <2>3, CallbackDoes
    <3> DEFINE x == Tell("STOP", 0)
    <3>2. x \in Command /\ x.op = "STOP" /\ cast' = <<x>>
      BY <3>1, CommandTypes
    <3> HIDE DEF x
    <3>3. In(cast') = {x}
      BY <3>2, InOne
    <3>4. Loads(cast)' = {} /\ Waits' = {} /\ New' = {}
      BY <2>1, <3>1, <3>2, <3>3 DEF Loads, Waits, New
    <3>5. ToServe' = {}
      BY <3>4 DEF ToServe
    <3> QED BY <2>1, <3>5 DEF HasServers
  <2>4. CASE ~Callback_STOP
    BY <2>1, <2>2, <2>4, ServersShrink
  <2> QED BY <2>3, <2>4
<1>5. CASE Callback_SET_TRACK
  BY <1>0, <1>2, <1>5, SetTrackIs, ServersShrink
<1>6. CASE Round2
  BY <1>0, <1>2, <1>6, Round2Is, ServersShrink
<1>7. CASE Message \/ Timers \/ WaitOver \/ LMSHears \/ LMSUser
  <2>1. UNCHANGED <<slim, servers, flags, output>>
    BY <1>7 DEF Message, Timers, WaitOver, LMSHears, LMSUser, slimVars
  <2>2. ~SlimBegins
    BY <2>1 DEF SlimBegins
  <2> QED BY <1>1, <2>1, <2>2, ServersSteady DEF Served
<1>8. CASE Notification
  <2> DEFINE h == Head(notes)
  <2>1. /\ notes # <<>>
        /\ \/ NotifyPlay \/ NotifyPause \/ NotifyClosed
           \/ h.event = "STOP" /\ NotifyStop
           \/ \E t \in Tracks : h.event = "TRACK_INFO" /\ h.track = t /\ NotifyTrackInfo(t)
    BY <1>0, <1>8, NotificationIs
  <2>2. h \in Note
    BY <1>0, <2>1, InTail
  <2> HIDE DEF h
  <2>3. UNCHANGED <<servers, flags, slim>>
    BY <1>0, <2>1, <2>2, NotifyDoes
  <2>4. ~SlimBegins
    BY <2>3 DEF SlimBegins
  <2> QED BY <1>1, <2>3, <2>4, ServersSteady DEF Served
<1>9. CASE DevStep
  <2>1. UNCHANGED <<servers, flags, slim>>
    BY <1>0, <1>9, DeviceDoes DEF slimVars
  <2>2. ~SlimBegins
    BY <2>1 DEF SlimBegins
  <2> QED BY <1>1, <2>1, <2>2, ServersSteady DEF Served
<1> QED BY <1>3, <1>4, <1>5, <1>6, <1>7, <1>8, <1>9, StepsAre

LEMMA GivingStays ==
  ASSUME Unended, NoneTaken, HasServers, UNCHANGED vars
  PROVE  Unended' /\ NoneTaken' /\ HasServers'
BY DEF vars, rendererVars, slimVars, envVars, Unended, ToServe, Loads, Waits, New, NoneTaken, HasServers

\* Every track the device is asked to load has a server that is not told to
\* terminate, for any playlist and whatever is skipped, paused or goes wrong, as
\* long as LMS takes no track back (strm f, whose callback does nothing: the load
\* of a track that was taken back is still on its way).
THEOREM LoadsAreServed ==
  ASSUME "take back" \notin Upsets
  PROVE  Spec => []GivenIsServed
<1> DEFINE I == TypeOK /\ Named /\ InTurn /\ Unended /\ NoneTaken /\ HasServers
<1>1. Init => I
  <2> SUFFICES ASSUME Init PROVE I
    OBVIOUS
  <2>1. /\ ended = {} /\ cast = <<>> /\ mr.next = 0 /\ slim.at = "idle" /\ ~flags.lastQ
        /\ lms.todo = <<"s">>
    BY DEF Init, RendererInit, SlimInit
  <2>2. In(cast) = {} /\ In(lms.todo) = {"s"}
    BY <2>1, InNone, InOne
  <2>3. Loads(cast) = {} /\ Waits = {} /\ New = {}
    BY <2>1, <2>2 DEF Loads, Waits, New
  <2>4. ToServe = {}
    BY <2>3 DEF ToServe
  <2> QED BY <2>1, <2>2, <2>4, InitTypes, TurnBegins DEF Unended, NoneTaken, HasServers
<1>2. I /\ [Next]_vars => I'
  <2>1. CASE Next
    BY <2>1, TypesKept, TurnKept, UnendedKept, TakenKept, ServersKept
  <2>2. CASE UNCHANGED vars
    BY <2>2, TypesStay, TurnStays, GivingStays
  <2> QED BY <2>1, <2>2
<1>3. I => GivenIsServed
  <2> SUFFICES ASSUME I, slim.at # "stop", NEW i \in DOMAIN cast, cast[i].op = "LOAD"
               PROVE  Running(cast[i].track) /\ cast[i].track \notin ended
    BY DEF GivenIsServed
  <2>1. cast \in Seq(Command) /\ DOMAIN cast = 1..Len(cast)
    <3>1. cast \in Seq(Command)
      BY DEF TypeOK, RendererTypeOK
    <3> QED BY <3>1, LenProperties
  <2>2. cast[i] \in In(cast)
    BY <2>1 DEF In
  <2>3. cast[i].track \in ToServe
    BY <2>2 DEF ToServe, Loads
  <2> QED BY <2>3 DEF Unended, HasServers, Running
<1> QED BY <1>1, <1>2, <1>3, PTL DEF Spec

\* Without short tracks and tracks that are taken back, a track is served from the
\* callback that gives it to the renderer to the end of its play on the device.
THEOREM GivenToPlayed ==
  ASSUME ShortTracks = {}, "take back" \notin Upsets
  PROVE  Spec => []TracksAreServed
BY LoadedIsServed, LoadsAreServed, PTL DEF TracksAreServed
=============================================================================
