--------------------------- MODULE CastCoreProofs ---------------------------
(***************************************************************************)
(* Proofs about CastCore, for every value of its bounds, and about the     *)
(* threads around a context (CastDevice), for every value of PongLimit.    *)
(***************************************************************************)
EXTENDS CastCore, CastDevice, SequenceTheorems, TLAPS

-----------------------------------------------------------------------------
(* What every operation on a context keeps, whatever the status.           *)

Typed(c) == c \in Ctx /\ c.reqId > 0

\* IdsAreFresh, of any context.
Fresh(c) ==
  /\ c.waitId < c.reqId /\ c.waitMedia < c.reqId
  /\ \A r \in c.asked : r.id < c.reqId
  /\ \A r, s \in c.asked : r.id = s.id => r = s

\* What is awaited while launching, or awaited as a media session, was asked
\* for that purpose.
Meant(c) ==
  /\ c.status = "LAUNCHING" /\ c.waitId # 0 =>
       \A r \in c.asked : r.id = c.waitId /\ r.kind \in PlatformKind
                          => r.kind = "LAUNCH"
  /\ c.waitMedia # 0 => \A r \in c.asked : r.id = c.waitMedia => r.kind = "LOAD"

Sound(c) ==
  /\ Typed(c)
  /\ Fresh(c)
  /\ Meant(c)
  /\ c.waitMedia = 0 \/ ~c.media
  /\ c.status = "LAUNCHED" => c.session

\* Everything but the ids, the requests and what is named in the exceptions.
SameLink(c, d) ==
  /\ d.stopReceiver = c.stopReceiver
  /\ d.session = c.session /\ d.ssl = c.ssl

\* The awaited request was sent and is unanswered.
Sent(c) == c.ssl => \E r \in c.asked : r.id = c.waitId

\* Nothing was launched or loaded: only an acknowledgement does that.
Quiet(c, d) ==
  /\ d.status = "LAUNCHED" => c.status = "LAUNCHED"
  /\ d.media => c.media

\* d is c after a request that will be acknowledged.
Awaits(c, d) ==
  /\ Sound(d) /\ SameLink(c, d) /\ Quiet(c, d)
  /\ d.waitId # 0 /\ Sent(d)
  /\ d.queue = c.queue

-----------------------------------------------------------------------------
\* The request that Post adds.
Posted(c, k) == [id |-> c.reqId, kind |-> k]

LEMMA PostFields ==
  ASSUME NEW c, Typed(c), NEW k \in Kind
  PROVE  /\ Post(c, k).reqId = c.reqId + 1
         /\ Post(c, k).status = c.status
         /\ Post(c, k).waitId = c.waitId
         /\ Post(c, k).waitMedia = c.waitMedia
         /\ Post(c, k).media = c.media
         /\ Post(c, k).queue = c.queue
         /\ SameLink(c, Post(c, k))
BY DEF Typed, Post, Ctx, SameLink

LEMMA PostAsked ==
  ASSUME NEW c, Typed(c), NEW k \in Kind
  PROVE  /\ c.asked \subseteq Post(c, k).asked
         /\ Post(c, k).asked \subseteq c.asked \cup {Posted(c, k)}
         /\ c.ssl => Posted(c, k) \in Post(c, k).asked
BY DEF Typed, Post, Ctx, Posted

LEMMA PostTyped ==
  ASSUME NEW c, Typed(c), NEW k \in Kind
  PROVE  Typed(Post(c, k))
<1>1. Posted(c, k) \in Request BY DEF Posted, Request, Typed, Ctx
<1>2. (IF c.ssl THEN c.asked \cup {Posted(c, k)} ELSE c.asked) \in SUBSET Request
  BY <1>1 DEF Typed, Ctx
<1>3. c.reqId + 1 \in Nat /\ c.reqId + 1 > 0 BY DEF Typed, Ctx
<1>4. Post(c, k) = [c EXCEPT !.reqId = c.reqId + 1,
                             !.asked = IF c.ssl THEN c.asked \cup {Posted(c, k)}
                                       ELSE c.asked]
  BY Zenon DEF Post, Posted
<1>5. QED BY <1>2, <1>3, <1>4 DEF Typed, Ctx

LEMMA PostSound ==
  ASSUME NEW c, Sound(c), NEW k \in Kind
  PROVE  Sound(Post(c, k))
<1> DEFINE p == Post(c, k)
<1>1. Typed(c) BY DEF Sound
<1>2. /\ p.reqId = c.reqId + 1 /\ p.waitId = c.waitId
      /\ p.waitMedia = c.waitMedia /\ p.status = c.status
  BY <1>1, PostFields
<1>3. \A r \in p.asked : r \in c.asked \/ r = Posted(c, k)
  BY <1>1, PostAsked
<1>4. /\ c.reqId \in Nat /\ c.waitId \in Nat /\ c.waitMedia \in Nat
      /\ \A r \in c.asked : r.id \in Nat
  BY <1>1 DEF Typed, Ctx, Request
<1>5. Posted(c, k).id = c.reqId BY DEF Posted
<1> HIDE DEF p
<1>6. Fresh(p) BY <1>2, <1>3, <1>4, <1>5 DEF Sound, Fresh
<1>7. Meant(p) BY <1>2, <1>3, <1>4, <1>5 DEF Sound, Fresh, Meant
<1>8. QED BY <1>1, <1>6, <1>7, PostFields, PostTyped DEF Sound, SameLink, p

LEMMA AwaitFields ==
  ASSUME NEW c, Typed(c), NEW k \in Kind
  PROVE  /\ Typed(Await(c, k))
         /\ Await(c, k).reqId = c.reqId + 1
         /\ Await(c, k).waitId = c.reqId
         /\ Await(c, k).status = c.status
         /\ Await(c, k).waitMedia = c.waitMedia
         /\ Await(c, k).media = c.media
         /\ Await(c, k).queue = c.queue
         /\ Await(c, k).asked = Post(c, k).asked
         /\ SameLink(c, Await(c, k))
<1> DEFINE p == Post(c, k)
<1>1. Typed(p) BY PostTyped
<1>2. /\ p.reqId = c.reqId + 1 /\ p.status = c.status
      /\ p.waitMedia = c.waitMedia /\ p.media = c.media /\ p.queue = c.queue
      /\ SameLink(c, p)
  BY PostFields
<1>3. c.reqId \in Nat BY DEF Typed, Ctx
<1>4. Await(c, k) = [p EXCEPT !.waitId = c.reqId] BY DEF Await
<1> HIDE DEF p
<1>5. QED BY <1>1, <1>2, <1>3, <1>4 DEF Typed, Ctx, SameLink, p

\* Requests sent while launching are media requests or the launch itself.
LEMMA AwaitSound ==
  ASSUME NEW c, Sound(c), NEW k \in Kind,
         c.status = "LAUNCHING" => k \in MediaKind
  PROVE  Awaits(c, Await(c, k))
<1> DEFINE p == Await(c, k)
<1>1. Typed(c) /\ Typed(p) BY AwaitFields DEF Sound
<1>2. /\ p.reqId = c.reqId + 1 /\ p.waitId = c.reqId
      /\ p.waitMedia = c.waitMedia /\ p.status = c.status
      /\ p.media = c.media /\ p.queue = c.queue /\ SameLink(c, p)
  BY <1>1, AwaitFields
<1>3. /\ \A r \in p.asked : r \in c.asked \/ r = Posted(c, k)
      /\ p.ssl => Posted(c, k) \in p.asked
  BY <1>1, <1>2, AwaitFields, PostAsked DEF SameLink
<1>4. /\ c.reqId \in Nat /\ c.reqId > 0 /\ c.waitId \in Nat /\ c.waitMedia \in Nat
      /\ \A r \in c.asked : r.id \in Nat
  BY <1>1 DEF Typed, Ctx, Request
<1>5. Posted(c, k).id = c.reqId /\ Posted(c, k).kind = k BY DEF Posted
<1> HIDE DEF p
<1>6. Fresh(p) BY <1>2, <1>3, <1>4, <1>5 DEF Sound, Fresh
<1>7. Meant(p)
  <2>1. k \in MediaKind => k \notin PlatformKind BY DEF MediaKind, PlatformKind
  <2>2. QED BY <1>2, <1>3, <1>4, <1>5, <2>1 DEF Sound, Fresh, Meant
<1>8. Sound(p) BY <1>1, <1>2, <1>6, <1>7 DEF Sound, SameLink
<1>9. QED BY <1>2, <1>3, <1>4, <1>5, <1>8 DEF Quiet, Awaits, Sent, p

LEMMA LaunchSound ==
  ASSUME NEW c, Sound(c), c.status # "LAUNCHING"
  PROVE  Awaits(c, Launch(c)) /\ Launch(c).status = "LAUNCHING"
<1> DEFINE a == Await(c, "LAUNCH")
           l == Launch(c)
<1>1. "LAUNCH" \in Kind BY DEF Kind, PlatformKind
<1>2. Awaits(c, a) BY <1>1, AwaitSound
<1>3. Typed(a) /\ Typed(c) BY <1>2 DEF Quiet, Awaits, Sound
<1>4. /\ Typed(l) /\ l.status = "LAUNCHING"
      /\ l.reqId = a.reqId /\ l.waitId = a.waitId /\ l.waitMedia = a.waitMedia
      /\ l.media = a.media /\ l.queue = a.queue /\ l.asked = a.asked
      /\ SameLink(a, l)
  BY <1>3 DEF Launch, Typed, Ctx, Status, SameLink
<1>5. \A r \in a.asked : r.id = a.waitId => r.kind = "LAUNCH"
  <2>1. a.waitId = c.reqId /\ a.asked = Post(c, "LAUNCH").asked
    BY <1>1, <1>3, AwaitFields
  <2>2. \A r \in a.asked : r \in c.asked \/ r = Posted(c, "LAUNCH")
    BY <1>1, <1>3, <2>1, PostAsked
  <2>3. \A r \in c.asked : r.id < c.reqId /\ r.id \in Nat
    BY DEF Sound, Fresh, Typed, Ctx, Request
  <2>4. c.reqId \in Nat /\ Posted(c, "LAUNCH").kind = "LAUNCH"
    BY <1>3 DEF Posted, Typed, Ctx
  <2> HIDE DEF a
  <2>5. QED BY <2>1, <2>2, <2>3, <2>4
<1> HIDE DEF a, l
<1>6. Fresh(l) /\ Meant(l)
  BY <1>2, <1>4, <1>5 DEF Quiet, Awaits, Sound, Fresh, Meant
<1>7. QED
  BY <1>2, <1>4, <1>6 DEF Quiet, Awaits, Sound, Sent, SameLink, l

LEMMA StartLoadSound ==
  ASSUME NEW c, Sound(c), c.status # "LAUNCHING"
  PROVE  /\ Awaits(c, StartLoad(c))
         /\ StartLoad(c).status = c.status /\ ~StartLoad(c).media
<1> DEFINE a == Await(c, "LOAD")
           l == StartLoad(c)
<1>1. "LOAD" \in Kind BY DEF Kind, MediaKind
<1>2. Awaits(c, a) BY <1>1, AwaitSound
<1>3. Typed(a) /\ Typed(c) BY <1>2 DEF Quiet, Awaits, Sound
<1>4. c.reqId \in Nat /\ c.reqId > 0 BY <1>3 DEF Typed, Ctx
<1>5. a.waitId = c.reqId /\ a.reqId = c.reqId + 1 /\ a.status = c.status
  BY <1>1, <1>3, AwaitFields
<1>6. /\ Typed(l) /\ ~l.media /\ l.waitMedia = c.reqId
      /\ l.reqId = a.reqId /\ l.waitId = a.waitId /\ l.status = a.status
      /\ l.queue = a.queue /\ l.asked = a.asked
      /\ SameLink(a, l)
  BY <1>3, <1>4 DEF StartLoad, Typed, Ctx, SameLink
<1>7. \A r \in a.asked : r.id = c.reqId => r.kind = "LOAD"
  <2>1. \A r \in a.asked : r \in c.asked \/ r = Posted(c, "LOAD")
    BY <1>1, <1>3, AwaitFields, PostAsked
  <2>2. \A r \in c.asked : r.id < c.reqId /\ r.id \in Nat
    BY DEF Sound, Fresh, Typed, Ctx, Request
  <2>3. Posted(c, "LOAD").kind = "LOAD" BY DEF Posted
  <2> HIDE DEF a
  <2>4. QED BY <1>4, <2>1, <2>2, <2>3
<1> HIDE DEF a, l
<1>8. Fresh(l) /\ Meant(l)
  BY <1>2, <1>4, <1>5, <1>6, <1>7 DEF Quiet, Awaits, Sound, Fresh, Meant
<1>9. QED
  BY <1>2, <1>5, <1>6, <1>8 DEF Quiet, Awaits, Sound, Sent, SameLink, l

\* Leaving for CONNECTED, forgetting the media session or changing the queue
\* disturbs nothing.
LEMMA ToConnected ==
  ASSUME NEW c, Sound(c)
  PROVE  LET d == [c EXCEPT !.status = "CONNECTED"]
         IN  /\ Sound(d) /\ SameLink(c, d) /\ d.status = "CONNECTED"
             /\ d.waitId = c.waitId /\ d.waitMedia = c.waitMedia
             /\ d.asked = c.asked /\ d.queue = c.queue /\ d.media = c.media
BY DEF Sound, Typed, Fresh, Meant, Ctx, Status, SameLink

LEMMA WithoutMedia ==
  ASSUME NEW c, Sound(c)
  PROVE  LET d == [c EXCEPT !.media = FALSE]
         IN  /\ Sound(d) /\ SameLink(c, d) /\ ~d.media
             /\ d.waitId = c.waitId /\ d.waitMedia = c.waitMedia
             /\ d.asked = c.asked /\ d.queue = c.queue /\ d.status = c.status
BY DEF Sound, Typed, Fresh, Meant, Ctx, Status, SameLink

LEMMA WithQueue ==
  ASSUME NEW c, Sound(c), NEW q \in Seq(Item)
  PROVE  LET d == [c EXCEPT !.queue = q]
         IN  /\ Sound(d) /\ SameLink(c, d) /\ d.queue = q
             /\ d.waitId = c.waitId /\ d.waitMedia = c.waitMedia
             /\ d.asked = c.asked /\ d.media = c.media /\ d.status = c.status
BY DEF Sound, Typed, Fresh, Meant, Ctx, Status, SameLink

LEMMA SendStopSound ==
  ASSUME NEW c, Sound(c)
  PROVE  /\ Awaits(c, SendStop(c)) /\ ~SendStop(c).media
         /\ SendStop(c).status = IF c.stopReceiver THEN "CONNECTED" ELSE c.status
<1> DEFINE b == [c EXCEPT !.status = "CONNECTED"]
           a == IF c.stopReceiver THEN Await(b, "STOP_RECEIVER")
                ELSE Await(c, "STOP_MEDIA")
           d == [a EXCEPT !.media = FALSE]
<1>1. /\ "STOP_RECEIVER" \in Kind /\ "STOP_MEDIA" \in Kind
      /\ "STOP_MEDIA" \in MediaKind
  BY DEF Kind, MediaKind, PlatformKind
<1>2. /\ Sound(b) /\ SameLink(c, b) /\ b.status = "CONNECTED"
      /\ b.queue = c.queue /\ b.media = c.media
  BY ToConnected
<1>3. Awaits(c, a) /\ a.status = IF c.stopReceiver THEN "CONNECTED" ELSE c.status
  <2>1. CASE c.stopReceiver
    <3>1. Awaits(b, Await(b, "STOP_RECEIVER")) BY <1>1, <1>2, AwaitSound
    <3>2. Await(b, "STOP_RECEIVER").status = "CONNECTED"
      BY <1>1, <1>2, AwaitFields DEF Sound
    <3> HIDE DEF b
    <3>3. QED BY <1>2, <2>1, <3>1, <3>2 DEF Quiet, Awaits, SameLink
  <2>2. CASE ~c.stopReceiver
    BY <1>1, <2>2, AwaitSound, AwaitFields DEF Sound
  <2>3. QED BY <2>1, <2>2
<1> HIDE DEF a
<1>4. /\ Sound(d) /\ SameLink(a, d) /\ ~d.media
      /\ d.waitId = a.waitId /\ d.asked = a.asked /\ d.queue = a.queue
      /\ d.status = a.status
  BY <1>3, WithoutMedia DEF Quiet, Awaits
<1>5. SendStop(c) = d BY DEF SendStop, a
<1> HIDE DEF d
<1>6. QED BY <1>3, <1>4, <1>5 DEF Quiet, Awaits, SameLink, Sent

-----------------------------------------------------------------------------
(* ProcessQueue                                                            *)

\* With ids below the next one, taking an id awaits something fresh.
LEMMA TakeId ==
  ASSUME NEW c, Sound(c), c.status # "LAUNCHING"
  PROVE  LET d == [c EXCEPT !.waitId = c.reqId, !.reqId = c.reqId + 1]
         IN  /\ Sound(d) /\ SameLink(c, d) /\ d.waitId # 0
             /\ d.queue = c.queue /\ d.status = c.status /\ d.media = c.media
<1> DEFINE d == [c EXCEPT !.waitId = c.reqId, !.reqId = c.reqId + 1]
<1>1. /\ c.reqId \in Nat /\ c.reqId > 0
      /\ c.reqId + 1 \in Nat /\ c.reqId + 1 > 0
      /\ c.waitId \in Nat /\ c.waitMedia \in Nat
      /\ \A r \in c.asked : r.id \in Nat
  BY DEF Sound, Typed, Ctx, Request
<1>2. /\ Typed(d) /\ d.waitId = c.reqId /\ d.reqId = c.reqId + 1
      /\ d.waitMedia = c.waitMedia /\ d.media = c.media /\ d.status = c.status
      /\ d.asked = c.asked /\ d.queue = c.queue /\ SameLink(c, d)
  BY <1>1 DEF Sound, Typed, Ctx, SameLink
<1> HIDE DEF d
<1>3. Fresh(d) /\ Meant(d)
  BY <1>1, <1>2 DEF Sound, Fresh, Meant
<1>4. Sound(d) /\ SameLink(c, d) /\ d.waitId # 0
      /\ d.queue = c.queue /\ d.status = c.status /\ d.media = c.media
  BY <1>1, <1>2, <1>3 DEF Sound, SameLink
<1>5. QED BY <1>4 DEF d

LEMMA PerformVolumeSound ==
  ASSUME NEW c, Sound(c), c.status # "LAUNCHING", NEW item \in Item
  PROVE  /\ Awaits(c, PerformVolume(c, item))
         /\ PerformVolume(c, item).status = c.status
<1> DEFINE v == PostVolume(c, item)
           d == PerformVolume(c, item)
<1>1. "SET_VOLUME" \in Kind BY DEF Kind, PlatformKind
<1> DEFINE p == Post(c, "SET_VOLUME")
           q == Post(p, "SET_VOLUME")
<1>2. Sound(p) /\ Sound(q) BY <1>1, PostSound
<1>3. /\ SameLink(c, p) /\ p.status = c.status /\ p.queue = c.queue
      /\ p.reqId = c.reqId + 1 /\ p.media = c.media
      /\ SameLink(p, q) /\ q.status = p.status /\ q.queue = p.queue
      /\ q.reqId = p.reqId + 1 /\ q.media = p.media
  BY <1>1, <1>2, PostFields DEF Sound
<1>4. /\ p.ssl => \E r \in p.asked : r.id = p.reqId - 1
      /\ q.ssl => \E r \in q.asked : r.id = q.reqId - 1
  <2>1. Posted(c, "SET_VOLUME").id = c.reqId /\ Posted(p, "SET_VOLUME").id = p.reqId
    BY DEF Posted
  <2>2. /\ c.ssl => Posted(c, "SET_VOLUME") \in p.asked
        /\ p.ssl => Posted(p, "SET_VOLUME") \in q.asked
    BY <1>1, <1>2, PostAsked DEF Sound
  <2>3. c.reqId \in Nat /\ p.reqId \in Nat BY <1>2 DEF Sound, Typed, Ctx
  <2> HIDE DEF p, q
  <2>4. QED BY <1>3, <2>1, <2>2, <2>3 DEF SameLink
<1>5. v = p \/ v = q BY DEF PostVolume
<1>6. /\ Sound(v) /\ SameLink(c, v) /\ v.status = c.status /\ v.queue = c.queue
      /\ v.media = c.media
      /\ v.reqId > 1 /\ v.ssl => \E r \in v.asked : r.id = v.reqId - 1
  <2>1. c.reqId \in Nat /\ c.reqId > 0 BY DEF Sound, Typed, Ctx
  <2> HIDE DEF p, q, v
  <2>2. QED BY <1>2, <1>3, <1>4, <1>5, <2>1 DEF SameLink
<1>7. d = [v EXCEPT !.waitId = v.reqId - 1] BY DEF PerformVolume
<1>8. v.reqId \in Nat /\ v.reqId > 1
  <2>1. c.reqId \in Nat /\ c.reqId > 0 BY DEF Sound, Typed, Ctx
  <2> HIDE DEF p, q, v
  <2>2. QED BY <1>3, <1>5, <2>1
<1> HIDE DEF p, q, v, d
<1>9. /\ Sound(d) /\ SameLink(v, d) /\ d.waitId = v.reqId - 1 /\ d.asked = v.asked
      /\ d.status = v.status /\ d.queue = v.queue /\ d.media = v.media
  BY <1>6, <1>7, <1>8 DEF Sound, Typed, Fresh, Meant, Ctx, SameLink
<1>10. QED BY <1>6, <1>8, <1>9 DEF Quiet, Awaits, Sent, SameLink, d

\* Working for the head of the queue, if there is one, takes the next id
\* unless it is a PLAY or PAUSE without a media session.
Worked(c, d) ==
  /\ Sound(d) /\ SameLink(c, d) /\ Quiet(c, d)
  /\ d.status \in {"CONNECTED", "LAUNCHED", "LAUNCHING"}
  /\ d.waitId = 0 => ~d.media
  /\ c.stopReceiver /\ d.waitId # 0 => Sent(d)

LEMMA PerformStopSound ==
  ASSUME NEW c, Sound(c), c.status \in {"CONNECTED", "LAUNCHED"}
  PROVE  Worked(c, PerformStop(c))
<1>1. CASE c.stopReceiver \/ c.media
  BY <1>1, SendStopSound DEF Quiet, PerformStop, Worked, Awaits
<1>2. CASE ~(c.stopReceiver \/ c.media)
  <2>1. PerformStop(c) = [c EXCEPT !.waitId = c.reqId, !.reqId = c.reqId + 1]
    BY <1>2 DEF PerformStop
  <2>2. QED BY <1>2, <2>1, TakeId DEF Quiet, Worked
<1>3. QED BY <1>1, <1>2

LEMMA PerformWorks ==
  ASSUME NEW c, Sound(c), c.status \in {"CONNECTED", "LAUNCHED"}, c.waitId = 0,
         NEW item \in Item
  PROVE  Worked(c, Perform(c, item))
<1>1. CASE item = "LAUNCH"
  BY <1>1, LaunchSound DEF Quiet, Perform, Worked, Awaits
<1>2. CASE item = "LOAD"
  BY <1>2, StartLoadSound DEF Quiet, Perform, Worked, Awaits
<1>3. CASE item = "STOP"
  BY <1>3, PerformStopSound DEF Perform
<1>4. CASE item \in {"PLAY", "PAUSE"}
  <2>1. Perform(c, item) = PerformPlay(c) BY <1>4 DEF Perform
  <2>2. "PLAY" \in Kind /\ "PLAY" \in MediaKind BY DEF Kind, MediaKind
  <2>3. CASE c.media
    BY <2>1, <2>2, <2>3, AwaitSound, AwaitFields
       DEF Quiet, PerformPlay, Worked, Awaits, Sound
  <2>4. CASE ~c.media
    BY <2>1, <2>4 DEF Quiet, PerformPlay, Worked, SameLink
  <2>5. QED BY <2>3, <2>4
<1>5. CASE item \in {"VOLUME", "MUTE"}
  <2>1. Perform(c, item) = PerformVolume(c, item) BY <1>5 DEF Perform
  <2>2. QED BY <2>1, PerformVolumeSound DEF Quiet, Worked, Awaits
<1>6. QED BY <1>1, <1>2, <1>3, <1>4, <1>5 DEF Item

\* What ProcessQueue guarantees: a queue it leaves with commands, while the
\* media session is there, is held by an acknowledgement.
LEMMA ProcessQueueWorks ==
  ASSUME NEW c, Sound(c), c.status \in {"CONNECTED", "LAUNCHED"}, c.waitId = 0
  PROVE  LET d == ProcessQueue(c)
         IN  /\ Sound(d) /\ SameLink(c, d) /\ Quiet(c, d)
             /\ d.status \in {"CONNECTED", "LAUNCHED", "LAUNCHING"}
             /\ d.waitId = 0 /\ d.media => d.queue = <<>>
             /\ c.stopReceiver /\ d.waitId # 0 => Sent(d)
<1>1. CASE c.queue = <<>>
  BY <1>1 DEF ProcessQueue, SameLink, Quiet
<1>2. CASE c.queue # <<>>
  <2> DEFINE e == [c EXCEPT !.queue = Tail(c.queue)]
  <2>1. Tail(c.queue) \in Seq(Item) /\ Head(c.queue) \in Item
    BY <1>2 DEF Sound, Typed, Ctx
  <2>2. Sound(e) /\ SameLink(c, e) /\ e.status = c.status /\ e.waitId = c.waitId
        /\ e.media = c.media
    BY <2>1, WithQueue
  <2>3. ProcessQueue(c) = Perform(e, Head(c.queue)) BY <1>2 DEF ProcessQueue
  <2> HIDE DEF e
  <2>4. Worked(e, ProcessQueue(c)) BY <2>1, <2>2, <2>3, PerformWorks
  <2>5. QED BY <2>2, <2>4 DEF Quiet, Worked, SameLink
<1>3. QED BY <1>1, <1>2

-----------------------------------------------------------------------------
(* The inductive invariant                                                 *)

\* CleanUntilConnected and NoCommandLeftBehind, of any context.
Clean(c) ==
  c.status \in {"DISCONNECTED", "CONNECTING", "AUTOLAUNCH"} =>
    c.waitId = 0 /\ c.waitMedia = 0 /\ ~c.media /\ ~c.session

NotLeft(c) == QueueMoves(c) /\ c.media => c.queue = <<>>

\* The message in hand, if its connection is still the same, is older than
\* what will be asked, and answers what it seems to.
HandMeant ==
  /\ inHand.type \in {"CLOSE", "PING", "PONG"} => inHand.id = 0
  /\ sock = "handle" /\ ~stale =>
       /\ inHand.id < ctx.reqId
       /\ /\ inHand.type = "RECEIVER_STATUS"
          /\ ctx.status = "LAUNCHING" /\ ctx.waitId # 0 /\ inHand.id = ctx.waitId
          => inHand.of = "LAUNCH"
       /\ /\ inHand.type = "MEDIA_STATUS"
          /\ ctx.waitMedia # 0 /\ inHand.id = ctx.waitMedia
          => inHand.of = "LOAD"

IInv ==
  /\ TypeOK
  /\ Sound(ctx) /\ Clean(ctx) /\ NotLeft(ctx)
  /\ WaitIsAnswerable
  /\ HandMeant

\* What every step is shown to do: keep the invariant, and launch or load only
\* on the answer to a LAUNCH or to a LOAD.
Kept == IInv' /\ AnswerMatches

\* d is c after a call: requests are added, and a new wait is for one of them.
Called(c, d) ==
  /\ Sound(d) /\ Clean(d) /\ NotLeft(d)
  /\ SameLink(c, d) /\ Quiet(c, d)
  /\ c.reqId <= d.reqId
  /\ c.asked \subseteq d.asked
  /\ \/ d.waitId = c.waitId /\ (d.status = "LAUNCHING" => c.status = "LAUNCHING")
     \/ d.waitId >= c.reqId /\ Sent(d)
  /\ d.waitMedia = c.waitMedia \/ d.waitMedia >= c.reqId

\* A call that leaves the socket thread's own state alone keeps the invariant.
LEMMA CallKeeps ==
  ASSUME IInv, Called(ctx, ctx'), UNCHANGED <<sock, inHand, stale>>,
         TypeOK'
  PROVE  Kept
<1>1. /\ ctx.reqId \in Nat /\ ctx.waitId \in Nat /\ ctx.waitMedia \in Nat
      /\ ctx'.reqId \in Nat /\ ctx'.waitId \in Nat /\ ctx'.waitMedia \in Nat
      /\ inHand.id \in Nat
  BY DEF Quiet, Called, IInv, Sound, Typed, Ctx, TypeOK, Message
<1>2. HandMeant'
  BY <1>1 DEF Quiet, HandMeant, IInv, Called, Sound, Fresh
<1>3. WaitIsAnswerable'
  BY <1>1 DEF Quiet, WaitIsAnswerable, IInv, Called, SameLink, Sent
<1>4. AnswerMatches BY DEF AnswerMatches, Called, Quiet
<1>5. QED BY <1>2, <1>3, <1>4 DEF Kept, IInv, Called

LEMMA NothingCalled ==
  ASSUME NEW c, Sound(c), Clean(c), NotLeft(c)
  PROVE  Called(c, c)
<1>1. c.reqId \in Nat BY DEF Sound, Typed, Ctx
<1>2. QED BY <1>1 DEF Quiet, Called, SameLink

LEMMA AwaitGrows ==
  ASSUME NEW c, Sound(c), NEW k \in Kind
  PROVE  LET d == Await(c, k)
         IN  /\ d.reqId = c.reqId + 1 /\ d.waitId = c.reqId
             /\ d.waitMedia = c.waitMedia /\ d.media = c.media
             /\ d.status = c.status
             /\ c.asked \subseteq d.asked
BY AwaitFields, PostAsked DEF Sound

LEMMA LaunchCalled ==
  ASSUME NEW c, Sound(c), c.status # "LAUNCHING"
  PROVE  Called(c, Launch(c))
<1> DEFINE d == Launch(c)
           a == Await(c, "LAUNCH")
<1>1. "LAUNCH" \in Kind BY DEF Kind, PlatformKind
<1>2. /\ Awaits(c, d) /\ d.status = "LAUNCHING" BY LaunchSound
<1>3. /\ Typed(a) /\ a.reqId = c.reqId + 1 /\ a.waitId = c.reqId
      /\ a.waitMedia = c.waitMedia /\ c.asked \subseteq a.asked
  BY <1>1, AwaitGrows, AwaitFields DEF Sound
<1>4. /\ d.reqId = a.reqId /\ d.waitId = a.waitId
      /\ d.waitMedia = a.waitMedia /\ d.asked = a.asked
  BY <1>3 DEF Launch, Typed, Ctx
<1>5. c.reqId \in Nat BY DEF Sound, Typed, Ctx
<1> HIDE DEF d, a
<1>6. Called(c, d)
  BY <1>2, <1>3, <1>4, <1>5 DEF Quiet, Called, Awaits, Clean, NotLeft, QueueMoves
<1>7. QED BY <1>6 DEF d

LEMMA StartLoadCalled ==
  ASSUME NEW c, Sound(c), c.status = "LAUNCHED"
  PROVE  Called(c, StartLoad(c))
<1> DEFINE d == StartLoad(c)
           a == Await(c, "LOAD")
<1>1. "LOAD" \in Kind BY DEF Kind, MediaKind
<1>2. /\ Awaits(c, d) /\ d.status = "LAUNCHED" /\ ~d.media BY StartLoadSound
<1>3. /\ Typed(a) /\ a.reqId = c.reqId + 1 /\ a.waitId = c.reqId
      /\ c.asked \subseteq a.asked
  BY <1>1, AwaitGrows, AwaitFields DEF Sound
<1>4. c.reqId \in Nat BY DEF Sound, Typed, Ctx
<1>5. /\ d.reqId = a.reqId /\ d.waitId = a.waitId
      /\ d.waitMedia = c.reqId /\ d.asked = a.asked
  BY <1>3, <1>4 DEF StartLoad, Typed, Ctx
<1> HIDE DEF d, a
<1>6. Called(c, d)
  BY <1>2, <1>3, <1>4, <1>5 DEF Quiet, Called, Awaits, Clean, NotLeft, QueueMoves
<1>7. QED BY <1>6 DEF d

LEMMA AwaitCalled ==
  ASSUME NEW c, Sound(c), c.status = "LAUNCHED", NEW k \in Kind
  PROVE  Called(c, Await(c, k))
<1>1. Awaits(c, Await(c, k)) BY AwaitSound
<1>2. c.reqId \in Nat BY DEF Sound, Typed, Ctx
<1>3. QED
  BY <1>1, <1>2, AwaitGrows DEF Quiet, Called, Awaits, Clean, NotLeft, QueueMoves

LEMMA PostCalled ==
  ASSUME NEW c, Sound(c), Clean(c), NotLeft(c), NEW k \in Kind
  PROVE  Called(c, Post(c, k))
<1>1. Typed(c) /\ c.reqId \in Nat BY DEF Sound, Typed, Ctx
<1>2. /\ Sound(Post(c, k)) BY PostSound
<1>3. QED
  BY <1>1, <1>2, PostFields, PostAsked
     DEF Quiet, Called, Clean, NotLeft, QueueMoves, SameLink

LEMMA EnqueueCalled ==
  ASSUME NEW c, Sound(c), Clean(c), NEW item \in Item,
         c.status = "LAUNCHED" /\ c.waitId = 0 => ~c.media
  PROVE  Called(c, Enqueue(c, item))
<1> DEFINE q == Append(c.queue, item)
           d == [c EXCEPT !.queue = q]
<1>1. q \in Seq(Item) /\ c.reqId \in Nat BY DEF Sound, Typed, Ctx
<1> HIDE DEF q
<1>2. /\ Sound(d) /\ SameLink(c, d)
      /\ d.waitId = c.waitId /\ d.waitMedia = c.waitMedia
      /\ d.asked = c.asked /\ d.media = c.media /\ d.status = c.status
  BY <1>1, WithQueue
<1>3. d.reqId = c.reqId BY DEF Sound, Typed, Ctx
<1>4. Enqueue(c, item) = d BY DEF Enqueue, q
<1> HIDE DEF d
<1>5. QED
  BY <1>1, <1>2, <1>3, <1>4 DEF Quiet, Called, Clean, NotLeft, QueueMoves, SameLink

\* Flushing the queue before a call changes nothing of the above.
LEMMA FlushThenCall ==
  ASSUME NEW c, Sound(c), Clean(c), NEW d,
         LET f == [c EXCEPT !.queue = <<>>] IN Called(f, d)
  PROVE  Called(c, d)
<1> DEFINE f == [c EXCEPT !.queue = <<>>]
<1>1. /\ f.reqId = c.reqId /\ f.asked = c.asked /\ f.waitId = c.waitId
      /\ f.waitMedia = c.waitMedia /\ f.status = c.status /\ SameLink(c, f)
  BY DEF Sound, Typed, Ctx, SameLink
<1>2. Called(f, d) OBVIOUS
<1> HIDE DEF f
<1>3. QED BY <1>1, <1>2 DEF Quiet, Called, SameLink

LEMMA Flushed ==
  ASSUME NEW c, Sound(c), Clean(c)
  PROVE  LET f == [c EXCEPT !.queue = <<>>]
         IN  /\ Sound(f) /\ Clean(f) /\ NotLeft(f)
             /\ f.status = c.status /\ f.waitId = c.waitId
             /\ f.waitMedia = c.waitMedia /\ f.media = c.media
<1> DEFINE f == [c EXCEPT !.queue = <<>>]
<1>1. /\ Sound(f) /\ SameLink(c, f) /\ f.queue = <<>>
      /\ f.status = c.status /\ f.waitId = c.waitId
      /\ f.waitMedia = c.waitMedia /\ f.media = c.media
  <2>1. <<>> \in Seq(Item) OBVIOUS
  <2>2. QED BY <2>1, WithQueue
<1> HIDE DEF f
<1>2. Clean(f) /\ NotLeft(f)
  BY <1>1 DEF Clean, NotLeft, SameLink
<1>3. QED BY <1>1, <1>2 DEF f

LEMMA LaunchReceiverCalled ==
  ASSUME NEW c, Sound(c), Clean(c), NotLeft(c)
  PROVE  Called(c, LaunchReceiver(c))
<1>1. CASE c.status = "CONNECTING"
  <2> DEFINE d == [c EXCEPT !.status = "AUTOLAUNCH"]
  <2>1. LaunchReceiver(c) = d BY <1>1 DEF LaunchReceiver
  <2>2. /\ Typed(d) /\ d.status = "AUTOLAUNCH" /\ SameLink(c, d)
        /\ d.reqId = c.reqId /\ d.waitId = c.waitId /\ d.waitMedia = c.waitMedia
        /\ d.asked = c.asked /\ d.media = c.media
    BY DEF Sound, Typed, Ctx, Status, SameLink
  <2>3. c.reqId \in Nat BY DEF Sound, Typed, Ctx
  <2> HIDE DEF d
  <2>4. Sound(d) BY <2>2 DEF Sound, Fresh, Meant
  <2>5. Clean(d) /\ NotLeft(d)
    BY <1>1, <2>2 DEF Clean, NotLeft, QueueMoves, SameLink
  <2>6. QED BY <2>1, <2>2, <2>3, <2>4, <2>5 DEF Quiet, Called
<1>2. CASE c.status = "CONNECTED" /\ c.waitId = 0
  <2>1. LaunchReceiver(c) = Launch(c) BY <1>2 DEF LaunchReceiver
  <2>2. QED BY <1>2, <2>1, LaunchCalled
<1>3. CASE c.status = "CONNECTED" /\ c.waitId # 0
  <2>1. LaunchReceiver(c) = Enqueue(c, "LAUNCH") BY <1>3 DEF LaunchReceiver
  <2>2. "LAUNCH" \in Item BY DEF Item
  <2>3. QED BY <1>3, <2>1, <2>2, EnqueueCalled
<1>4. CASE c.status \notin {"CONNECTING", "CONNECTED"}
  <2>1. LaunchReceiver(c) = c BY <1>4 DEF LaunchReceiver
  <2>2. QED BY <2>1, NothingCalled
<1>5. QED BY <1>1, <1>2, <1>3, <1>4

LEMMA LoadCalled ==
  ASSUME NEW c, Sound(c), Clean(c), NotLeft(c)
  PROVE  Called(c, IF LoadNow(c) THEN StartLoad(FlushIfLoading(c))
                   ELSE Enqueue(c, "LOAD"))
<1> DEFINE f == [c EXCEPT !.queue = <<>>]
<1>1. Sound(f) /\ f.status = c.status BY Flushed
<1>2. CASE LoadNow(c) /\ c.waitMedia # 0
  <2>1. FlushIfLoading(c) = f BY <1>2 DEF FlushIfLoading
  <2>2. f.status = "LAUNCHED" BY <1>1, <1>2 DEF LoadNow
  <2> HIDE DEF f
  <2>3. Called(f, StartLoad(f)) BY <1>1, <2>2, StartLoadCalled
  <2>4. Called(c, StartLoad(f)) BY <2>3, FlushThenCall DEF f
  <2>5. QED BY <1>2, <2>1, <2>4
<1>3. CASE LoadNow(c) /\ c.waitMedia = 0
  <2>1. FlushIfLoading(c) = c BY <1>3 DEF FlushIfLoading
  <2>2. QED BY <1>3, <2>1, StartLoadCalled DEF LoadNow
<1>4. CASE ~LoadNow(c)
  <2>1. "LOAD" \in Item BY DEF Item
  <2>2. QED BY <1>4, <2>1, EnqueueCalled DEF LoadNow
<1>5. QED BY <1>2, <1>3, <1>4

LEMMA CommandCalled ==
  ASSUME NEW c, Sound(c), Clean(c), NotLeft(c), NEW k \in {"PLAY", "PAUSE"}
  PROVE  Called(c, Command(c, k))
<1>1. k \in Item /\ k \in Kind BY DEF Item, Kind, MediaKind
<1>2. CASE c.status = "LAUNCHED" /\ c.waitId = 0 /\ c.media
  BY <1>1, <1>2, AwaitCalled DEF Command
<1>3. CASE c.status = "LAUNCHED" /\ c.waitId = 0 /\ ~c.media
  BY <1>3, NothingCalled DEF Command
<1>4. CASE ~(c.status = "LAUNCHED" /\ c.waitId = 0)
  <2>1. Command(c, k) = Enqueue(c, k) BY <1>4 DEF Command
  <2>2. QED BY <1>1, <1>4, <2>1, EnqueueCalled
<1>5. QED BY <1>2, <1>3, <1>4

LEMMA SendStopCalled ==
  ASSUME NEW c, Sound(c), Clean(c), c.media
  PROVE  Called(c, SendStop(c))
<1> DEFINE b == [c EXCEPT !.status = "CONNECTED"]
           a == IF c.stopReceiver THEN Await(b, "STOP_RECEIVER")
                ELSE Await(c, "STOP_MEDIA")
           d == SendStop(c)
<1>1. "STOP_RECEIVER" \in Kind /\ "STOP_MEDIA" \in Kind
  BY DEF Kind, MediaKind, PlatformKind
<1>2. /\ Awaits(c, d) /\ ~d.media
      /\ d.status = IF c.stopReceiver THEN "CONNECTED" ELSE c.status
  BY SendStopSound
<1>3. Sound(b) /\ b.asked = c.asked /\ b.reqId = c.reqId /\ b.waitMedia = c.waitMedia
  BY ToConnected DEF Sound, Typed, Ctx
<1>4. /\ a.reqId = c.reqId + 1 /\ a.waitId = c.reqId
      /\ a.waitMedia = c.waitMedia /\ c.asked \subseteq a.asked /\ Typed(a)
  <2>1. CASE c.stopReceiver
    <3> HIDE DEF b
    <3>1. QED BY <1>1, <1>3, <2>1, AwaitGrows, AwaitFields DEF Sound
  <2>2. CASE ~c.stopReceiver
    BY <1>1, <2>2, AwaitGrows, AwaitFields DEF Sound
  <2>3. QED BY <2>1, <2>2
<1>5. d = [a EXCEPT !.media = FALSE] BY DEF SendStop
<1> HIDE DEF a
<1>6. /\ d.reqId = c.reqId + 1 /\ d.waitId = c.reqId
      /\ d.waitMedia = c.waitMedia /\ c.asked \subseteq d.asked
  BY <1>4, <1>5 DEF Typed, Ctx
<1>7. c.reqId \in Nat /\ c.status \notin {"DISCONNECTED", "CONNECTING", "AUTOLAUNCH"}
  BY DEF Sound, Typed, Ctx, Clean
<1> HIDE DEF d
<1>8. Called(c, d)
  BY <1>2, <1>6, <1>7 DEF Quiet, Called, Awaits, Clean, NotLeft
<1>9. QED BY <1>8 DEF d

LEMMA ConnectedCalled ==
  ASSUME NEW c, Sound(c)
  PROVE  Called(c, [c EXCEPT !.status = "CONNECTED"])
<1> DEFINE d == [c EXCEPT !.status = "CONNECTED"]
<1>1. /\ Sound(d) /\ SameLink(c, d) /\ d.status = "CONNECTED"
      /\ d.waitId = c.waitId /\ d.waitMedia = c.waitMedia /\ d.asked = c.asked
      /\ d.media = c.media
  BY ToConnected
<1>2. d.reqId = c.reqId /\ c.reqId \in Nat BY DEF Sound, Typed, Ctx
<1> HIDE DEF d
<1>3. Called(c, d) BY <1>1, <1>2 DEF Quiet, Called, Clean, NotLeft, QueueMoves
<1>4. QED BY <1>3 DEF d

LEMMA StoppedCalled ==
  ASSUME NEW c, Sound(c), Clean(c), NotLeft(c)
  PROVE  Called(c, Stopped(c))
<1> DEFINE f == [c EXCEPT !.queue = <<>>]
<1>1. Sound(f) /\ Clean(f) /\ NotLeft(f) BY Flushed
<1>2. Stopped(c) = IF f.media THEN SendStop(f) ELSE StopWithoutSession(f)
  BY DEF Stopped
<1> HIDE DEF f
<1>3. Called(f, Stopped(c))
  <2>1. CASE f.media BY <1>1, <1>2, <2>1, SendStopCalled
  <2>2. CASE ~f.media /\ f.waitMedia # 0
    <3>1. "STOP" \in Item BY DEF Item
    <3>2. QED BY <1>1, <1>2, <2>2, <3>1, EnqueueCalled DEF StopWithoutSession
  <2>3. CASE ~f.media /\ f.waitMedia = 0 /\ f.status = "LAUNCHING"
    BY <1>1, <1>2, <2>3, ConnectedCalled DEF StopWithoutSession
  <2>4. CASE ~f.media /\ f.waitMedia = 0 /\ f.status # "LAUNCHING"
    BY <1>1, <1>2, <2>4, NothingCalled DEF StopWithoutSession
  <2>5. QED BY <2>1, <2>2, <2>3, <2>4
<1>4. QED BY <1>3, FlushThenCall DEF f

LEMMA ReleasedCalled ==
  ASSUME NEW c, Sound(c), Clean(c), NotLeft(c)
  PROVE  Called(c, Released(c))
<1>1. CASE c.status = "DISCONNECTED"
  BY <1>1, NothingCalled DEF Released
<1>2. CASE c.status # "DISCONNECTED"
  <2> DEFINE p == Post(c, "STOP_RECEIVER")
             d == [p EXCEPT !.status = "CONNECTED"]
  <2>1. "STOP_RECEIVER" \in Kind BY DEF Kind, PlatformKind
  <2>2. Called(c, p) BY <2>1, PostCalled
  <2>3. Released(c) = d BY <1>2 DEF Released
  <2>4. p.waitId = c.waitId BY <2>1, PostFields DEF Sound
  <2> HIDE DEF p
  <2>5. Called(p, d) BY <2>2, ConnectedCalled DEF Quiet, Called
  <2>6. d.status = "CONNECTED" /\ d.waitId = p.waitId /\ d.waitMedia = p.waitMedia
    BY <2>2 DEF Quiet, Called, Sound, Typed, Ctx
  <2>7. c.reqId \in Nat /\ p.reqId \in Nat /\ d.reqId \in Nat
    BY <2>2, <2>5 DEF Quiet, Called, Sound, Typed, Ctx
  <2> HIDE DEF d
  <2>8. QED BY <2>2, <2>3, <2>4, <2>5, <2>6, <2>7 DEF Quiet, Called, SameLink
<1>3. QED BY <1>1, <1>2

LEMMA SetDeviceVolumeCalled ==
  ASSUME NEW c, Sound(c), Clean(c), NotLeft(c), NEW item \in {"VOLUME", "MUTE"}
  PROVE  Called(c, SetDeviceVolume(c, item))
<1>1. "SET_VOLUME" \in Kind /\ item \in Item BY DEF Kind, PlatformKind, Item
<1>2. CASE c.status # "LAUNCHED"
  <2>1. SetDeviceVolume(c, item) = Enqueue(c, item) BY <1>2 DEF SetDeviceVolume
  <2>2. QED BY <1>1, <1>2, <2>1, EnqueueCalled
<1>3. CASE c.status = "LAUNCHED"
  <2> DEFINE p == Post(c, "SET_VOLUME")
             q == Post(p, "SET_VOLUME")
  <2>1. Called(c, p) BY <1>1, PostCalled
  <2>2. p.waitId = c.waitId /\ p.status = c.status /\ p.waitMedia = c.waitMedia
    BY <1>1, PostFields DEF Sound
  <2> HIDE DEF p
  <2>3. Called(p, q) BY <1>1, <2>1, PostCalled DEF Quiet, Called
  <2>4. q.waitId = p.waitId /\ q.status = p.status /\ q.waitMedia = p.waitMedia
    BY <1>1, <2>1, PostFields DEF Quiet, Called, Sound
  <2>5. c.reqId \in Nat /\ p.reqId \in Nat /\ q.reqId \in Nat
    BY <2>1, <2>3 DEF Quiet, Called, Sound, Typed, Ctx
  <2> HIDE DEF q
  <2>6. Called(c, q)
    BY <1>3, <2>1, <2>2, <2>3, <2>4, <2>5 DEF Quiet, Called, SameLink
  <2>7. SetDeviceVolume(c, item) = p \/ SetDeviceVolume(c, item) = q
    BY <1>3 DEF SetDeviceVolume, PostVolume, p, q
  <2>8. QED BY <2>1, <2>6, <2>7
<1>4. QED BY <1>2, <1>3

-----------------------------------------------------------------------------
(* The connection and the socket thread                                    *)

LEMMA DisconnectKeeps ==
  ASSUME IInv, Disconnect, sock' = sock \/ sock' = "poll",
         UNCHANGED <<inHand, crashed>>,
         caller' \in {"idle", "launch", "load", "off"}
  PROVE  Kept
<1>1. CASE ctx.status = "DISCONNECTED"
  <2>1. UNCHANGED <<ctx, events, stale, inHand>>
    BY <1>1 DEF Disconnect, CastDisconnect
  <2>2. ctx.waitId = 0 BY <1>1 DEF IInv, Clean
  <2>3. QED
    BY <2>1, <2>2 DEF IInv, TypeOK, Sound, Typed, Fresh, Meant, Clean, NotLeft,
       QueueMoves, WaitIsAnswerable, HandMeant, Kept, AnswerMatches
<1>2. CASE ctx.status # "DISCONNECTED"
  <2>1. ctx' = [ctx EXCEPT !.status = "DISCONNECTED", !.reqId = 1, !.waitId = 0,
                 !.waitMedia = 0, !.media = FALSE, !.session = FALSE,
                 !.queue = <<>>, !.ssl = FALSE, !.asked = {}]
    BY <1>2 DEF Disconnect, CastDisconnect
  <2>2. <<>> \in Seq(Item) /\ <<>> \in Seq(BOOLEAN) OBVIOUS
  <2>3. /\ ctx' \in Ctx /\ ctx'.status = "DISCONNECTED" /\ ctx'.reqId = 1
        /\ ctx'.waitId = 0 /\ ctx'.waitMedia = 0 /\ ~ctx'.media
        /\ ~ctx'.session /\ ctx'.asked = {}
    BY <2>1, <2>2 DEF IInv, TypeOK, Ctx, Status
  <2>4. Sound(ctx') /\ Clean(ctx') /\ NotLeft(ctx')
    BY <2>3 DEF Sound, Typed, Fresh, Meant, Clean, NotLeft, QueueMoves
  <2>5. events' = <<>> /\ stale' = (stale \/ sock \in {"handle", "forward"})
    BY <1>2 DEF Disconnect
  <2>6. TypeOK' BY <2>2, <2>3, <2>5 DEF IInv, TypeOK
  <2>7. WaitIsAnswerable' BY <2>3 DEF WaitIsAnswerable
  <2>8. HandMeant' BY <2>5 DEF IInv, HandMeant
  <2>9. AnswerMatches BY <2>3 DEF AnswerMatches
  <2>10. QED BY <2>4, <2>6, <2>7, <2>8, <2>9 DEF IInv, Kept
<1>3. QED BY <1>1, <1>2

LEMMA ConnectKeeps ==
  ASSUME IInv, ctx' = CastConnect(ctx), UNCHANGED <<sock, inHand, stale>>,
         TypeOK'
  PROVE  Kept
<1>1. CASE ctx.status = "DISCONNECTED"
  <2>1. ctx' = [ctx EXCEPT !.status = "CONNECTING", !.ssl = TRUE, !.asked = {}]
    BY <1>1 DEF CastConnect
  <2>2. /\ ctx'.status = "CONNECTING" /\ ctx'.reqId = ctx.reqId
        /\ ctx'.waitId = ctx.waitId /\ ctx'.waitMedia = ctx.waitMedia
        /\ ctx'.media = ctx.media /\ ctx'.session = ctx.session
        /\ ctx'.asked = {}
    BY <2>1 DEF IInv, TypeOK, Ctx
  <2>3. ctx.waitId = 0 /\ ctx.waitMedia = 0 /\ ~ctx.media /\ ~ctx.session
    BY <1>1 DEF IInv, Clean
  <2>4. Sound(ctx') /\ Clean(ctx') /\ NotLeft(ctx')
    BY <2>2, <2>3 DEF IInv, TypeOK, Sound, Typed, Fresh, Meant, Clean, NotLeft,
       QueueMoves
  <2>5. WaitIsAnswerable' BY <2>2, <2>3 DEF WaitIsAnswerable
  <2>6. HandMeant' BY <2>2, <2>3 DEF IInv, HandMeant
  <2>7. AnswerMatches BY <2>2, <2>3 DEF AnswerMatches
  <2>8. QED BY <2>4, <2>5, <2>6, <2>7 DEF IInv, Kept
<1>2. CASE ctx.status # "DISCONNECTED"
  <2>1. ctx' = ctx BY <1>2 DEF CastConnect
  <2>2. QED BY <2>1, NothingCalled, CallKeeps DEF IInv
<1>3. QED BY <1>1, <1>2

\* The end of the socket thread's critical section.
LEMMA HandledKeeps ==
  ASSUME IInv, sock = "handle", \E b \in BOOLEAN : Finish(b),
         Sound(ctx'), Clean(ctx'), NotLeft(ctx'),
         ctx'.stopReceiver = ctx.stopReceiver,
         ctx.stopReceiver /\ ctx'.waitId # 0 => Sent(ctx'),
         UNCHANGED <<caller, events>>, crashed' \in BOOLEAN,
         AnswerMatches
  PROVE  Kept
<1>1. /\ inHand' = NoMessage /\ sock' \in {"poll", "forward"}
      /\ stale' \in BOOLEAN
  BY DEF Finish, IInv, TypeOK
<1>2. NoMessage \in Message /\ NoMessage.type = "UNTYPED"
  BY DEF NoMessage, Message, MessageType
<1>3. TypeOK' BY <1>1, <1>2 DEF IInv, TypeOK, Sound, Typed
<1>4. WaitIsAnswerable' BY DEF WaitIsAnswerable, Sent
<1>5. HandMeant' BY <1>1, <1>2 DEF HandMeant
<1>6. QED BY <1>3, <1>4, <1>5 DEF IInv, Kept

\* A message that acknowledges nothing leaves the wait answerable.
LEMMA NoAckKeeps ==
  ASSUME IInv, sock = "handle", ~IsAck(ctx, inHand),
         ctx.stopReceiver, ctx.waitId # 0
  PROVE  Sent(ctx)
BY DEF IInv, WaitIsAnswerable, IsAck, Sent

LEMMA AcquireSound ==
  ASSUME NEW c, Sound(c), Clean(c), NEW m \in Message, IsAck(c, m)
  PROVE  LET a == Acquire(c, m)
         IN  /\ Sound(a) /\ a.stopReceiver = c.stopReceiver
             /\ a.status \in {"CONNECTED", "LAUNCHING", "LAUNCHED"}
             /\ a.waitId # 0 => Sent(a)
<1> DEFINE a == Acquire(c, m)
<1>1. c.status \in {"CONNECTED", "LAUNCHING", "LAUNCHED"} /\ m.ok \in BOOLEAN
  BY DEF Clean, IsAck, Sound, Typed, Ctx, Status, Message
<1>2. CASE m.type = "RECEIVER_STATUS" /\ c.status = "LAUNCHING"
  <2> DEFINE s == IF m.ok THEN "LAUNCHED" ELSE "LAUNCHING"
  <2>0. s \in Status /\ s \in {"LAUNCHED", "LAUNCHING"} /\ (s = "LAUNCHED" => m.ok)
    BY DEF Status
  <2>1. a = [c EXCEPT !.waitId = 0, !.session = m.ok, !.status = s]
    BY <1>2 DEF Acquire
  <2> HIDE DEF s, a
  <2>2. /\ Typed(a) /\ a.waitId = 0 /\ a.session = m.ok /\ a.status = s
        /\ a.reqId = c.reqId /\ a.waitMedia = c.waitMedia /\ a.media = c.media
        /\ a.asked = c.asked /\ a.stopReceiver = c.stopReceiver
    BY <1>1, <2>0, <2>1 DEF Sound, Typed, Ctx
  <2>3. c.reqId > 0 BY DEF Sound, Typed
  <2>4. Sound(a) BY <2>0, <2>2, <2>3 DEF Sound, Fresh, Meant
  <2>5. QED BY <2>0, <2>2, <2>4 DEF a
<1>3. CASE /\ ~(m.type = "RECEIVER_STATUS" /\ c.status = "LAUNCHING")
           /\ m.type = "MEDIA_STATUS" /\ c.waitMedia = m.id /\ m.ok
  <2> DEFINE e == [c EXCEPT !.waitId = 0, !.waitMedia = 0, !.media = TRUE]
  <2>1. a = Await(e, "MEDIA_VOLUME") BY <1>3 DEF Acquire
  <2>2. /\ Typed(e) /\ e.waitId = 0 /\ e.waitMedia = 0 /\ e.status = c.status
        /\ e.reqId = c.reqId /\ e.session = c.session /\ e.asked = c.asked
        /\ e.stopReceiver = c.stopReceiver
    BY DEF Sound, Typed, Ctx
  <2>3. c.reqId > 0 BY DEF Sound, Typed
  <2> HIDE DEF e
  <2>4. Sound(e) BY <2>2, <2>3 DEF Sound, Fresh, Meant
  <2>5. "MEDIA_VOLUME" \in Kind /\ "MEDIA_VOLUME" \in MediaKind
    BY DEF Kind, MediaKind
  <2>6. Awaits(e, a) /\ a.status = e.status
    BY <2>1, <2>2, <2>4, <2>5, AwaitSound, AwaitFields
  <2>7. QED BY <1>1, <2>2, <2>6 DEF Quiet, Awaits, SameLink
<1>4. CASE /\ ~(m.type = "RECEIVER_STATUS" /\ c.status = "LAUNCHING")
           /\ ~(m.type = "MEDIA_STATUS" /\ c.waitMedia = m.id /\ m.ok)
  <2>1. a = [c EXCEPT !.waitId = 0] BY <1>4 DEF Acquire
  <2>2. /\ Typed(a) /\ a.waitId = 0 /\ a.session = c.session
        /\ a.status = c.status
        /\ a.reqId = c.reqId /\ a.waitMedia = c.waitMedia /\ a.media = c.media
        /\ a.asked = c.asked /\ a.stopReceiver = c.stopReceiver
    BY <2>1 DEF Sound, Typed, Ctx, Status
  <2>3. c.reqId > 0 BY DEF Sound, Typed
  <2> HIDE DEF a
  <2>4. Sound(a) BY <2>2, <2>3 DEF Sound, Fresh, Meant
  <2>5. QED BY <1>1, <2>2, <2>4 DEF a
<1>5. QED BY <1>2, <1>3, <1>4

\* What an acknowledgement can launch or load, by its type.
LEMMA AcquireMeans ==
  ASSUME NEW c, Sound(c), NEW m \in Message
  PROVE  LET a == Acquire(c, m)
         IN  /\ a.status = "LAUNCHED" =>
                  \/ c.status = "LAUNCHED"
                  \/ m.type = "RECEIVER_STATUS" /\ c.status = "LAUNCHING"
             /\ a.media => \/ c.media
                           \/ m.type = "MEDIA_STATUS" /\ c.waitMedia = m.id
<1>1. CASE m.type = "RECEIVER_STATUS" /\ c.status = "LAUNCHING"
  <2> DEFINE st == IF m.ok THEN "LAUNCHED" ELSE "LAUNCHING"
  <2>0. Acquire(c, m) = [c EXCEPT !.waitId = 0, !.session = m.ok, !.status = st]
    BY <1>1 DEF Acquire
  <2> HIDE DEF st
  <2>1. Acquire(c, m).media => c.media
    BY <2>0 DEF Sound, Typed, Ctx
  <2>2. QED BY <1>1, <2>1
<1>2. CASE /\ ~(m.type = "RECEIVER_STATUS" /\ c.status = "LAUNCHING")
           /\ m.type = "MEDIA_STATUS" /\ c.waitMedia = m.id /\ m.ok
  <2> DEFINE e == [c EXCEPT !.waitId = 0, !.waitMedia = 0, !.media = TRUE]
  <2>1. Acquire(c, m) = Await(e, "MEDIA_VOLUME") BY <1>2 DEF Acquire
  <2>2. Typed(e) /\ e.status = c.status BY DEF Sound, Typed, Ctx
  <2>3. "MEDIA_VOLUME" \in Kind BY DEF Kind, MediaKind
  <2> HIDE DEF e
  <2>4. Acquire(c, m).status = c.status BY <2>1, <2>2, <2>3, AwaitFields
  <2>5. QED BY <1>2, <2>4
<1>3. CASE /\ ~(m.type = "RECEIVER_STATUS" /\ c.status = "LAUNCHING")
           /\ ~(m.type = "MEDIA_STATUS" /\ c.waitMedia = m.id /\ m.ok)
  <2>1. Acquire(c, m) = [c EXCEPT !.waitId = 0] BY <1>3 DEF Acquire
  <2>2. Acquire(c, m).status = c.status /\ (Acquire(c, m).media => c.media)
    BY <2>1 DEF Sound, Typed, Ctx
  <2>3. QED BY <2>2
<1>4. QED BY <1>1, <1>2, <1>3

LEMMA HandleReplyKeeps ==
  ASSUME IInv, HandleReply
  PROVE  Kept
<1>1. inHand \in Message BY DEF IInv, TypeOK
<1>2. /\ sock = "handle" /\ UNCHANGED <<caller, events, crashed>>
      /\ \E b \in BOOLEAN : Finish(b)
  BY DEF HandleReply, Running, Swallowed
<1>3. crashed' \in BOOLEAN BY <1>2 DEF IInv, TypeOK
<1>4. CASE ~IsAck(ctx, inHand)
  <2>1. ctx' = ctx BY <1>4 DEF HandleReply
  <2>2. ctx.stopReceiver /\ ctx.waitId # 0 => Sent(ctx) BY <1>2, <1>4, NoAckKeeps
  <2>3. AnswerMatches BY <2>1 DEF AnswerMatches
  <2>4. QED BY <1>2, <1>3, <2>1, <2>2, <2>3, HandledKeeps DEF IInv
<1>5. CASE IsAck(ctx, inHand)
  <2> DEFINE a == Acquire(ctx, inHand)
  <2>1. ctx' = IF QueueMoves(a) THEN ProcessQueue(a) ELSE a
    BY <1>5 DEF HandleReply, Acknowledge
  <2>2. /\ Sound(a) /\ a.stopReceiver = ctx.stopReceiver
        /\ a.status \in {"CONNECTED", "LAUNCHING", "LAUNCHED"}
        /\ a.waitId # 0 => Sent(a)
    BY <1>1, <1>5, AcquireSound DEF IInv
  <2>0. /\ a.status = "LAUNCHED" => \/ ctx.status = "LAUNCHED"
                                   \/ inHand.of = "LAUNCH" \/ stale
        /\ a.media => ctx.media \/ inHand.of = "LOAD" \/ stale
    BY <1>1, <1>2, <1>5, AcquireMeans DEF IInv, HandMeant, IsAck
  <2> HIDE DEF a
  <2>3. CASE QueueMoves(a)
    <3>1. ctx' = ProcessQueue(a) BY <2>1, <2>3
    <3>2. /\ Sound(ctx') /\ SameLink(a, ctx') /\ Quiet(a, ctx')
          /\ ctx'.status \in {"CONNECTED", "LAUNCHED", "LAUNCHING"}
          /\ ctx'.waitId = 0 /\ ctx'.media => ctx'.queue = <<>>
          /\ a.stopReceiver /\ ctx'.waitId # 0 => Sent(ctx')
      BY <2>2, <2>3, <3>1, ProcessQueueWorks DEF QueueMoves
    <3>3. Clean(ctx') /\ NotLeft(ctx') BY <3>2 DEF Clean, NotLeft, QueueMoves
    <3>4. AnswerMatches BY <2>0, <3>2 DEF AnswerMatches, Quiet
    <3>5. QED BY <1>2, <1>3, <2>2, <3>2, <3>3, <3>4, HandledKeeps DEF SameLink
  <2>4. CASE ~QueueMoves(a)
    <3>1. ctx' = a BY <2>1, <2>4
    <3>2. Clean(ctx') /\ NotLeft(ctx') BY <2>2, <2>4, <3>1 DEF Clean, NotLeft
    <3>3. AnswerMatches BY <2>0, <3>1 DEF AnswerMatches
    <3>4. QED BY <1>2, <1>3, <2>2, <3>1, <3>2, <3>3, HandledKeeps
  <2>5. QED BY <2>3, <2>4
<1>6. QED BY <1>4, <1>5

LEMMA HandleCloseKeeps ==
  ASSUME IInv, HandleClose
  PROVE  Kept
<1> DEFINE c == Closed(ctx)
<1>1. /\ sock = "handle" /\ UNCHANGED <<caller, events, crashed>>
      /\ \E b \in BOOLEAN : Finish(b)
  BY DEF HandleClose, Running, IInv, TypeOK, Ctx
<1>2. crashed' \in BOOLEAN BY <1>1 DEF IInv, TypeOK
<1>3. /\ Typed(c) /\ c.status = "CONNECTED" /\ c.waitId = 0
      /\ c.reqId = ctx.reqId /\ c.waitMedia = ctx.waitMedia
      /\ c.media = ctx.media /\ c.asked = ctx.asked
      /\ c.stopReceiver = ctx.stopReceiver
  BY DEF Closed, IInv, Sound, Typed, Ctx, Status
<1>4. ctx' = ProcessQueue(c) BY DEF HandleClose
<1> HIDE DEF c
<1>5. Sound(c) BY <1>3 DEF IInv, Sound, Typed, Fresh, Meant
<1>6. /\ Sound(ctx') /\ SameLink(c, ctx') /\ Quiet(c, ctx')
      /\ ctx'.status \in {"CONNECTED", "LAUNCHED", "LAUNCHING"}
      /\ ctx'.waitId = 0 /\ ctx'.media => ctx'.queue = <<>>
      /\ c.stopReceiver /\ ctx'.waitId # 0 => Sent(ctx')
  BY <1>3, <1>4, <1>5, ProcessQueueWorks
<1>7. Clean(ctx') /\ NotLeft(ctx') BY <1>6 DEF Clean, NotLeft, QueueMoves
<1>8. AnswerMatches BY <1>3, <1>6 DEF AnswerMatches, Quiet
<1>9. QED BY <1>1, <1>2, <1>3, <1>6, <1>7, <1>8, HandledKeeps DEF SameLink

LEMMA HandlePongKeeps ==
  ASSUME IInv, HandlePong
  PROVE  Kept
<1>1. /\ sock = "handle" /\ UNCHANGED <<caller, events, crashed>>
      /\ \E b \in BOOLEAN : Finish(b)
  BY DEF HandlePong, Running
<1>2. crashed' \in BOOLEAN BY <1>1 DEF IInv, TypeOK
<1>3. ~IsAck(ctx, inHand) BY DEF HandlePong, IInv, HandMeant, IsAck
<1>4. Called(ctx, ctx')
  <2>1. CASE ctx.status = "AUTOLAUNCH"
    <3>1. ctx' = Launch(ctx) BY <2>1 DEF HandlePong, Ponged
    <3>2. QED BY <2>1, <3>1, LaunchCalled DEF IInv
  <2>2. CASE ctx.status = "CONNECTING"
    <3>1. ctx' = [ctx EXCEPT !.status = "CONNECTED"]
      BY <2>2 DEF HandlePong, Ponged
    <3>2. QED BY <3>1, ConnectedCalled DEF IInv
  <2>3. CASE ctx.status \notin {"AUTOLAUNCH", "CONNECTING"}
    <3>1. ctx' = ctx BY <2>3 DEF HandlePong, Ponged
    <3>2. QED BY <3>1, NothingCalled DEF IInv
  <2>4. QED BY <2>1, <2>2, <2>3
<1>5. ctx'.waitId = ctx.waitId \/ Sent(ctx') BY <1>4 DEF Quiet, Called
<1>6. ctx.stopReceiver /\ ctx'.waitId # 0 => Sent(ctx')
  <2>1. CASE ctx'.waitId = ctx.waitId
    BY <1>1, <1>3, <1>4, <2>1, NoAckKeeps DEF Quiet, Called, SameLink, Sent
  <2>2. QED BY <1>5, <2>1
<1>7. AnswerMatches BY <1>4 DEF AnswerMatches, Called, Quiet
<1>8. QED BY <1>1, <1>2, <1>4, <1>6, <1>7, HandledKeeps DEF Called, SameLink

LEMMA HandlePingKeeps ==
  ASSUME IInv, HandlePing
  PROVE  Kept
<1>1. /\ sock = "handle" /\ UNCHANGED <<ctx, caller, events, crashed>>
      /\ \E b \in BOOLEAN : Finish(b)
  BY DEF HandlePing, Running
<1>2. ~IsAck(ctx, inHand) BY DEF HandlePing, IInv, HandMeant, IsAck
<1>3. ctx.stopReceiver /\ ctx.waitId # 0 => Sent(ctx) BY <1>1, <1>2, NoAckKeeps
<1>4. crashed' \in BOOLEAN BY <1>1 DEF IInv, TypeOK
<1>5. AnswerMatches BY <1>1 DEF AnswerMatches
<1>6. QED BY <1>1, <1>3, <1>4, <1>5, HandledKeeps DEF IInv

LEMMA AnswerMeans ==
  ASSUME NEW c, Sound(c), NEW m \in Answers(c)
  PROVE  /\ m \in Message
         /\ m.type \notin {"CLOSE", "PING", "PONG", "UNTYPED"}
         /\ \E r \in c.asked :
              /\ m.id = r.id /\ m.of = r.kind
              /\ m.type = "RECEIVER_STATUS" => r.kind \in PlatformKind
<1>1. PICK r \in c.asked :
        m \in [type : AnswerType(r.kind), id : {r.id}, ok : BOOLEAN, of : {r.kind}]
  BY DEF Answers
<1>2. r.id \in Nat /\ r.kind \in Kind BY DEF Sound, Typed, Ctx, Request
<1>3. /\ AnswerType(r.kind) \subseteq {"RECEIVER_STATUS", "MEDIA_STATUS", "ERROR"}
      /\ "RECEIVER_STATUS" \in AnswerType(r.kind) => r.kind \in PlatformKind
  <2>1. CASE r.kind \in PlatformKind
    <3>1. r.kind \notin MediaKind BY <2>1 DEF PlatformKind, MediaKind
    <3>2. QED BY <2>1, <3>1 DEF AnswerType
  <2>2. CASE r.kind \in MediaKind
    <3>1. r.kind \notin PlatformKind BY <2>2 DEF PlatformKind, MediaKind
    <3>2. QED BY <2>2, <3>1 DEF AnswerType
  <2>3. QED BY <1>2, <2>1, <2>2 DEF Kind
<1>4. m \in Message
  BY <1>1, <1>2, <1>3 DEF Message, MessageType
<1>5. QED BY <1>1, <1>3, <1>4

LEMMA SocketReadKeeps ==
  ASSUME IInv, SocketRead
  PROVE  Kept
<1>1. PICK m \in Answers(ctx) \cup Unsolicited :
        /\ IF m.type = "UNTYPED" THEN sock' = "forward" /\ UNCHANGED inHand
           ELSE sock' = "handle" /\ inHand' = m
        /\ ctx' = [ctx EXCEPT !.asked = {r \in ctx.asked : r.id # m.id}]
  BY DEF SocketRead
<1>2. sock = "read" /\ stale' = FALSE /\ UNCHANGED <<caller, events, crashed>>
  BY DEF SocketRead, Running
<1>3. /\ ctx' \in Ctx /\ ctx'.reqId = ctx.reqId /\ ctx'.status = ctx.status
      /\ ctx'.waitId = ctx.waitId /\ ctx'.waitMedia = ctx.waitMedia
      /\ ctx'.media = ctx.media /\ ctx'.session = ctx.session
      /\ ctx'.queue = ctx.queue /\ ctx'.ssl = ctx.ssl
      /\ ctx'.stopReceiver = ctx.stopReceiver
      /\ ctx'.asked = {r \in ctx.asked : r.id # m.id}
  <2> DEFINE R == {r \in ctx.asked : r.id # m.id}
  <2>1. R \in SUBSET Request BY DEF IInv, TypeOK, Ctx
  <2>2. ctx' = [ctx EXCEPT !.asked = R] BY <1>1
  <2> HIDE DEF R
  <2>3. /\ ctx' \in Ctx /\ ctx'.reqId = ctx.reqId /\ ctx'.status = ctx.status
        /\ ctx'.waitId = ctx.waitId /\ ctx'.waitMedia = ctx.waitMedia
        /\ ctx'.media = ctx.media /\ ctx'.session = ctx.session
        /\ ctx'.queue = ctx.queue /\ ctx'.ssl = ctx.ssl
        /\ ctx'.stopReceiver = ctx.stopReceiver
        /\ ctx'.asked = R
    BY <2>1, <2>2 DEF IInv, TypeOK, Ctx
  <2>4. QED BY <2>3 DEF R
<1>4. /\ Sound(ctx') /\ Clean(ctx') /\ NotLeft(ctx')
  BY <1>3 DEF IInv, Sound, Typed, Fresh, Meant, Clean, NotLeft, QueueMoves
<1>0. AnswerMatches BY <1>3 DEF AnswerMatches
<1>5. CASE m \in Answers(ctx)
  <2>1. PICK r \in ctx.asked :
          /\ m.id = r.id /\ m.of = r.kind
          /\ m.type = "RECEIVER_STATUS" => r.kind \in PlatformKind
    BY <1>5, AnswerMeans DEF IInv
  <2>2. m \in Message /\ m.type \notin {"CLOSE", "PING", "PONG", "UNTYPED"}
    BY <1>5, AnswerMeans DEF IInv
  <2>3. sock' = "handle" /\ inHand' = m BY <1>1, <2>2
  <2>4. TypeOK' BY <1>2, <1>3, <2>2, <2>3 DEF IInv, TypeOK
  <2>5. WaitIsAnswerable'
    BY <1>2, <1>3, <2>3 DEF IInv, WaitIsAnswerable
  <2>6. HandMeant'
    BY <1>3, <2>1, <2>2, <2>3 DEF IInv, HandMeant, Sound, Fresh, Meant
  <2>7. QED BY <1>4, <1>0, <2>4, <2>5, <2>6 DEF IInv, Kept
<1>6. CASE m \in Unsolicited
  <2>1. m.id = 0 /\ m \in Message
    BY <1>6, 0 \in Nat, FALSE \in BOOLEAN DEF Unsolicited, Message
  <2>2. \/ sock' = "forward" /\ inHand' = inHand
        \/ sock' = "handle" /\ inHand' = m
    BY <1>1
  <2>3. TypeOK' BY <1>2, <1>3, <2>1, <2>2 DEF IInv, TypeOK
  <2>4. WaitIsAnswerable'
    BY <1>2, <1>3, <2>1 DEF IInv, WaitIsAnswerable
  <2>5. ctx.reqId > 0 BY DEF IInv, Sound, Typed
  <2>6. HandMeant'
    BY <1>3, <2>1, <2>2, <2>5 DEF IInv, HandMeant
  <2>7. QED BY <1>4, <1>0, <2>3, <2>4, <2>6 DEF IInv, Kept
<1>7. QED BY <1>5, <1>6

LEMMA PeerClosesKeeps ==
  ASSUME IInv, PeerCloses
  PROVE  Kept
<1>1. ctx' = [ctx EXCEPT !.ssl = FALSE, !.asked = {}]
  BY DEF PeerCloses
<1>2. UNCHANGED <<sock, inHand, stale, caller, events, crashed>>
  BY DEF PeerCloses, Running
<1>3. /\ ctx' \in Ctx /\ ctx'.reqId = ctx.reqId /\ ctx'.status = ctx.status
      /\ ctx'.waitId = ctx.waitId /\ ctx'.waitMedia = ctx.waitMedia
      /\ ctx'.media = ctx.media /\ ctx'.session = ctx.session
      /\ ctx'.queue = ctx.queue /\ ~ctx'.ssl /\ ctx'.asked = {}
  BY <1>1 DEF IInv, TypeOK, Ctx
<1>4. Sound(ctx') /\ Clean(ctx') /\ NotLeft(ctx')
  BY <1>3 DEF IInv, Sound, Typed, Fresh, Meant, Clean, NotLeft, QueueMoves
<1>5. TypeOK' BY <1>2, <1>3 DEF IInv, TypeOK
<1>6. WaitIsAnswerable' BY <1>3 DEF WaitIsAnswerable
<1>7. HandMeant' BY <1>2, <1>3 DEF IInv, HandMeant
<1>8. AnswerMatches BY <1>3 DEF AnswerMatches
<1>9. QED BY <1>4, <1>5, <1>6, <1>7, <1>8 DEF IInv, Kept

\* The steps of the socket thread that touch nothing under the Mutex.
LEMMA UntouchedKeeps ==
  ASSUME IInv, UNCHANGED ctx, TypeOK',
         \/ UNCHANGED <<sock, inHand, stale>>
         \/ sock # "handle" /\ sock' # "handle" /\ UNCHANGED inHand
  PROVE  Kept
BY DEF IInv, WaitIsAnswerable, HandMeant, Kept, AnswerMatches

-----------------------------------------------------------------------------
(* The caller                                                              *)

LEMMA SimpleKeeps ==
  ASSUME IInv, NEW c, Simple(c), Called(ctx, c)
  PROVE  Kept
<1>1. ctx' = c /\ UNCHANGED <<sock, inHand, stale, caller, events, crashed>>
  BY DEF Simple, Call, Running
<1>2. TypeOK' BY <1>1 DEF Quiet, IInv, TypeOK, Called, Sound, Typed
<1>3. QED BY <1>1, <1>2, CallKeeps

LEMMA CallerKeeps ==
  ASSUME IInv, Caller
  PROVE  Kept
<1>0. Sound(ctx) /\ Clean(ctx) /\ NotLeft(ctx) /\ TypeOK BY DEF IInv
<1>1. ASSUME CastPowerOn \/ CastLoadConnects PROVE Kept
  <2>1. /\ ctx' = CastConnect(ctx) /\ caller' \in {"idle", "launch", "load", "off"}
        /\ UNCHANGED <<sock, inHand, stale, events, crashed>>
    BY <1>0, <1>1 DEF CastPowerOn, CastLoadConnects, Call, Running, TypeOK
  <2>2. ctx' \in Ctx
    <3>1. "CONNECTING" \in Status BY DEF Status
    <3>2. QED BY <1>0, <2>1, <3>1 DEF CastConnect, TypeOK, Ctx
  <2>3. TypeOK' BY <1>0, <2>1, <2>2 DEF TypeOK
  <2>4. QED BY <2>1, <2>3, ConnectKeeps
<1>2. ASSUME CastLoadLaunches PROVE Kept
  <2>1. /\ ctx' = LaunchReceiver(ctx) /\ caller' = "load"
        /\ UNCHANGED <<sock, inHand, stale, events, crashed>>
    BY <1>2 DEF CastLoadLaunches, Call, Running
  <2>2. Called(ctx, ctx') BY <1>0, <2>1, LaunchReceiverCalled
  <2>3. TypeOK' BY <1>0, <2>1, <2>2 DEF Quiet, TypeOK, Called, Sound, Typed
  <2>4. QED BY <2>1, <2>2, <2>3, CallKeeps
<1>3. ASSUME CastLoadLoads PROVE Kept
  <2>1. /\ ctx' = IF LoadNow(ctx) THEN StartLoad(FlushIfLoading(ctx))
                  ELSE Enqueue(ctx, "LOAD")
        /\ caller' = "idle" /\ UNCHANGED <<sock, inHand, stale, events, crashed>>
    BY <1>3 DEF CastLoadLoads, Call, Running
  <2>2. Called(ctx, ctx') BY <1>0, <2>1, LoadCalled
  <2>3. TypeOK' BY <1>0, <2>1, <2>2 DEF Quiet, TypeOK, Called, Sound, Typed
  <2>4. QED BY <2>1, <2>2, <2>3, CallKeeps
<1>4. ASSUME CastPlay \/ CastSimple PROVE Kept
  BY <1>0, <1>4, CommandCalled, SimpleKeeps DEF CastPlay, CastSimple
<1>5. ASSUME CastStop PROVE Kept
  BY <1>0, <1>5, StoppedCalled, SimpleKeeps DEF CastStop
<1>6. ASSUME CastRelease PROVE Kept
  BY <1>0, <1>6, ReleasedCalled, SimpleKeeps DEF CastRelease
<1>7. ASSUME CastPowerOffReleases PROVE Kept
  <2>1. /\ ctx' = Released(ctx) /\ caller' = "off"
        /\ UNCHANGED <<sock, inHand, stale, events, crashed>>
    BY <1>7 DEF CastPowerOffReleases, Call, Running
  <2>2. Called(ctx, ctx') BY <1>0, <2>1, ReleasedCalled
  <2>3. TypeOK' BY <1>0, <2>1, <2>2 DEF Quiet, TypeOK, Called, Sound, Typed
  <2>4. QED BY <2>1, <2>2, <2>3, CallKeeps
<1>8. ASSUME CastPowerOffDisconnects PROVE Kept
  BY <1>8, DisconnectKeeps DEF CastPowerOffDisconnects, Call, Running
<1>9. ASSUME CastGetMediaStatus PROVE Kept
  <2>1. "GET_MEDIA" \in Kind BY DEF Kind, MediaKind
  <2>2. CASE ctx.media
    BY <1>0, <1>9, <2>1, <2>2, PostCalled, SimpleKeeps DEF CastGetMediaStatus
  <2>3. CASE ~ctx.media
    BY <1>0, <1>9, <2>3, NothingCalled, SimpleKeeps DEF CastGetMediaStatus
  <2>4. QED BY <2>2, <2>3
<1>10. ASSUME CastSetDeviceVolume PROVE Kept
  BY <1>0, <1>10, SetDeviceVolumeCalled, SimpleKeeps DEF CastSetDeviceVolume
<1>11. QED
  BY <1>1, <1>2, <1>3, <1>4, <1>5, <1>6, <1>7, <1>8, <1>9, <1>10 DEF Caller

-----------------------------------------------------------------------------
(* The theorems                                                            *)

LEMMA InitKeeps == Init => IInv
<1> SUFFICES ASSUME Init PROVE IInv OBVIOUS
<1>1. <<>> \in Seq(Item) /\ <<>> \in Seq(BOOLEAN) OBVIOUS
<1>2. /\ ctx \in Ctx /\ ctx.reqId = 1 /\ ctx.waitId = 0 /\ ctx.waitMedia = 0
      /\ ~ctx.media /\ ~ctx.session /\ ctx.asked = {}
      /\ ctx.status = "DISCONNECTED"
  BY <1>1 DEF Init, CreateCastDevice, Ctx, Status
<1>3. NoMessage \in Message /\ NoMessage.type = "UNTYPED"
  BY DEF NoMessage, Message, MessageType
<1>4. TypeOK BY <1>1, <1>2, <1>3 DEF Init, TypeOK
<1>5. Sound(ctx) /\ Clean(ctx) /\ NotLeft(ctx)
  BY <1>2 DEF Sound, Typed, Fresh, Meant, Clean, NotLeft, QueueMoves
<1>6. WaitIsAnswerable /\ HandMeant
  BY <1>2, <1>3 DEF Init, WaitIsAnswerable, HandMeant
<1>7. QED BY <1>4, <1>5, <1>6 DEF IInv

LEMMA SocketThreadKeeps ==
  ASSUME IInv, SocketThread
  PROVE  Kept
<1>1. ASSUME SocketPoll \/ SocketReadFails PROVE Kept
  <2>1. /\ sock # "handle" /\ sock' \in {"read", "drop"}
        /\ UNCHANGED <<ctx, inHand, stale, caller, events, crashed>>
    BY <1>1 DEF SocketPoll, SocketReadFails, Running
  <2>2. TypeOK' BY <2>1 DEF IInv, TypeOK
  <2>3. QED BY <2>1, <2>2, UntouchedKeeps
<1>2. ASSUME SocketRead PROVE Kept BY <1>2, SocketReadKeeps
<1>3. ASSUME SocketDrop PROVE Kept
  <2>1. caller \in {"idle", "launch", "load", "off"} BY DEF IInv, TypeOK
  <2>2. QED BY <1>3, <2>1, DisconnectKeeps DEF SocketDrop, Running
<1>4. ASSUME HandleClose PROVE Kept BY <1>4, HandleCloseKeeps
<1>5. ASSUME HandlePing PROVE Kept BY <1>5, HandlePingKeeps
<1>6. ASSUME HandlePong PROVE Kept BY <1>6, HandlePongKeeps
<1>7. ASSUME HandleReply PROVE Kept BY <1>7, HandleReplyKeeps
<1>8. ASSUME HandleCrashes PROVE Kept
  <2>1. /\ UNCHANGED <<ctx, sock, inHand, stale, caller, events>> /\ crashed' = TRUE
    BY <1>8 DEF HandleCrashes
  <2>2. TypeOK' BY <2>1 DEF IInv, TypeOK
  <2>3. QED BY <2>1, <2>2, UntouchedKeeps
<1>9. ASSUME Forward PROVE Kept
  <2>1. /\ sock = "forward" /\ sock' = "poll" /\ stale' = FALSE
        /\ events' = Append(events, stale)
        /\ UNCHANGED <<ctx, inHand, caller, crashed>>
    BY <1>9 DEF Forward, Running
  <2>2. \A q \in Seq(BOOLEAN), b \in BOOLEAN : Append(q, b) \in Seq(BOOLEAN)
    OBVIOUS
  <2>3. events' \in Seq(BOOLEAN)
    BY <2>1, <2>2, Zenon DEF IInv, TypeOK
  <2>4. TypeOK' BY <2>1, <2>3 DEF IInv, TypeOK
  <2>5. QED BY <2>1, <2>4, UntouchedKeeps
<1>10. QED
  BY <1>1, <1>2, <1>3, <1>4, <1>5, <1>6, <1>7, <1>8, <1>9 DEF SocketThread

LEMMA NextKeeps ==
  ASSUME IInv, [Next]_vars
  PROVE  Kept
<1>1. ASSUME GetTimedEvent PROVE Kept
  <2>1. /\ events # <<>> /\ events' = Tail(events)
        /\ UNCHANGED <<ctx, sock, inHand, stale, caller, crashed>>
    BY <1>1 DEF GetTimedEvent, Running
  <2>2. TypeOK' BY <2>1 DEF IInv, TypeOK
  <2>3. QED BY <2>1, <2>2, UntouchedKeeps
<1>2. ASSUME PingTimesOut \/ UpdateCastDevice PROVE Kept
  <2>1. /\ Disconnect /\ UNCHANGED <<sock, inHand, caller, crashed>>
    BY <1>2 DEF PingTimesOut, UpdateCastDevice, Running
  <2>2. caller' \in {"idle", "launch", "load", "off"} BY <2>1 DEF IInv, TypeOK
  <2>3. QED BY <2>1, <2>2, DisconnectKeeps
<1>3. ASSUME UNCHANGED vars PROVE Kept
  <2>1. TypeOK' BY <1>3 DEF IInv, TypeOK, vars
  <2>2. QED BY <1>3, <2>1, UntouchedKeeps DEF vars
<1>4. QED
  BY <1>1, <1>2, <1>3, SocketThreadKeeps, CallerKeeps, PeerClosesKeeps
     DEF Next, Halted

\* The invariant that the others follow from.
LEMMA Inductive == Spec => []IInv
<1>1. Init => IInv BY InitKeeps
<1>2. IInv /\ [Next]_vars => IInv' BY NextKeeps DEF Kept
<1>3. QED BY <1>1, <1>2, PTL DEF Spec

\* Every reachable context is well formed: the queue holds only items that
\* ProcessQueue knows, and every id and status is one the code uses.
THEOREM TypeCorrect == Spec => []TypeOK
<1>1. IInv => TypeOK BY DEF IInv
<1>2. QED BY <1>1, Inductive, PTL

\* reqId++ hands out every id once per connection: an acknowledgement names
\* one request.
THEOREM IdsFresh == Spec => []IdsAreFresh
<1>1. IInv => IdsAreFresh BY DEF IInv, Sound, Fresh, IdsAreFresh
<1>2. QED BY <1>1, Inductive, PTL

\* CastDisconnect leaves nothing to a later connection, not even through a
\* message that was read before it.
THEOREM CleanStart == Spec => []CleanUntilConnected
<1>1. IInv => CleanUntilConnected BY DEF IInv, Clean, CleanUntilConnected
<1>2. QED BY <1>1, Inductive, PTL

\* A pending LOAD and a usable media session exclude each other.
THEOREM SessionExclusive == Spec => []OneMediaSession
<1>1. IInv => OneMediaSession BY DEF IInv, Sound, OneMediaSession
<1>2. QED BY <1>1, Inductive, PTL

\* LAUNCHED is only reached, and kept, with sessionId and transportId.
THEOREM LaunchedTransport == Spec => []LaunchedHasTransport
<1>1. IInv => LaunchedHasTransport BY DEF IInv, Sound, LaunchedHasTransport
<1>2. QED BY <1>1, Inductive, PTL

\* Nothing of one session is taken for a part of another.
THEOREM SessionsApart == Spec => []SessionsDoNotMix
<1>1. Spec => []IdsAreFresh BY IdsFresh
<1>2. Spec => []CleanUntilConnected BY CleanStart
<1>3. Spec => []OneMediaSession BY SessionExclusive
<1>4. Spec => []LaunchedHasTransport BY LaunchedTransport
<1>5. IdsAreFresh /\ CleanUntilConnected /\ OneMediaSession /\ LaunchedHasTransport
      => SessionsDoNotMix
  BY DEF SessionsDoNotMix
<1>6. QED BY <1>1, <1>2, <1>3, <1>4, <1>5, PTL

\* With a media session, a queue that is not empty is held by an awaited
\* acknowledgement: ProcessQueue is never the call that was forgotten.
THEOREM NothingLeftBehind == Spec => []NoCommandLeftBehind
<1>1. IInv => NoCommandLeftBehind BY DEF IInv, NotLeft, NoCommandLeftBehind
<1>2. QED BY <1>1, Inductive, PTL

\* The acknowledgement the queue waits for belongs to a request that was sent
\* on the open connection.
THEOREM WaitAnswerable == Spec => []WaitIsAnswerable
<1>1. IInv => WaitIsAnswerable BY DEF IInv
<1>2. QED BY <1>1, Inductive, PTL

\* The receiver becomes LAUNCHED on the answer to a LAUNCH and gets a media
\* session from the answer to a LOAD, unless the answer is one that a closed
\* connection left in the socket thread's hands.
THEOREM AnswersMeant == Spec => AnswersMatch
<1>1. IInv /\ [Next]_vars => [AnswerMatches]_vars BY NextKeeps DEF Kept
<1>2. QED BY <1>1, Inductive, PTL DEF Spec, AnswersMatch

-----------------------------------------------------------------------------
(* Events of a closed connection                                           *)

\* While a message of a closed connection is in hand, eventQueue is as empty
\* as the disconnection left it: nobody else adds to it.
OneStale ==
  /\ stale => sock \in {"handle", "forward"} /\ events = <<>>
  /\ OneStaleEvent

\* A step that leaves the three variables alone.
LEMMA UntouchedOneStale ==
  ASSUME OneStale, sock' = sock, stale' = stale, events' = events
  PROVE  OneStale'
BY Zenon DEF OneStale, OneStaleEvent

\* A message is finished with.
LEMMA FinishOneStale ==
  ASSUME OneStale, NEW f, Finish(f), sock = "handle", UNCHANGED events
  PROVE  OneStale'
BY Zenon DEF OneStale, OneStaleEvent, Finish

\* A disconnection flushes what waits.
LEMMA DisconnectOneStale ==
  ASSUME TypeOK, OneStale, Disconnect,
         UNCHANGED sock \/ (sock = "drop" /\ sock' = "poll")
  PROVE  OneStale'
<1>1. CASE ctx.status = "DISCONNECTED"
  BY <1>1, Zenon DEF OneStale, OneStaleEvent, Disconnect
<1>2. CASE ctx.status # "DISCONNECTED"
  <2>1. events' = <<>> /\ stale' = (stale \/ sock \in {"handle", "forward"})
    BY <1>2 DEF Disconnect
  <2>2. OneStaleEvent' BY <2>1 DEF OneStaleEvent
  <2>3. stale' => sock' \in {"handle", "forward"}
    BY <2>1, Zenon DEF OneStale
  <2>4. QED BY <2>1, <2>2, <2>3, Zenon DEF OneStale
<1>3. QED BY <1>1, <1>2

\* Every step keeps OneStale.
LEMMA NextOneStale ==
  ASSUME TypeOK, OneStale, [Next]_vars
  PROVE  OneStale'
<1>1. ASSUME SocketThread PROVE OneStale'
  <2>1. ASSUME SocketPoll \/ SocketReadFails PROVE OneStale'
    <3>1. sock \in {"poll", "read"} /\ stale' = stale /\ events' = events
      BY <2>1 DEF SocketPoll, SocketReadFails
    <3>2. ~stale BY <3>1 DEF OneStale
    <3>3. QED BY <3>1, <3>2, Zenon DEF OneStale, OneStaleEvent
  <2>2. ASSUME SocketRead PROVE OneStale'
    <3>1. stale' = FALSE /\ UNCHANGED events BY <2>2 DEF SocketRead
    <3>2. QED BY <3>1, Zenon DEF OneStale, OneStaleEvent
  <2>3. ASSUME SocketDrop PROVE OneStale'
    BY <2>3, DisconnectOneStale DEF SocketDrop
  <2>4. ASSUME HandleClose PROVE OneStale'
    BY <2>4, FinishOneStale DEF HandleClose
  <2>5. ASSUME HandlePing PROVE OneStale'
    BY <2>5, FinishOneStale DEF HandlePing
  <2>6. ASSUME HandlePong PROVE OneStale'
    BY <2>6, FinishOneStale DEF HandlePong
  <2>7. ASSUME HandleReply PROVE OneStale'
    BY <2>7, FinishOneStale DEF HandleReply
  <2>8. ASSUME HandleCrashes PROVE OneStale'
    BY <2>8, Zenon DEF HandleCrashes, OneStale, OneStaleEvent
  <2>9. ASSUME Forward PROVE OneStale'
    <3>1. stale' = FALSE /\ events' = Append(events, stale)
      BY <2>9, Zenon DEF Forward
    <3>2. events \in Seq(BOOLEAN) /\ stale \in BOOLEAN BY DEF TypeOK
    <3>3. OneStaleEvent'
      <4>1. CASE stale
        <5>1. Len(events') = 1
          <6>1. events = <<>> BY <4>1, Zenon DEF OneStale
          <6>2. QED BY <3>1, <6>1
        <5>2. 1..Len(events') = {1} BY <5>1
        <5>3. QED BY <5>2, Zenon DEF OneStaleEvent
      <4>2. CASE ~stale
        <5> SUFFICES ASSUME NEW i \in 1..Len(events'), events'[i] PROVE i = 1
          BY DEF OneStaleEvent
        <5>1. \/ i \in 1..Len(events) /\ events'[i] = events[i]
              \/ events'[i] = stale
          <6>1. Len(events') = Len(events) + 1 /\ Len(events) \in Nat
            BY <3>1, <3>2
          <6>2. i \in 1..Len(events) \/ i = Len(events) + 1 BY <6>1
          <6>3. /\ \A j \in 1..Len(events) : events'[j] = events[j]
                /\ events'[Len(events) + 1] = stale
            <7>1. /\ \A j \in 1..Len(events) : Append(events, stale)[j] = events[j]
                  /\ Append(events, stale)[Len(events) + 1] = stale
              BY <3>2, AppendProperties, ZenonT(40)
            <7>2. events' = Append(events, stale) BY <3>1
            <7>3. QED BY <7>1, <7>2, Zenon
          <6>4. QED BY <6>2, <6>3, Zenon
        <5>2. QED BY <5>1, <4>2, Zenon DEF OneStale, OneStaleEvent
      <4>3. QED BY <4>1, <4>2
    <3>4. QED BY <3>1, <3>3, Zenon DEF OneStale
  <2>10. QED
    BY <1>1, <2>1, <2>2, <2>3, <2>4, <2>5, <2>6, <2>7, <2>8, <2>9
       DEF SocketThread
<1>2. ASSUME Caller PROVE OneStale'
  <2>1. ASSUME CastPowerOffDisconnects PROVE OneStale'
    BY <2>1, DisconnectOneStale DEF CastPowerOffDisconnects, Call
  <2>2. ASSUME Caller, ~CastPowerOffDisconnects
        PROVE  sock' = sock /\ stale' = stale /\ events' = events
    BY <2>2, Zenon DEF Caller, CastPowerOn, CastPowerOffReleases,
       CastLoadConnects, CastLoadLaunches, CastLoadLoads, CastPlay, CastSimple,
       CastStop, CastRelease, CastGetMediaStatus, CastSetDeviceVolume, Simple,
       Call
  <2>3. QED BY <1>2, <2>1, <2>2, UntouchedOneStale
<1>3. ASSUME GetTimedEvent PROVE OneStale'
  <2>1. /\ events # <<>> /\ events' = Tail(events)
        /\ UNCHANGED <<sock, stale>>
    BY <1>3 DEF GetTimedEvent
  <2>2. events \in Seq(BOOLEAN) BY DEF TypeOK
  <2>3. \A i \in 1..Len(events') : i + 1 \in 1..Len(events)
                                   /\ events'[i] = events[i + 1]
    BY <2>1, <2>2
  <2>4. \A i \in 1..Len(events') : i + 1 # 1 BY <2>1, <2>2
  <2>5. OneStaleEvent' BY <2>3, <2>4, Zenon DEF OneStale, OneStaleEvent
  <2>6. ~stale BY <2>1 DEF OneStale
  <2>7. QED BY <2>1, <2>5, <2>6, Zenon DEF OneStale
<1>4. ASSUME PingTimesOut \/ UpdateCastDevice PROVE OneStale'
  BY <1>4, DisconnectOneStale DEF PingTimesOut, UpdateCastDevice
<1>5. ASSUME PeerCloses \/ Halted \/ UNCHANGED vars PROVE OneStale'
  <2>1. sock' = sock /\ stale' = stale /\ events' = events
    BY <1>5 DEF PeerCloses, Halted, vars
  <2>2. QED BY <2>1, UntouchedOneStale
<1>6. QED BY <1>1, <1>2, <1>3, <1>4, <1>5 DEF Next

\* The player's thread sees at most one event of a connection that was closed,
\* and before any event of its successor, however often the device drops.
THEOREM StaleEventFirst == Spec => []OneStaleEvent
<1>1. Init => OneStale BY DEF Init, OneStale, OneStaleEvent
<1>2. TypeOK /\ OneStale /\ [Next]_vars => OneStale' BY NextOneStale
<1>3. OneStale => OneStaleEvent BY DEF OneStale
<1>4. QED BY <1>1, <1>2, <1>3, TypeCorrect, PTL DEF Spec

-----------------------------------------------------------------------------
(* The threads around a context: type correctness.  The age of the last    *)
(* PONG stays between a difference that wrapped and the first that is too  *)
(* large.                                                                  *)

\* The differences that are set and not counted.
LEMMA Ages == 0 \in -1..(PongLimit + 1) /\ -1 \in -1..(PongLimit + 1)
BY CastDeviceAssumption

\* A new context has the types.
LEMMA DeviceInitType == DeviceInit => DeviceTypeOK
BY Ages, Zenon DEF DeviceInit, DeviceTypeOK, Removal

\* The connection's part of TypeOK survives a disconnection.
LEMMA DropLinkType ==
  ASSUME DeviceTypeOK, DropLink
  PROVE  /\ up' \in BOOLEAN /\ ssl' \in BOOLEAN /\ mute' \in BOOLEAN
         /\ age' \in -1..(PongLimit + 1)
BY Zenon DEF DeviceTypeOK, DropLink

\* Every step keeps the types.
LEMMA DeviceNextType ==
  ASSUME DeviceTypeOK, [DeviceNext]_deviceVars
  PROVE  DeviceTypeOK'
<1> USE CastDeviceAssumption DEF DeviceTypeOK, Removal
<1>1. JustPonged \subseteq -1..(PongLimit + 1) BY DEF JustPonged
<1>2. ASSUME CastSocketThread PROVE DeviceTypeOK'
  <2>1. ASSUME SockStart PROVE DeviceTypeOK'
    BY <2>1 DEF SockStart, Start, Deleting, link
  <2>2. ASSUME SockExit \/ SockEnter \/ SockRead \/ SockReadFails PROVE DeviceTypeOK'
    BY <2>2 DEF SockExit, SockEnter, SockRead, SockReadFails, Sock, link
  <2>3. ASSUME SockDrop PROVE DeviceTypeOK' BY ZenonT(40), <2>3 DEF SockDrop, Sock, DropLink
  <2>4. ASSUME SockPong PROVE DeviceTypeOK' BY <1>1, <2>4 DEF SockPong, Sock
  <2>5. ASSUME SockClose PROVE DeviceTypeOK' BY <2>5 DEF SockClose, Sock
  <2>6. QED BY <1>2, <2>1, <2>2, <2>3, <2>4, <2>5 DEF CastSocketThread
<1>3. ASSUME CastPingThread PROVE DeviceTypeOK'
  <2>1. ASSUME PingStart PROVE DeviceTypeOK'
    BY <2>1 DEF PingStart, Start, Deleting, link
  <2>2. ASSUME PingExit PROVE DeviceTypeOK' BY <2>2 DEF PingExit, Ping, link
  <2>3. ASSUME PingArm PROVE DeviceTypeOK' BY <2>3 DEF PingArm, Ping
  <2>4. ASSUME PingLocked PROVE DeviceTypeOK'
    <3>1. CASE DropLink BY <2>4, <3>1, DropLinkType DEF PingLocked, Ping
    <3>2. CASE UNCHANGED link BY <2>4, <3>2 DEF PingLocked, Ping, link
    <3>3. QED BY <2>4, <3>1, <3>2, Zenon DEF PingLocked
  <2>5. QED BY <1>3, <2>1, <2>2, <2>3, <2>4 DEF CastPingThread
<1>4. ASSUME MRThread PROVE DeviceTypeOK'
  BY <1>4 DEF MRThread, MrExit, MrWaits, MrWakes, MrLeaves, MrWorked, Mr, link
<1>5. ASSUME RemoverClears \/ Remover PROVE DeviceTypeOK'
  BY ZenonT(40), <1>5 DEF RemoverClears, Remover, DeleteStops, DeleteDisconnects,
     DeleteJoinsPing, DeleteJoinsSock, DeleteFrees, RemoverJoinsMr,
     Remove, DropLink, link, threads
<1>6. ASSUME \/ CallerConnects \/ CallerDisconnects
             \/ LinkBreaks \/ PeerFallsSilent
      PROVE  DeviceTypeOK'
  <2>1. ASSUME CallerConnects PROVE DeviceTypeOK'
    BY ZenonT(40), <1>1, <2>1 DEF CallerConnects, threads
  <2>2. ASSUME CallerDisconnects PROVE DeviceTypeOK'
    BY <2>2, DropLinkType DEF CallerDisconnects, threads
  <2>3. ASSUME LinkBreaks PROVE DeviceTypeOK'
    <3>1. up' \in BOOLEAN /\ ssl' \in BOOLEAN /\ mute' \in BOOLEAN
      BY <2>3, Zenon DEF LinkBreaks
    <3>2. UNCHANGED <<running, mrRunning, threads, remover, revived, age>>
      BY <2>3, Zenon DEF LinkBreaks
    <3>3. QED BY <3>1, <3>2 DEF threads
  <2>4. ASSUME PeerFallsSilent PROVE DeviceTypeOK'
    BY <2>4 DEF PeerFallsSilent, threads
  <2>5. QED BY <1>6, <2>1, <2>2, <2>3, <2>4
<1>7. ASSUME UNCHANGED deviceVars PROVE DeviceTypeOK' BY <1>7 DEF deviceVars, threads, link
<1>8. QED BY <1>2, <1>3, <1>4, <1>5, <1>6, <1>7 DEF DeviceNext

\* Program counters and progress stay within the steps the code has, and the
\* age of the last PONG is bounded by the limit: the ping thread acts on the
\* first round past it.
THEOREM DeviceTypeCorrect == DeviceSpec => []DeviceTypeOK
<1>1. DeviceInit => DeviceTypeOK BY DeviceInitType
<1>2. DeviceTypeOK /\ [DeviceNext]_deviceVars => DeviceTypeOK' BY DeviceNextType
<1>3. QED BY <1>1, <1>2, PTL DEF DeviceSpec

-----------------------------------------------------------------------------
(* The context outlives its own threads                                    *)

\* A join that returned found its thread ended, and a thread that ended does
\* not start again.
Joined ==
  /\ remover \in {"pingJoined", "sockJoined", "freed", "removed"} => ping = "exit"
  /\ remover \in {"sockJoined", "freed", "removed"} => socket = "exit"

\* No step undoes a join.
LEMMA NextJoined ==
  ASSUME Joined, [DeviceNext]_deviceVars
  PROVE  Joined'
<1> USE DEF Joined
<1>1. ASSUME CastSocketThread PROVE Joined'
  BY <1>1 DEF CastSocketThread, SockStart, SockExit, SockEnter, SockRead,
     SockReadFails, SockDrop, SockPong, SockClose, Sock
<1>2. ASSUME CastPingThread PROVE Joined'
  BY <1>2 DEF CastPingThread, PingStart, PingExit, PingArm, PingLocked, Ping
<1>3. ASSUME MRThread PROVE Joined'
  BY <1>3 DEF MRThread, MrExit, MrWaits, MrWakes, MrLeaves, MrWorked, Mr
<1>4. ASSUME RemoverClears \/ Remover PROVE Joined'
  BY <1>4 DEF RemoverClears, Remover, DeleteStops, DeleteDisconnects,
     DeleteJoinsPing, DeleteJoinsSock, DeleteFrees, RemoverJoinsMr,
     Remove, threads
<1>5. ASSUME \/ CallerConnects \/ CallerDisconnects
             \/ LinkBreaks \/ PeerFallsSilent
      PROVE  Joined'
  BY <1>5 DEF CallerConnects, CallerDisconnects, LinkBreaks,
     PeerFallsSilent, threads
<1>6. ASSUME UNCHANGED deviceVars PROVE Joined' BY <1>6 DEF deviceVars, threads
<1>7. QED BY <1>1, <1>2, <1>3, <1>4, <1>5, <1>6 DEF DeviceNext

\* DeleteCastDevice frees the context after both of its threads, however late
\* they started and whatever they were doing.
THEOREM FreedSafely == DeviceSpec => []FreedAfterThreads
<1>1. DeviceInit => Joined BY DEF DeviceInit, Joined
<1>2. Joined /\ [DeviceNext]_deviceVars => Joined' BY NextJoined
<1>3. Joined => FreedAfterThreads BY DEF Joined, FreedAfterThreads, Freed
<1>4. QED BY <1>1, <1>2, <1>3, PTL DEF DeviceSpec
=============================================================================
