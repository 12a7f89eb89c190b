------------------------------ MODULE CastCore ------------------------------
(***************************************************************************)
(* The Cast V2 client of one device: squeeze2cast/castcore.c (connection,  *)
(* request queue, socket thread, ping thread) and cast_util.c (the         *)
(* operations the player manager calls).                                   *)
(*                                                                         *)
(* Everything tCastCtx protects with its Mutex is the record ctx, and one  *)
(* critical section of the code is one action.  What a thread holds        *)
(* between two critical sections is a variable of its own: the socket      *)
(* thread reads a message and forwards an event outside the Mutex, and     *)
(* CastLoad and CastPowerOff are several critical sections.  The ping      *)
(* thread may disconnect at any time here; CastDevice models when it does.   *)
(*                                                                         *)
(* The receiver is external: it may answer any request it was sent, in any *)
(* order or never, send unsolicited messages, fall silent or close.        *)
(***************************************************************************)
EXTENDS Integers, Sequences, FiniteSets

CONSTANTS
  MaxReq,        \* bound: request ids one connection may use
  MaxQueue,      \* bound: items waiting in reqQueue when a caller adds one
  MaxEvents      \* bound: events waiting in eventQueue

ASSUME CastCoreAssumption ==
  /\ MaxReq \in Nat /\ MaxQueue \in Nat /\ MaxEvents \in Nat

VARIABLES
  ctx,      \* the fields of tCastCtx that Mutex protects
  sock,     \* where the socket thread is in its loop
  inHand,   \* the message it has read and not finished with
  stale,    \* history: inHand was read on a connection closed since
  caller,   \* where the (single) caller of the API is in a compound call
  events,   \* eventQueue; of an event, whether it was stale
  crashed   \* an uninitialised pointer was followed

vars == <<ctx, sock, inHand, stale, caller, events, crashed>>

-----------------------------------------------------------------------------
(* Types *)

Status == {"DISCONNECTED", "CONNECTING", "CONNECTED", "AUTOLAUNCH",
           "LAUNCHING", "LAUNCHED"}

\* tReqItem.Type; SET_VOLUME is split by whether item->data.volume is zero.
Item == {"LAUNCH", "LOAD", "PLAY", "PAUSE", "STOP", "VOLUME", "MUTE"}

PlatformKind == {"LAUNCH", "STOP_RECEIVER", "SET_VOLUME"}
MediaKind    == {"LOAD", "PLAY", "PAUSE", "STOP_MEDIA", "MEDIA_VOLUME",
                 "GET_MEDIA"}

Kind == PlatformKind \cup MediaKind

\* A request on the wire.
Request == [id : Nat, kind : Kind]

\* A message from the receiver.  ok: a RECEIVER_STATUS lists our application,
\* a MEDIA_STATUS carries a media session id that is not zero.  of: what was
\* asked (history; the code only sees the id).
MessageType == {"RECEIVER_STATUS", "MEDIA_STATUS", "ERROR", "CLOSE", "PING",
                "PONG", "UNTYPED"}
Message   == [type : MessageType, id : Nat, ok : BOOLEAN,
              of   : Kind \cup {"nothing"}]
NoMessage == [type |-> "UNTYPED", id |-> 0, ok |-> FALSE, of |-> "nothing"]

Ctx == [status       : Status,
        stopReceiver : BOOLEAN,         \* STOP ends the receiver application
        reqId        : Nat,
        waitId       : Nat,
        waitMedia    : Nat,
        media        : BOOLEAN,         \* mediaSessionId # 0
        session      : BOOLEAN,         \* sessionId and transportId are known
        queue        : Seq(Item),       \* reqQueue
        ssl          : BOOLEAN,         \* the SSL connection is open
        asked        : SUBSET Request]  \* sent on it and not answered

-----------------------------------------------------------------------------
(* Sending.  SendCastMessage on a closed connection fails, and no caller   *)
(* looks at its result.                                                    *)

\* Send a request under the next id (Ctx->reqId++).
Post(c, kind) ==
  [c EXCEPT !.reqId = c.reqId + 1,
            !.asked = IF c.ssl
                      THEN c.asked \cup {[id |-> c.reqId, kind |-> kind]}
                      ELSE c.asked]

\* Send a request and hold the queue until it is acknowledged.
Await(c, kind) == [Post(c, kind) EXCEPT !.waitId = c.reqId]

\* A zero volume mutes; any other is a level, then a separate unmute.
PostVolume(c, item) ==
  IF item = "MUTE" THEN Post(c, "SET_VOLUME")
  ELSE Post(Post(c, "SET_VOLUME"), "SET_VOLUME")

Launch(c) == [Await(c, "LAUNCH") EXCEPT !.status = "LAUNCHING"]

StartLoad(c) ==
  [Await(c, "LOAD") EXCEPT !.waitMedia = c.reqId, !.media = FALSE]

\* STOP ends the receiver application or the media session.
SendStop(c) ==
  LET a == IF c.stopReceiver
           THEN Await([c EXCEPT !.status = "CONNECTED"], "STOP_RECEIVER")
           ELSE Await(c, "STOP_MEDIA")
  IN  [a EXCEPT !.media = FALSE]

Enqueue(c, item) == [c EXCEPT !.queue = Append(c.queue, item)]

-----------------------------------------------------------------------------
(* ProcessQueue: exactly one item is taken.                                *)

\* Fault: a queued STOP only counts as sent when there is a media session.
PerformStop_Silent(c) ==
  IF c.media THEN SendStop(c)
  ELSE [c EXCEPT !.waitId = c.reqId, !.reqId = c.reqId + 1]

\* A queued STOP takes a waitId even when there is nothing to send.
PerformStop(c) ==
  IF c.stopReceiver \/ c.media THEN SendStop(c)
  ELSE [c EXCEPT !.waitId = c.reqId, !.reqId = c.reqId + 1]

PerformVolume(c, item) ==
  LET v == PostVolume(c, item) IN [v EXCEPT !.waitId = v.reqId - 1]

\* A queued PAUSE goes out as PLAY; without a media session it is dropped.
PerformPlay(c) == IF c.media THEN Await(c, "PLAY") ELSE c

Perform(c, item) ==
  CASE item = "LAUNCH"             -> Launch(c)
    [] item = "LOAD"               -> StartLoad(c)
    [] item = "STOP"               -> PerformStop(c)
    [] item \in {"PLAY", "PAUSE"}  -> PerformPlay(c)
    [] item \in {"VOLUME", "MUTE"} -> PerformVolume(c, item)

ProcessQueue(c) ==
  IF c.queue = <<>> THEN c
  ELSE Perform([c EXCEPT !.queue = Tail(c.queue)], Head(c.queue))

\* Taking a PAUSE item reads item->data.customData, which CastSimple never
\* wrote: with a garbage pointer the process dies.
ReadsGarbage(c) == c.queue # <<>> /\ Head(c.queue) = "PAUSE"

-----------------------------------------------------------------------------
(* Connection                                                              *)

\* CastConnect when the connection opens, or when there is one already.
CastConnect(c) ==
  IF c.status = "DISCONNECTED"
  THEN [c EXCEPT !.status = "CONNECTING", !.ssl = TRUE, !.asked = {}]
  ELSE c

CastDisconnect(c) ==
  IF c.status = "DISCONNECTED" THEN c
  ELSE [c EXCEPT !.status = "DISCONNECTED", !.reqId = 1, !.waitId = 0,
                 !.waitMedia = 0, !.media = FALSE, !.session = FALSE,
                 !.queue = <<>>, !.ssl = FALSE, !.asked = {}]

\* Fault: the events that wait are kept.
Disconnect_KeepsEvents ==
  /\ ctx' = CastDisconnect(ctx)
  /\ UNCHANGED events
  /\ IF ctx.status = "DISCONNECTED" THEN UNCHANGED stale
     ELSE stale' = (stale \/ sock \in {"handle", "forward"})

\* The locked part of CastDisconnect and what it does to the other threads'
\* data: eventQueue is flushed, a message already read is not.
Disconnect ==
  /\ ctx' = CastDisconnect(ctx)
  /\ IF ctx.status = "DISCONNECTED"
     THEN UNCHANGED <<events, stale>>
     ELSE events' = <<>> /\ stale' = (stale \/ sock \in {"handle", "forward"})

\* The switch of LaunchReceiver.
LaunchReceiver(c) ==
  CASE c.status = "CONNECTING"                  -> [c EXCEPT !.status = "AUTOLAUNCH"]
    [] c.status = "CONNECTED" /\ c.waitId = 0   -> Launch(c)
    [] c.status = "CONNECTED" /\ c.waitId # 0   -> Enqueue(c, "LAUNCH")
    [] c.status \notin {"CONNECTING", "CONNECTED"} -> c

-----------------------------------------------------------------------------
(* The socket thread                                                       *)

\* What the acknowledged request was waiting for, before the queue moves on.
Acquire(c, m) ==
  IF m.type = "RECEIVER_STATUS" /\ c.status = "LAUNCHING"
  THEN [c EXCEPT !.waitId = 0, !.session = m.ok,
                 !.status = IF m.ok THEN "LAUNCHED" ELSE "LAUNCHING"]
  ELSE IF m.type = "MEDIA_STATUS" /\ c.waitMedia = m.id /\ m.ok
  THEN Await([c EXCEPT !.waitId = 0, !.waitMedia = 0, !.media = TRUE],
             "MEDIA_VOLUME")
  ELSE [c EXCEPT !.waitId = 0]

IsAck(c, m) == c.waitId # 0 /\ c.waitId = m.id

QueueMoves(c) == c.waitId = 0 /\ c.status = "LAUNCHED"

\* Fault: the queue only moves on after a LOAD's media session is known.
Acknowledge_Stalls(c, m) ==
  LET a == Acquire(c, m)
  IN  IF QueueMoves(a) /\ m.type = "MEDIA_STATUS" /\ ~a.media
      THEN ProcessQueue(a) ELSE a

Acknowledge(c, m) ==
  LET a == Acquire(c, m) IN IF QueueMoves(a) THEN ProcessQueue(a) ELSE a

\* Acknowledgements the thread keeps for itself.
Swallowed(c, m) ==
  /\ IsAck(c, m)
  /\ \/ m.type = "RECEIVER_STATUS" /\ c.status = "LAUNCHING"
     \/ m.type = "MEDIA_STATUS" /\ c.waitMedia = m.id

\* CLOSE: back to CONNECTED whatever the status was.
Closed(c) == [c EXCEPT !.status = "CONNECTED", !.waitId = 0]

Ponged(c) ==
  CASE c.status = "AUTOLAUNCH" -> Launch(c)
    [] c.status = "CONNECTING" -> [c EXCEPT !.status = "CONNECTED"]
    [] c.status \notin {"AUTOLAUNCH", "CONNECTING"} -> c

\* External: the answers a request can get.
AnswerType(kind) ==
  CASE kind \in PlatformKind -> {"RECEIVER_STATUS", "ERROR"}
    [] kind \in MediaKind    -> {"MEDIA_STATUS", "ERROR"}

Answers(c) ==
  UNION {{m \in [type : AnswerType(r.kind), id : {r.id}, ok : BOOLEAN,
                 of   : {r.kind}] : m.type = "ERROR" => ~m.ok} : r \in c.asked}

\* External: messages nobody asked for (a PONG answers a ping).  Without an
\* id to match, what a status carries is not looked at.
Unsolicited ==
  [type : MessageType \ {"ERROR"}, id : {0}, ok : {FALSE}, of : {"nothing"}]

Running == ~crashed /\ UNCHANGED crashed

\* The loop head reads Status without the Mutex.
SocketPoll ==
  /\ Running
  /\ sock = "poll" /\ ctx.status # "DISCONNECTED"
  /\ sock' = "read"
  /\ UNCHANGED <<ctx, inHand, stale, caller, events>>

\* GetNextMessage succeeds.
SocketRead ==
  /\ Running
  /\ sock = "read" /\ ctx.ssl
  /\ \E m \in Answers(ctx) \cup Unsolicited :
       /\ IF m.type = "UNTYPED" THEN sock' = "forward" /\ UNCHANGED inHand
          ELSE sock' = "handle" /\ inHand' = m
       /\ ctx' = [ctx EXCEPT !.asked = {r \in ctx.asked : r.id # m.id}]
  /\ stale' = FALSE
  /\ UNCHANGED <<caller, events>>

\* GetNextMessage fails; CastDisconnect takes the Mutex only afterwards.
SocketReadFails ==
  /\ Running
  /\ sock = "read" /\ ~ctx.ssl
  /\ sock' = "drop"
  /\ UNCHANGED <<ctx, inHand, stale, caller, events>>

SocketDrop ==
  /\ Running
  /\ sock = "drop" /\ sock' = "poll"
  /\ Disconnect
  /\ UNCHANGED <<inHand, caller>>

\* The message is done with: the event is to be forwarded, or nothing is left.
Finish(forward) ==
  /\ inHand' = NoMessage
  /\ IF forward THEN sock' = "forward" /\ UNCHANGED stale
     ELSE sock' = "poll" /\ stale' = FALSE

HandleClose ==
  /\ Running
  /\ sock = "handle" /\ inHand.type = "CLOSE"
  /\ ctx' = ProcessQueue(Closed(ctx))
  /\ Finish(~ctx.stopReceiver)
  /\ UNCHANGED <<caller, events>>

HandlePing ==
  /\ Running
  /\ sock = "handle" /\ inHand.type = "PING"
  /\ Finish(FALSE)
  /\ UNCHANGED <<ctx, caller, events>>

HandlePong ==
  /\ Running
  /\ sock = "handle" /\ inHand.type = "PONG"
  /\ ctx' = Ponged(ctx)
  /\ Finish(FALSE)
  /\ UNCHANGED <<caller, events>>

HandleReply ==
  /\ Running
  /\ sock = "handle"
  /\ inHand.type \in {"RECEIVER_STATUS", "MEDIA_STATUS", "ERROR"}
  /\ ctx' = IF IsAck(ctx, inHand) THEN Acknowledge(ctx, inHand) ELSE ctx
  /\ Finish(~Swallowed(ctx, inHand))
  /\ UNCHANGED <<caller, events>>

\* ProcessQueue follows the garbage pointer of a queued PAUSE: one of the
\* outcomes is the end of the process (the other ones go on as HandleClose
\* and HandleReply say, with memory that happened to be zero).
HandleCrashes ==
  /\ sock = "handle"
  /\ \/ /\ inHand.type = "CLOSE" /\ ReadsGarbage(ctx)
     \/ /\ IsAck(ctx, inHand) /\ QueueMoves(Acquire(ctx, inHand))
        /\ ReadsGarbage(ctx)
  /\ ~crashed /\ crashed' = TRUE
  /\ UNCHANGED <<ctx, sock, inHand, stale, caller, events>>

\* Outside Mutex, under eventMutex.
Forward ==
  /\ Running
  /\ sock = "forward" /\ Len(events) < MaxEvents
  /\ events' = Append(events, stale)
  /\ sock' = "poll" /\ stale' = FALSE
  /\ UNCHANGED <<ctx, inHand, caller>>

-----------------------------------------------------------------------------
(* The ping thread and the discovery thread                                *)

\* CastPingThread finds no response.
PingTimesOut ==
  /\ Running
  /\ Disconnect
  /\ UNCHANGED <<sock, inHand, caller>>

\* The address changed.
UpdateCastDevice ==
  /\ Running
  /\ Disconnect
  /\ UNCHANGED <<sock, inHand, caller>>

-----------------------------------------------------------------------------
(* The API.  Its callers hold the player's mutex, so there is one at a     *)
(* time.                                                                   *)

\* The ids a context may still use up without any further call.
Owed(c) == 2 * Len(c.queue)
         + (IF c.waitMedia # 0 THEN 1 ELSE 0)
         + (IF c.status = "AUTOLAUNCH" THEN 1 ELSE 0)

\* The bound on ids and on the queue, for actions that add to them.
RoomFor(c) == c.reqId + Owed(c) + 3 <= MaxReq /\ Len(c.queue) < MaxQueue

Call(from) ==
  /\ Running /\ caller = from
  /\ UNCHANGED <<sock, inHand>>

\* A call that is one critical section and neither connects nor disconnects.
Simple(c) ==
  /\ Call("idle")
  /\ ctx' = c
  /\ UNCHANGED <<stale, caller, events>>

CastPowerOn ==
  /\ Call("idle")
  /\ ctx' = CastConnect(ctx)
  /\ UNCHANGED <<stale, caller, events>>

\* A failing CastConnect changes nothing.  CastLoad goes on after a success.
CastLoadConnects ==
  /\ Call("idle") /\ RoomFor(ctx)
  /\ ctx' = CastConnect(ctx)
  /\ caller' = "launch"
  /\ UNCHANGED <<stale, events>>

CastLoadLaunches ==
  /\ Call("launch")
  /\ ctx' = LaunchReceiver(ctx)
  /\ caller' = "load"
  /\ UNCHANGED <<stale, events>>

\* A LOAD takes the place of a LOAD the receiver has not acknowledged.
LoadNow(c) == c.status = "LAUNCHED" /\ (c.waitId = 0 \/ c.waitMedia # 0)

FlushIfLoading(c) ==
  IF c.waitMedia # 0 THEN [c EXCEPT !.queue = <<>>] ELSE c

CastLoadLoads ==
  /\ Call("load")
  /\ ctx' = IF LoadNow(ctx) THEN StartLoad(FlushIfLoading(ctx))
            ELSE Enqueue(ctx, "LOAD")
  /\ caller' = "idle"
  /\ UNCHANGED <<stale, events>>

\* CastPlay and CastSimple: a command that needs a media session is sent,
\* dropped or queued.
Command(c, kind) ==
  IF c.status = "LAUNCHED" /\ c.waitId = 0
  THEN IF c.media THEN Await(c, kind) ELSE c
  ELSE Enqueue(c, kind)

CastPlay   == RoomFor(ctx) /\ Simple(Command(ctx, "PLAY"))
CastSimple == RoomFor(ctx) /\ Simple(Command(ctx, "PAUSE"))

StopWithoutSession(c) ==
  CASE c.waitMedia # 0                             -> Enqueue(c, "STOP")
    [] c.waitMedia = 0 /\ c.status = "LAUNCHING"   -> [c EXCEPT !.status = "CONNECTED"]
    [] c.waitMedia = 0 /\ c.status # "LAUNCHING"   -> c

Stopped(c) ==
  LET f == [c EXCEPT !.queue = <<>>]
  IN  IF f.media THEN SendStop(f) ELSE StopWithoutSession(f)

CastStop == RoomFor(ctx) /\ Simple(Stopped(ctx))

\* Fault: the STOP of a release takes the next id without using it up.
Released_SharesId(c) ==
  IF c.status = "DISCONNECTED" THEN c
  ELSE [Post(c, "STOP_RECEIVER") EXCEPT !.status = "CONNECTED", !.reqId = c.reqId]

Released(c) ==
  IF c.status = "DISCONNECTED" THEN c
  ELSE [Post(c, "STOP_RECEIVER") EXCEPT !.status = "CONNECTED"]

CastRelease == RoomFor(ctx) /\ Simple(Released(ctx))

CastPowerOffReleases ==
  /\ Call("idle") /\ RoomFor(ctx)
  /\ ctx' = Released(ctx)
  /\ caller' = "off"
  /\ UNCHANGED <<stale, events>>

CastPowerOffDisconnects ==
  /\ Call("off")
  /\ Disconnect
  /\ caller' = "idle"

\* Fault: a status request waits its turn like the other commands, as it did
\* before ProcessQueue lost its GET_MEDIA_STATUS case.
CastGetMediaStatus_Queues ==
  /\ RoomFor(ctx)
  /\ Simple(IF ctx.waitId = 0
            THEN IF ctx.media THEN Post(ctx, "GET_MEDIA") ELSE ctx
            ELSE Enqueue(ctx, "GET_MEDIA_STATUS"))

CastGetMediaStatus ==
  /\ RoomFor(ctx)
  /\ Simple(IF ctx.media THEN Post(ctx, "GET_MEDIA") ELSE ctx)

\* Every caller bypasses the queue (Queue = false): waitId is left alone.
SetDeviceVolume(c, item) ==
  IF c.status = "LAUNCHED" THEN PostVolume(c, item) ELSE Enqueue(c, item)

CastSetDeviceVolume ==
  /\ RoomFor(ctx)
  /\ \E item \in {"VOLUME", "MUTE"} : Simple(SetDeviceVolume(ctx, item))

\* GetTimedEvent, by the player thread.
GetTimedEvent ==
  /\ Running
  /\ events # <<>> /\ events' = Tail(events)
  /\ UNCHANGED <<ctx, sock, inHand, stale, caller>>

-----------------------------------------------------------------------------
(* External: the peer.                                                     *)

PeerCloses ==
  /\ Running
  /\ ctx.ssl
  /\ ctx' = [ctx EXCEPT !.ssl = FALSE, !.asked = {}]
  /\ UNCHANGED <<sock, inHand, stale, caller, events>>

-----------------------------------------------------------------------------
CreateCastDevice(stopReceiver) ==
  [status |-> "DISCONNECTED", stopReceiver |-> stopReceiver, reqId |-> 1,
   waitId |-> 0, waitMedia |-> 0, media |-> FALSE, session |-> FALSE,
   queue |-> <<>>, ssl |-> FALSE, asked |-> {}]

Init ==
  /\ \E stop \in BOOLEAN : ctx = CreateCastDevice(stop)
  /\ sock = "poll" /\ inHand = NoMessage /\ stale = FALSE
  /\ caller = "idle" /\ events = <<>> /\ crashed = FALSE

SocketThread ==
  \/ SocketPoll \/ SocketRead \/ SocketReadFails \/ SocketDrop
  \/ HandleClose \/ HandlePing \/ HandlePong \/ HandleReply \/ HandleCrashes
  \/ Forward

Caller ==
  \/ CastPowerOn \/ CastPowerOffReleases \/ CastPowerOffDisconnects
  \/ CastLoadConnects \/ CastLoadLaunches \/ CastLoadLoads
  \/ CastPlay \/ CastSimple \/ CastStop \/ CastRelease
  \/ CastGetMediaStatus \/ CastSetDeviceVolume

\* The process is gone.
Halted == crashed /\ UNCHANGED vars

Next ==
  \/ SocketThread \/ Caller \/ GetTimedEvent
  \/ PingTimesOut \/ UpdateCastDevice \/ PeerCloses
  \/ Halted

Spec == Init /\ [][Next]_vars

-----------------------------------------------------------------------------
(* Properties                                                              *)

TypeOK ==
  /\ ctx \in Ctx
  /\ sock \in {"poll", "read", "drop", "handle", "forward"}
  /\ inHand \in Message
  /\ caller \in {"idle", "launch", "load", "off"}
  /\ events \in Seq(BOOLEAN)
  /\ stale \in BOOLEAN /\ crashed \in BOOLEAN

\* No request ever gets an id that is awaited, or that an unanswered request
\* bears: an acknowledgement means one thing only.
IdsAreFresh ==
  /\ ctx.waitId < ctx.reqId /\ ctx.waitMedia < ctx.reqId
  /\ \A r \in ctx.asked : r.id < ctx.reqId
  /\ \A r, s \in ctx.asked : r.id = s.id => r = s

\* Before the device has said it is there, nothing of an earlier connection
\* is left to be awaited or used, whatever was in flight when it went down.
CleanUntilConnected ==
  ctx.status \in {"DISCONNECTED", "CONNECTING", "AUTOLAUNCH"} =>
    /\ ctx.waitId = 0 /\ ctx.waitMedia = 0
    /\ ~ctx.media /\ ~ctx.session

\* While a LOAD waits for its media session, the session of the previous
\* LOAD is not used any more.
OneMediaSession == ctx.waitMedia = 0 \/ ~ctx.media

\* A receiver that counts as launched can be addressed.
LaunchedHasTransport == ctx.status = "LAUNCHED" => ctx.session

\* What belongs to one session never mixes with another: neither the ids, nor
\* what is awaited, nor the sessions themselves (CastConnect, CastDisconnect,
\* LaunchReceiver, CastSocketThread).
SessionsDoNotMix ==
  IdsAreFresh /\ CleanUntilConnected /\ OneMediaSession /\ LaunchedHasTransport

\* With a media session, a command is only left in the queue while an
\* acknowledgement that will move the queue is awaited.
NoCommandLeftBehind == QueueMoves(ctx) /\ ctx.media => ctx.queue = <<>>

\* What is awaited can still come: on an open connection, the request with
\* that id was sent and is unanswered, or its answer is being handled.  (Not
\* without stopReceiver: see PerformStop.)
WaitIsAnswerable ==
  ctx.stopReceiver /\ ctx.waitId # 0 /\ ctx.ssl =>
    \/ \E r \in ctx.asked : r.id = ctx.waitId
    \/ sock = "handle" /\ ~stale /\ inHand.id = ctx.waitId

\* A message read on a connection that was closed since acknowledges nothing.
NoStaleAck == ~(sock = "handle" /\ stale /\ IsAck(ctx, inHand))

\* Of a connection that was closed since, at most one event is delivered (the
\* message in hand when it closed), and before any of its successor.
OneStaleEvent == \A i \in 1..Len(events) : events[i] => i = 1

\* A PAUSE taken from the queue is not sent as a PLAY.
PauseStaysPause ==
  [][ctx.queue # <<>> /\ ctx'.queue = Tail(ctx.queue) /\ Head(ctx.queue) = "PAUSE"
     => \A r \in ctx'.asked \ ctx.asked : r.kind # "PLAY"]_vars

\* An acknowledgement that launches the receiver answers a LAUNCH, and a media
\* session comes from the answer to a LOAD, except for the answer a closed
\* connection left behind (NoStaleAck).
AnswerMatches ==
  /\ ctx.status = "LAUNCHING" /\ ctx'.status = "LAUNCHED"
     => inHand.of = "LAUNCH" \/ stale
  /\ ~ctx.media /\ ctx'.media => inHand.of = "LOAD" \/ stale

AnswersMatch == [][AnswerMatches]_vars
=============================================================================
