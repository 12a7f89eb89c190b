----------------------------- MODULE CastDevice -----------------------------
(***************************************************************************)
(* The threads around one Cast context, and its end.  CastCore models the  *)
(* protocol; this module models when the context is dropped and freed:     *)
(*   - the socket thread (CastSocketThread) and the ping thread            *)
(*     (CastPingThread) of castcore.c,                                     *)
(*   - the player's thread (MRThread) and RemoveCastDevice of              *)
(*     squeeze2cast.c, which clear `Running`, delete the context and join. *)
(*                                                                         *)
(* Of the protocol only this is left: whether Status is DISCONNECTED,      *)
(* whether the SSL connection is open, and how old the last PONG is.  No   *)
(* name is one of CastCore: CastCoreProofs extends both.                   *)
(***************************************************************************)
EXTENDS Integers

CONSTANT PongLimit  \* ping rounds of 3 s without PONG that make 15 s
ASSUME CastDeviceAssumption == PongLimit \in Nat

VARIABLES
  running,    \* tCastCtx.running, the loop condition of two threads
  mrRunning,  \* sMR.Running, the loop condition of the player's thread
  socket,     \* program counter of CastSocketThread
  ping,       \* program counter of CastPingThread
  mr,         \* program counter of MRThread
  remover,    \* progress of RemoveCastDevice
  up,         \* Status # CAST_DISCONNECTED
  ssl,        \* the SSL connection is open
  mute,       \* the peer keeps it open and says nothing
  age,        \* now - lastPong, in ping rounds
  revived     \* history: a thread set `running` after it had been cleared

threads    == <<socket, ping, mr>>
link       == <<up, ssl, mute, age>>
deviceVars == <<running, mrRunning, threads, remover, link, revived>>

\* RemoveCastDevice and the DeleteCastDevice in it, step by step.
Removal == {"none", "cleared", "stopped", "disconnected", "pingJoined",
            "sockJoined", "freed", "removed"}

Deleting == remover \notin {"none", "cleared"}
Freed   == remover \in {"freed", "removed"}

DeviceTypeOK ==
  /\ running \in BOOLEAN /\ mrRunning \in BOOLEAN /\ revived \in BOOLEAN
  /\ socket \in {"start", "loop", "read", "drop", "pong", "close", "exit"}
  /\ ping \in {"start", "loop", "armed", "exit"}
  /\ mr \in {"loop", "event", "work", "exit"}
  /\ remover \in Removal
  /\ up \in BOOLEAN /\ ssl \in BOOLEAN /\ mute \in BOOLEAN
  /\ age \in -1..(PongLimit + 1)

-----------------------------------------------------------------------------
(* The connection                                                          *)

\* CastDisconnect; nothing happens when Status is DISCONNECTED already.
DropLink ==
  /\ up' = FALSE
  /\ ssl' = (ssl /\ ~up)
  /\ UNCHANGED <<mute, age>>

\* What now - lastPong is right after lastPong was set.  The ping thread may
\* be waiting for the Mutex with an older `now`.
JustPonged == IF ping = "armed" THEN {0, -1} ELSE {0}

\* A caller of the API, in sq_callback or in MRThread: the player's mutex is
\* held and Running has been checked under it.
CallerConnects ==
  /\ mrRunning /\ ~up
  /\ up' = TRUE /\ ssl' = TRUE /\ mute' = FALSE
  /\ age' \in JustPonged
  /\ UNCHANGED <<running, mrRunning, threads, remover, revived>>

CallerDisconnects ==
  /\ mrRunning /\ up /\ DropLink
  /\ UNCHANGED <<running, mrRunning, threads, remover, revived>>

\* External: the peer closes, or stops talking.
LinkBreaks ==
  /\ ssl /\ ssl' = FALSE
  /\ UNCHANGED <<running, mrRunning, threads, remover, revived, up, mute, age>>

PeerFallsSilent ==
  /\ ssl /\ ~mute /\ mute' = TRUE
  /\ UNCHANGED <<running, mrRunning, threads, remover, revived, up, ssl, age>>

-----------------------------------------------------------------------------
(* CastSocketThread                                                        *)

\* Both threads start with Ctx->running = true.
Start ==
  /\ running' = TRUE
  /\ revived' = (revived \/ Deleting)

SockStart ==
  /\ socket = "start" /\ socket' = "loop" /\ Start
  /\ UNCHANGED <<mrRunning, ping, mr, remover, link>>

Sock(from, to) ==
  /\ socket = from /\ socket' = to
  /\ UNCHANGED <<running, mrRunning, ping, mr, remover, revived>>

SockExit  == ~running /\ Sock("loop", "exit") /\ UNCHANGED link
SockEnter == running /\ up /\ Sock("loop", "read") /\ UNCHANGED link

\* A message: PONG, CLOSE, or one that does not matter here.
SockRead ==
  /\ ssl /\ ~mute
  /\ \E to \in {"pong", "close", "loop"} : Sock("read", to)
  /\ UNCHANGED link

SockReadFails == ~ssl /\ Sock("read", "drop") /\ UNCHANGED link

SockDrop == Sock("drop", "loop") /\ DropLink

\* Fault: a PONG credits one round instead of restarting the count.
SockPong_Credits ==
  /\ Sock("pong", "loop")
  /\ age' = age - 1
  /\ UNCHANGED <<up, ssl, mute>>

SockPong ==
  /\ Sock("pong", "loop")
  /\ age' \in JustPonged
  /\ UNCHANGED <<up, ssl, mute>>

\* CLOSE sets Status to CONNECTED whatever it was.
SockClose ==
  /\ Sock("close", "loop")
  /\ up' = TRUE
  /\ UNCHANGED <<ssl, mute, age>>

-----------------------------------------------------------------------------
(* CastPingThread                                                          *)

PingStart ==
  /\ ping = "start" /\ ping' = "loop" /\ Start
  /\ UNCHANGED <<mrRunning, socket, mr, remover, link>>

Ping(from, to) ==
  /\ ping = from /\ ping' = to
  /\ UNCHANGED <<running, mrRunning, socket, mr, remover, revived>>

PingExit == ~running /\ Ping("loop", "exit") /\ UNCHANGED link

\* Three more seconds: `now` is sampled and Status read without the Mutex.
PingArm ==
  /\ running /\ up /\ Ping("loop", "armed")
  /\ age' = IF age > PongLimit THEN age ELSE age + 1
  /\ UNCHANGED <<up, ssl, mute>>

\* Fault: only the wrapped difference is noticed.
NoResponse_Signed == age < 0

\* now - lastPong is unsigned: a lastPong newer than now is a huge age.
NoResponse == age > PongLimit \/ age < 0

PingLocked ==
  /\ Ping("armed", "loop")
  /\ IF NoResponse THEN DropLink ELSE UNCHANGED link

-----------------------------------------------------------------------------
(* MRThread                                                                *)

Mr(from, to) ==
  /\ mr = from /\ mr' = to
  /\ UNCHANGED <<running, mrRunning, socket, ping, remover, link, revived>>

MrExit == ~mrRunning /\ Mr("loop", "exit")

\* GetTimedEvent waits on a condition of the context, without player's mutex.
MrWaits == mrRunning /\ Mr("loop", "event")

\* The event or the timeout; Running is checked again under the mutex.
MrWakes  == mrRunning /\ Mr("event", "work")
MrLeaves == ~mrRunning /\ Mr("event", "exit")
MrWorked == Mr("work", "loop")

-----------------------------------------------------------------------------
(* RemoveCastDevice, by the discovery thread or the main thread            *)

Remove(from, to) ==
  /\ remover = from /\ remover' = to
  /\ UNCHANGED <<threads, revived>>

\* Needs the player's mutex: not while MRThread works.
RemoverClears ==
  /\ mr # "work" /\ mrRunning' = FALSE
  /\ Remove("none", "cleared")
  /\ UNCHANGED <<running, link>>

DeleteStops ==
  /\ Remove("cleared", "stopped")
  /\ running' = FALSE
  /\ UNCHANGED <<mrRunning, link>>

\* Fault: the connection is left open, and nobody wakes the socket thread.
DeleteDisconnects_Not ==
  /\ Remove("stopped", "disconnected")
  /\ UNCHANGED <<running, mrRunning, link>>

DeleteDisconnects ==
  /\ Remove("stopped", "disconnected")
  /\ DropLink
  /\ UNCHANGED <<running, mrRunning>>

\* Fault: the ping thread is detached instead of joined.
DeleteJoinsPing_Not ==
  /\ Remove("disconnected", "pingJoined")
  /\ UNCHANGED <<running, mrRunning, link>>

DeleteJoinsPing ==
  /\ ping = "exit"
  /\ Remove("disconnected", "pingJoined")
  /\ UNCHANGED <<running, mrRunning, link>>

DeleteJoinsSock ==
  /\ socket = "exit"
  /\ Remove("pingJoined", "sockJoined")
  /\ UNCHANGED <<running, mrRunning, link>>

\* eventCond is signalled and destroyed, the context is freed.
DeleteFrees ==
  /\ Remove("sockJoined", "freed")
  /\ UNCHANGED <<running, mrRunning, link>>

RemoverJoinsMr ==
  /\ mr = "exit"
  /\ Remove("freed", "removed")
  /\ UNCHANGED <<running, mrRunning, link>>

-----------------------------------------------------------------------------
\* CreateCastDevice: the context is disconnected and its threads start.
DeviceInit ==
  /\ running \in BOOLEAN   \* not initialised by CreateCastDevice
  /\ mrRunning = TRUE
  /\ socket = "start" /\ ping = "start" /\ mr = "loop"
  /\ remover = "none" /\ revived = FALSE
  /\ up = FALSE /\ ssl = FALSE /\ mute = FALSE /\ age = 0

CastSocketThread ==
  \/ SockStart \/ SockExit \/ SockEnter \/ SockRead \/ SockReadFails
  \/ SockDrop \/ SockPong \/ SockClose

CastPingThread == PingStart \/ PingExit \/ PingArm \/ PingLocked

MRThread == MrExit \/ MrWaits \/ MrWakes \/ MrLeaves \/ MrWorked

Remover ==
  \/ DeleteStops \/ DeleteDisconnects \/ DeleteJoinsPing \/ DeleteJoinsSock
  \/ DeleteFrees \/ RemoverJoinsMr

DeviceNext ==
  \/ CastSocketThread \/ CastPingThread \/ MRThread
  \/ RemoverClears \/ Remover
  \/ CallerConnects \/ CallerDisconnects \/ LinkBreaks \/ PeerFallsSilent

\* The scheduler runs every thread; a removal that has begun goes on.  Nobody
\* has to connect, to remove a device, to close or to fall silent.
Fairness ==
  /\ WF_deviceVars(CastSocketThread)
  /\ WF_deviceVars(CastPingThread)
  /\ WF_deviceVars(MRThread)
  /\ WF_deviceVars(Remover)

DeviceSpec == DeviceInit /\ [][DeviceNext]_deviceVars /\ Fairness

-----------------------------------------------------------------------------
(* Properties                                                              *)

\* The context is freed only when its own two threads have ended.
FreedAfterThreads == Freed => socket = "exit" /\ ping = "exit"

\* The context is not freed while MRThread is inside GetTimedEvent.
ContextOutlivesPlayer == Freed => mr # "event"

\* The ping thread drops a connection only when PONG is overdue.
DropsOnlySilentPeer ==
  [][PingLocked /\ up /\ ~up' => age > PongLimit]_deviceVars

\* A connection whose peer has gone silent does not stay up.
SilentPeerIsDropped == (up /\ mute) ~> (~up \/ ~mute \/ ~running)

\* A connection that broke does not stay up, whatever message was in hand.
BrokenLinkIsDropped == (up /\ ~ssl) ~> (~up \/ ssl \/ ~running)

\* Neither stays up: the ping thread or the socket thread drops it.
DeadLinkIsDropped == SilentPeerIsDropped /\ BrokenLinkIsDropped

\* A removal ends, unless a thread that started late turned the context's
\* loops on again.
RemovalEnds == (remover = "cleared") ~> (remover = "removed" \/ revived)
=============================================================================
