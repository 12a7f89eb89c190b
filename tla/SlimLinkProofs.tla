--------------------------- MODULE SlimLinkProofs ---------------------------
(***************************************************************************)
(* Proofs about SlimLink, for every set of servers, commands and groups    *)
(* and every value of its bounds.                                          *)
(***************************************************************************)
EXTENDS SlimLink, SequenceTheorems, TLAPS

\* Whoever waits for an answer has the mutex, and nobody else has.
WaiterLocks == caller.at = "waits" <=> mutex = "caller"

\* What the next HELO will say, from where the thread is: a server that was
\* named by a serv is new until Loop takes it up, a player that runs has sent
\* its HELO, and outside of that `reconnect` says whether there was one.
NextHelo ==
  IF ctx.new_server # None
  THEN slim.at \in {"run", "close", "loop", "ended"} /\ told.helos = "none"
  ELSE IF slim.at = "run" THEN told.helos # "none"
  ELSE told.helos = "none" <=> ~ctx.reconnect

\* The inductive invariant.
IInv == TypeOK /\ WaiterLocks /\ CommandKeepsSocket /\ NewOnce /\ NextHelo

-----------------------------------------------------------------------------
\* The pieces of an answer that are sent, and what is left of it, are pieces.
LEMMA PiecesSent ==
  ASSUME NEW owed \in Seq(Piece), NEW wire \in Seq(Piece), NEW n \in 1..Len(owed)
  PROVE  wire \o SubSeq(owed, 1, n) \in Seq(Piece) /\ SubSeq(owed, n + 1, Len(owed)) \in Seq(Piece)
<1>1. SubSeq(owed, 1, n) \in Seq(Piece)
  BY SubSeqProperties
<1>2. SubSeq(owed, n + 1, Len(owed)) \in Seq(Piece)
  BY SubSeqProperties
<1> QED BY <1>1, <1>2, ConcatProperties

LEMMA BoundsAreNat ==
  /\ MaxFailed \in Nat /\ MaxTimeouts \in Nat /\ MaxTimeouts > 0
  /\ MaxCommands \in Nat /\ MaxUpsets \in Nat
BY SlimLinkAssumption

\* A closed socket, and what an event may do to one.
LEMMA ClosedIsCli == CliClosed \in CliType /\ CliClosed.server = None
BY EmptySeq DEF CliClosed, CliType

LEMMA ClosesIdle ==
  ASSUME TypeOK, WaiterLocks, CommandKeepsSocket, CloseIdleCli
  PROVE  /\ cli' \in CliType
         /\ caller.at = "waits" => cli'.server # None
BY ClosedIsCli DEF TypeOK, WaiterLocks, CommandKeepsSocket, CloseIdleCli

LEMMA LineIsPieces ==
  ASSUME NEW cmd \in Cmds \cup {None}
  PROVE  Line(cmd) \in Seq(Piece)
BY DEF Line, Piece

-----------------------------------------------------------------------------
LEMMA InitInv == Init => IInv
<1> SUFFICES ASSUME Init PROVE IInv
  OBVIOUS
<1> USE BoundsAreNat, NoneAssumption DEF Init
<1>1. ctx \in CtxType BY DEF CtxType
<1>2. slim \in ThreadType BY DEF ThreadType
<1>3. sock \in SockType BY DEF SockType, Closed
<1>4. cli \in CliType BY EmptySeq DEF CliType, CliClosed
<1>5. caller \in CallerType BY EmptySeq DEF CallerType
<1>6. told \in ToldType BY DEF ToldType
<1>7. TypeOK
  BY <1>1, <1>2, <1>3, <1>4, <1>5, <1>6 DEF TypeOK
<1>8. WaiterLocks /\ CommandKeepsSocket /\ NewOnce /\ NextHelo
  BY DEF WaiterLocks, CommandKeepsSocket, NewOnce, NextHelo
<1> QED BY <1>7, <1>8 DEF IInv

\* discover_server, the loop of slimproto, and slimproto_run where it leaves.
LEMMA ThreadKeeps ==
  ASSUME IInv, Slimproto
  PROVE  IInv'
<1> USE BoundsAreNat, NoneAssumption DEF IInv
<1>1. CASE Discover
  <2>1. ctx' \in CtxType
    BY ZenonT(40), <1>1 DEF TypeOK, Discover, Answering, CtxType
  <2>2. slim' \in ThreadType
    BY <1>1 DEF TypeOK, Discover, Answering, ThreadType
  <2>3. TypeOK'
    BY <1>1, <2>1, <2>2 DEF TypeOK, Discover, Answering
  <2>4. WaiterLocks' /\ CommandKeepsSocket'
    BY <1>1 DEF TypeOK, WaiterLocks, CommandKeepsSocket, Discover, Answering, CallerType, CliType
  <2>5. NewOnce' /\ NextHelo'
    BY ZenonT(40), <1>1 DEF TypeOK, NewOnce, NextHelo, Discover, Answering, CtxType, ThreadType, ToldType
  <2> QED BY <2>3, <2>4, <2>5
<1>2. CASE Loop
  <2>1. ctx' \in CtxType
    <3>1. \/ ctx' = ctx
          \/ /\ ctx' = [ctx EXCEPT !.slimproto_ip = ctx.new_server, !.new_server = None,
                                   !.reconnect = FALSE]
      BY <1>2 DEF Loop
    <3>2. ctx \in CtxType
      BY DEF TypeOK
    <3> QED BY <3>1, <3>2 DEF CtxType
  <2>2. slim' \in ThreadType
    BY <1>2 DEF TypeOK, Loop, ThreadType
  <2>3. TypeOK'
    BY <1>2, <2>1, <2>2 DEF TypeOK, Loop
  <2>4. WaiterLocks' /\ CommandKeepsSocket'
    BY <1>2 DEF TypeOK, WaiterLocks, CommandKeepsSocket, Loop, CallerType, CliType
  <2>5. NewOnce' /\ NextHelo'
    BY ZenonT(40), <1>2 DEF TypeOK, NewOnce, NextHelo, Loop, CtxType, ThreadType, ToldType
  <2> QED BY <2>3, <2>4, <2>5
<1>3. CASE Connect
  <2>1. ctx' \in CtxType
    <3>1. ctx' = [ctx EXCEPT !.new_server_cap = None, !.failed_connect = 0]
      BY <1>3 DEF Connect
    <3>2. ctx \in CtxType /\ 0 \in 0..MaxFailed
      BY DEF TypeOK
    <3> QED BY <3>1, <3>2 DEF CtxType
  <2>2. slim' \in ThreadType
    <3>1. slim' = [slim EXCEPT !.at = "run", !.timeouts = 0]
      BY <1>3 DEF Connect
    <3>2. slim \in ThreadType /\ 0 \in 0..MaxTimeouts
      BY DEF TypeOK
    <3> QED BY <3>1, <3>2 DEF ThreadType
  <2>3. sock' \in SockType
    BY <1>3 DEF TypeOK, Connect, Helo, SockType, CtxType
  <2>4. told' \in ToldType
    BY <1>3 DEF TypeOK, Connect, Helo, ToldType, CtxType
  <2>5. TypeOK'
    BY <1>3, <2>1, <2>2, <2>3, <2>4 DEF TypeOK, Connect, Helo
  <2>6. WaiterLocks' /\ CommandKeepsSocket'
    BY <1>3 DEF TypeOK, WaiterLocks, CommandKeepsSocket, Connect, Helo, CallerType, CliType
  <2>7. NewOnce' /\ NextHelo'
    BY <1>3 DEF TypeOK, NewOnce, NextHelo, Connect, Helo, CtxType, ThreadType, ToldType
  <2> QED BY <2>5, <2>6, <2>7
<1>4. CASE ConnectFails
  <2>1. ctx' \in CtxType
    <3> DEFINE failed == IF ctx.config = None /\ ~Rediscovers THEN ctx.failed_connect + 1
                         ELSE ctx.failed_connect
                ip == IF Rediscovers THEN None ELSE ctx.slimproto_ip
    <3>1. ctx \in CtxType /\ ctx' = [ctx EXCEPT !.failed_connect = failed, !.slimproto_ip = ip]
      BY <1>4 DEF ConnectFails, TypeOK
    <3>2. failed \in 0..MaxFailed /\ ip \in Servers \cup {None}
      BY <3>1 DEF CtxType, Rediscovers
    <3> HIDE DEF failed, ip
    <3> QED BY <3>1, <3>2 DEF CtxType
  <2>2. slim' \in ThreadType
    BY <1>4 DEF TypeOK, ConnectFails, Rediscovers, ThreadType
  <2>3. TypeOK'
    BY <1>4, <2>1, <2>2 DEF TypeOK, ConnectFails, Rediscovers
  <2>4. WaiterLocks' /\ CommandKeepsSocket'
    BY <1>4 DEF TypeOK, WaiterLocks, CommandKeepsSocket, ConnectFails, Rediscovers, CallerType, CliType
  <2>5. NewOnce' /\ NextHelo'
    BY <1>4 DEF TypeOK, NewOnce, NextHelo, ConnectFails, Rediscovers, CtxType, ThreadType, ToldType
  <2> QED BY <2>3, <2>4, <2>5
<1>5. CASE Close
  <2>1. ctx' \in CtxType
    BY <1>5 DEF TypeOK, Close, CliClosed, Closed, CtxType
  <2>2. slim' \in ThreadType
    BY <1>5 DEF TypeOK, Close, CliClosed, Closed, ThreadType
  <2>3. sock' \in SockType
    BY <1>5 DEF TypeOK, Close, CliClosed, Closed, SockType
  <2>4. cli' \in CliType
    BY <1>5 DEF TypeOK, Close, CliClosed, Closed, CliType
  <2>5. TypeOK'
    BY <1>5, <2>1, <2>2, <2>3, <2>4 DEF TypeOK, Close, CliClosed, Closed
  <2>6. WaiterLocks' /\ CommandKeepsSocket'
    BY <1>5 DEF TypeOK, WaiterLocks, CommandKeepsSocket, Close, CliClosed, Closed, CallerType, CliType
  <2>7. NewOnce' /\ NextHelo'
    BY <1>5 DEF TypeOK, NewOnce, NextHelo, Close, CliClosed, Closed, CtxType, ThreadType, ToldType
  <2> QED BY <2>5, <2>6, <2>7
<1>6. CASE RunEnds
  <2>1. ctx' \in CtxType
    BY <1>6 DEF TypeOK, RunEnds, Leaves, CtxType
  <2>2. slim' \in ThreadType
    BY <1>6 DEF TypeOK, RunEnds, Leaves, ThreadType
  <2>3. TypeOK'
    BY <1>6, <2>1, <2>2 DEF TypeOK, RunEnds, Leaves
  <2>4. WaiterLocks' /\ CommandKeepsSocket'
    BY <1>6 DEF TypeOK, WaiterLocks, CommandKeepsSocket, RunEnds, Leaves, CallerType, CliType
  <2>5. NewOnce' /\ NextHelo'
    BY <1>6 DEF TypeOK, NewOnce, NextHelo, RunEnds, Leaves, CtxType, ThreadType, ToldType
  <2> QED BY <2>3, <2>4, <2>5
<1>7. CASE ServerClosed
  <2>1. ctx' \in CtxType
    BY <1>7 DEF TypeOK, ServerClosed, Leaves, Runs, CtxType
  <2>2. slim' \in ThreadType
    BY <1>7 DEF TypeOK, ServerClosed, Leaves, Runs, ThreadType
  <2>3. TypeOK'
    BY <1>7, <2>1, <2>2 DEF TypeOK, ServerClosed, Leaves, Runs
  <2>4. WaiterLocks' /\ CommandKeepsSocket'
    BY <1>7 DEF TypeOK, WaiterLocks, CommandKeepsSocket, ServerClosed, Leaves, Runs, CallerType, CliType
  <2>5. NewOnce' /\ NextHelo'
    BY <1>7 DEF TypeOK, NewOnce, NextHelo, ServerClosed, Leaves, Runs, CtxType, ThreadType, ToldType
  <2> QED BY <2>3, <2>4, <2>5
<1>8. CASE Timeout
  <2>1. ctx' \in CtxType
    <3>1. ctx' = ctx \/ ctx' = [ctx EXCEPT !.reconnect = TRUE]
      BY <1>8 DEF Timeout, Leaves
    <3> QED BY <3>1 DEF TypeOK, CtxType
  <2>2. slim' \in ThreadType
    BY <1>8 DEF TypeOK, Timeout, Leaves, Runs, Dead, Counted, ThreadType
  <2>3. TypeOK'
    BY <1>8, <2>1, <2>2 DEF TypeOK, Timeout, Leaves, Runs, Dead, Counted
  <2>4. WaiterLocks' /\ CommandKeepsSocket'
    BY <1>8 DEF TypeOK, WaiterLocks, CommandKeepsSocket, Timeout, Leaves, Runs, Dead, Counted, CallerType, CliType
  <2>5. NewOnce' /\ NextHelo'
    BY <1>8 DEF TypeOK, NewOnce, NextHelo, Timeout, Leaves, Runs, Dead, Counted, CtxType, ThreadType, ToldType
  <2> QED BY <2>3, <2>4, <2>5
<1> QED
  BY <1>1, <1>2, <1>3, <1>4, <1>5, <1>6, <1>7, <1>8 DEF Slimproto, Caller, Wiper

\* slimproto_run: an event, after which the socket of the CLI may be closed.
LEMMA EventKeeps ==
  ASSUME IInv, Event \/ Wake \/ Serv
  PROVE  IInv'
<1> USE BoundsAreNat, NoneAssumption DEF IInv
<1>1. CASE Event
  <2>1. slim' \in ThreadType
    BY <1>1 DEF TypeOK, Event, Runs, ThreadType
  <2>2. cli' \in CliType
    BY <1>1, ClosesIdle DEF Event
  <2>3. TypeOK'
    BY <1>1, <2>1, <2>2 DEF TypeOK, Event, Runs
  <2>4. WaiterLocks' /\ CommandKeepsSocket'
    BY <1>1, ClosesIdle DEF WaiterLocks, CommandKeepsSocket, Event
  <2>5. NewOnce' /\ NextHelo'
    BY <1>1 DEF TypeOK, NewOnce, NextHelo, Event, Runs, CtxType, ThreadType, ToldType
  <2> QED BY <2>3, <2>4, <2>5
<1>2. CASE Wake
  <2>1. slim' \in ThreadType
    BY <1>2 DEF TypeOK, Wake, Runs, Upset, ThreadType
  <2>2. cli' \in CliType
    BY <1>2, ClosesIdle DEF Wake
  <2>3. bounds' \in [commands : 0..MaxCommands, upsets : 0..MaxUpsets]
    BY <1>2 DEF TypeOK, Wake, Runs, Upset
  <2>4. TypeOK'
    BY <1>2, <2>1, <2>2, <2>3 DEF TypeOK, Wake, Runs, Upset
  <2>5. WaiterLocks' /\ CommandKeepsSocket'
    BY <1>2, ClosesIdle DEF WaiterLocks, CommandKeepsSocket, Wake
  <2>6. NewOnce' /\ NextHelo'
    BY <1>2 DEF TypeOK, NewOnce, NextHelo, Wake, Runs, Upset, CtxType, ThreadType, ToldType
  <2> QED BY <2>4, <2>5, <2>6
<1>3. CASE Serv
  <2>1. ctx' \in CtxType
    BY ZenonT(40), <1>3 DEF TypeOK, Serv, Runs, Upset, CtxType
  <2>2. slim' \in ThreadType
    <3>1. slim' = [slim EXCEPT !.timeouts = 0]
      BY <1>3 DEF Serv
    <3> QED BY <3>1 DEF TypeOK, ThreadType
  <2>3. cli' \in CliType
    BY <1>3, ClosesIdle DEF Serv
  <2>4. told' \in ToldType
    BY ZenonT(40), <1>3 DEF TypeOK, Serv, Runs, Upset, ToldType
  <2>5. bounds' \in [commands : 0..MaxCommands, upsets : 0..MaxUpsets]
    <3>1. bounds.upsets < MaxUpsets /\ bounds' = [bounds EXCEPT !.upsets = @ + 1]
      BY <1>3 DEF Serv, Upset
    <3> QED BY <3>1 DEF TypeOK
  <2>6. TypeOK'
    BY <1>3, <2>1, <2>2, <2>3, <2>4, <2>5 DEF TypeOK, Serv, Runs, Upset
  <2>7. WaiterLocks' /\ CommandKeepsSocket'
    BY <1>3, ClosesIdle DEF WaiterLocks, CommandKeepsSocket, Serv
  <2>8. NewOnce' /\ NextHelo'
    <3>1. PICK s \in Servers, cap \in Caps \cup {None} :
            /\ ctx' = [ctx EXCEPT !.new_server = s, !.new_server_cap = cap]
            /\ told' = [told EXCEPT !.to = s, !.wanted = cap, !.helos = "none"]
      BY <1>3 DEF Serv
    <3>2. slim.at = "run" /\ slim' = [slim EXCEPT !.timeouts = 0]
      BY <1>3 DEF Serv, Runs
    <3>3. ctx'.new_server = s /\ s # None /\ told'.helos = "none" /\ slim'.at = "run"
      BY <3>1, <3>2 DEF TypeOK, CtxType, ToldType, ThreadType
    <3> QED BY <3>3 DEF NewOnce, NextHelo
  <2> QED BY <2>6, <2>7, <2>8
<1> QED
  BY <1>1, <1>2, <1>3 DEF Slimproto, Caller, Wiper

\* cli_send_cmd, and the server that answers.
LEMMA CallerKeeps ==
  ASSUME IInv, CallerChecks \/ Caller \/ ServerAnswers
  PROVE  IInv'
<1> USE BoundsAreNat, NoneAssumption DEF IInv
<1>1. CASE CallerChecks
  <2>1. caller' \in CallerType
    BY <1>1 DEF TypeOK, CallerChecks, CallerType
  <2>2. bounds' \in [commands : 0..MaxCommands, upsets : 0..MaxUpsets]
    BY <1>1 DEF TypeOK, CallerChecks
  <2>3. TypeOK'
    BY <1>1, <2>1, <2>2 DEF TypeOK, CallerChecks
  <2>4. WaiterLocks' /\ CommandKeepsSocket'
    BY <1>1 DEF TypeOK, WaiterLocks, CommandKeepsSocket, CallerChecks, CallerType, CliType
  <2>5. NewOnce' /\ NextHelo'
    BY <1>1 DEF TypeOK, NewOnce, NextHelo, CallerChecks, CtxType, ThreadType, ToldType
  <2> QED BY <2>3, <2>4, <2>5
<1>2. CASE CannotOpen
  <2>1. caller' \in CallerType
    BY <1>2 DEF TypeOK, CannotOpen, Idle, CallerType
  <2>2. TypeOK'
    BY <1>2, <2>1 DEF TypeOK, CannotOpen, Idle
  <2>3. WaiterLocks' /\ CommandKeepsSocket'
    BY <1>2 DEF TypeOK, WaiterLocks, CommandKeepsSocket, CannotOpen, Idle, CallerType, CliType
  <2>4. NewOnce' /\ NextHelo'
    BY <1>2 DEF TypeOK, NewOnce, NextHelo, CannotOpen, Idle, CtxType, ThreadType, ToldType
  <2> QED BY <2>2, <2>3, <2>4
<1>3. CASE SendCmd
  <2>1. cli' \in CliType
    <3> DEFINE owed == IF Opened.alive THEN Opened.owed \o Line(caller.cmd) ELSE Opened.owed
    <3>1. Opened \in CliType
      BY ClosedIsCli DEF TypeOK, Opened, CliType, CtxType
    <3>2. Line(caller.cmd) \in Seq(Piece)
      BY LineIsPieces DEF TypeOK, CallerType
    <3>3. owed \in Seq(Piece)
      BY <3>1, <3>2, ConcatProperties DEF CliType
    <3>4. cli' = [Opened EXCEPT !.owed = owed]
      BY <1>3 DEF SendCmd
    <3> HIDE DEF owed
    <3> QED BY <3>1, <3>3, <3>4 DEF CliType
  <2>2. caller' \in CallerType
    BY <1>3 DEF TypeOK, SendCmd, Opened, CliClosed, CallerType
  <2>3. TypeOK'
    BY <1>3, <2>1, <2>2 DEF TypeOK, SendCmd, Opened, CliClosed
  <2>4. WaiterLocks' /\ CommandKeepsSocket'
    BY <1>3 DEF TypeOK, WaiterLocks, CommandKeepsSocket, SendCmd, Opened, CliClosed, CallerType, CliType
  <2>5. NewOnce' /\ NextHelo'
    BY <1>3 DEF TypeOK, NewOnce, NextHelo, SendCmd, Opened, CliClosed, CtxType, ThreadType, ToldType
  <2> QED BY <2>3, <2>4, <2>5
<1>4. CASE Receive
  <2>1. cli' \in CliType
    BY <1>4, EmptySeq DEF TypeOK, Receive, Idle, CliType
  <2>2. caller' \in CallerType
    <3> DEFINE got == caller.got \o cli.wire
    <3>1. got \in Seq(Piece)
      BY ConcatProperties DEF TypeOK, CallerType, CliType
    <3>2. \/ caller' = Idle
          \/ caller' = [caller EXCEPT !.at = "crash", !.got = got]
          \/ caller' = [caller EXCEPT !.got = got]
      BY <1>4 DEF Receive
    <3>3. Idle \in CallerType
      BY EmptySeq DEF Idle, CallerType
    <3> HIDE DEF got
    <3> QED BY <3>1, <3>2, <3>3 DEF TypeOK, CallerType
  <2>3. TypeOK'
    BY <1>4, <2>1, <2>2 DEF TypeOK, Receive, Idle
  <2>4. WaiterLocks' /\ CommandKeepsSocket'
    <3> DEFINE got == caller.got \o cli.wire
    <3>1. \/ (caller' = Idle \/ caller' = [caller EXCEPT !.at = "crash", !.got = got]) /\ mutex' = "free"
          \/ caller' = [caller EXCEPT !.got = got] /\ mutex' = mutex
      BY <1>4 DEF Receive
    <3>2. cli' = [cli EXCEPT !.wire = <<>>] /\ caller.at = "waits"
      BY <1>4 DEF Receive
    <3> HIDE DEF got
    <3>3. caller'.at = "waits" <=> mutex' = "caller"
      <4>1. mutex = "caller" /\ caller \in CallerType
        BY <3>2 DEF TypeOK, WaiterLocks
      <4>2. CASE mutex' = mutex
        <5>1. caller'.at = "waits"
          BY <3>1, <3>2, <4>1, <4>2 DEF CallerType
        <5> QED BY <4>1, <4>2, <5>1
      <4>3. CASE mutex' = "free"
        <5>1. caller'.at # "waits"
          <6>1. caller' = Idle \/ caller' = [caller EXCEPT !.at = "crash", !.got = got]
            BY <3>1, <4>1, <4>3
          <6>2. CASE caller' = Idle
            BY <6>2 DEF Idle
          <6>3. CASE caller' = [caller EXCEPT !.at = "crash", !.got = got]
            BY <6>3, <4>1 DEF CallerType
          <6> QED BY <6>1, <6>2, <6>3
        <5> QED BY <4>3, <5>1
      <4> QED BY <3>1, <4>2, <4>3
    <3>4. cli'.server = cli.server
      BY <3>2 DEF TypeOK, CliType
    <3> QED BY <3>2, <3>3, <3>4 DEF WaiterLocks, CommandKeepsSocket
  <2>5. NewOnce' /\ NextHelo'
    BY <1>4 DEF TypeOK, NewOnce, NextHelo, Receive, Idle, CtxType, ThreadType, ToldType
  <2> QED BY <2>3, <2>4, <2>5
<1>5. CASE NoAnswer
  <2>1. caller' \in CallerType
    BY <1>5 DEF TypeOK, NoAnswer, Idle, CallerType
  <2>2. TypeOK'
    BY <1>5, <2>1 DEF TypeOK, NoAnswer, Idle
  <2>3. WaiterLocks' /\ CommandKeepsSocket'
    BY <1>5 DEF TypeOK, WaiterLocks, CommandKeepsSocket, NoAnswer, Idle, CallerType, CliType
  <2>4. NewOnce' /\ NextHelo'
    BY <1>5 DEF TypeOK, NewOnce, NextHelo, NoAnswer, Idle, CtxType, ThreadType, ToldType
  <2> QED BY <2>2, <2>3, <2>4
<1>6. CASE ServerAnswers
  <2>1. cli' \in CliType
    <3>1. PICK n \in 1..Len(cli.owed) :
            cli' = [cli EXCEPT !.wire = cli.wire \o SubSeq(cli.owed, 1, n),
                               !.owed = SubSeq(cli.owed, n + 1, Len(cli.owed))]
      BY <1>6 DEF ServerAnswers
    <3>2. cli \in CliType
      BY DEF TypeOK
    <3>3. /\ cli.wire \o SubSeq(cli.owed, 1, n) \in Seq(Piece)
          /\ SubSeq(cli.owed, n + 1, Len(cli.owed)) \in Seq(Piece)
      BY <3>2, PiecesSent DEF CliType
    <3> QED BY <3>1, <3>2, <3>3 DEF CliType
  <2>2. TypeOK'
    BY <1>6, <2>1 DEF TypeOK, ServerAnswers
  <2>3. WaiterLocks' /\ CommandKeepsSocket'
    BY <1>6 DEF TypeOK, WaiterLocks, CommandKeepsSocket, ServerAnswers, CallerType, CliType
  <2>4. NewOnce' /\ NextHelo'
    BY <1>6 DEF TypeOK, NewOnce, NextHelo, ServerAnswers, CtxType, ThreadType, ToldType
  <2> QED BY <2>2, <2>3, <2>4
<1> QED
  BY <1>1, <1>2, <1>3, <1>4, <1>5, <1>6 DEF Slimproto, Caller, Wiper

\* sq_wipe_device, and servers that stop and start.
LEMMA OthersKeep ==
  ASSUME IInv, WipeStarts \/ Wiper \/ ServerStops \/ ServerStarts
  PROVE  IInv'
<1> USE BoundsAreNat, NoneAssumption DEF IInv
<1>1. CASE WipeStarts
  <2>1. ctx' \in CtxType
    BY <1>1 DEF TypeOK, WipeStarts, CtxType
  <2>2. TypeOK'
    BY <1>1, <2>1 DEF TypeOK, WipeStarts
  <2>3. WaiterLocks' /\ CommandKeepsSocket'
    BY <1>1 DEF TypeOK, WaiterLocks, CommandKeepsSocket, WipeStarts, CallerType, CliType
  <2>4. NewOnce' /\ NextHelo'
    BY <1>1 DEF TypeOK, NewOnce, NextHelo, WipeStarts, CtxType, ThreadType, ToldType
  <2> QED BY <2>2, <2>3, <2>4
<1>2. CASE StopThread
  <2>1. ctx' \in CtxType
    BY <1>2 DEF TypeOK, StopThread, CtxType
  <2>2. TypeOK'
    BY <1>2, <2>1 DEF TypeOK, StopThread
  <2>3. WaiterLocks' /\ CommandKeepsSocket'
    BY <1>2 DEF TypeOK, WaiterLocks, CommandKeepsSocket, StopThread, CallerType, CliType
  <2>4. NewOnce' /\ NextHelo'
    BY <1>2 DEF TypeOK, NewOnce, NextHelo, StopThread, CtxType, ThreadType, ToldType
  <2> QED BY <2>2, <2>3, <2>4
<1>3. CASE Joined
  <2>1. TypeOK'
    BY <1>3 DEF TypeOK, Joined
  <2>2. WaiterLocks' /\ CommandKeepsSocket'
    BY <1>3 DEF TypeOK, WaiterLocks, CommandKeepsSocket, Joined, CallerType, CliType
  <2>3. NewOnce' /\ NextHelo'
    BY <1>3 DEF TypeOK, NewOnce, NextHelo, Joined, CtxType, ThreadType, ToldType
  <2> QED BY <2>1, <2>2, <2>3
<1>4. CASE ServerStops
  <2>1. sock' \in SockType
    BY <1>4 DEF TypeOK, ServerStops, Upset, SockType
  <2>2. cli' \in CliType
    <3>1. cli' = cli \/ cli' = [cli EXCEPT !.alive = FALSE, !.owed = <<>>]
      BY <1>4 DEF ServerStops
    <3> QED BY ZenonT(40), <3>1, EmptySeq DEF TypeOK, CliType
  <2>3. bounds' \in [commands : 0..MaxCommands, upsets : 0..MaxUpsets]
    BY <1>4 DEF TypeOK, ServerStops, Upset
  <2>4. TypeOK'
    BY <1>4, <2>1, <2>2, <2>3 DEF TypeOK, ServerStops, Upset
  <2>5. WaiterLocks' /\ CommandKeepsSocket'
    BY <1>4 DEF TypeOK, WaiterLocks, CommandKeepsSocket, ServerStops, Upset, CallerType, CliType
  <2>6. NewOnce' /\ NextHelo'
    BY <1>4 DEF TypeOK, NewOnce, NextHelo, ServerStops, Upset, CtxType, ThreadType, ToldType
  <2> QED BY <2>4, <2>5, <2>6
<1>5. CASE ServerStarts
  <2>1. sock' \in SockType
    BY <1>5 DEF TypeOK, ServerStarts, Upset, SockType
  <2>2. bounds' \in [commands : 0..MaxCommands, upsets : 0..MaxUpsets]
    BY <1>5 DEF TypeOK, ServerStarts, Upset
  <2>3. TypeOK'
    BY <1>5, <2>1, <2>2 DEF TypeOK, ServerStarts, Upset
  <2>4. WaiterLocks' /\ CommandKeepsSocket'
    BY <1>5 DEF TypeOK, WaiterLocks, CommandKeepsSocket, ServerStarts, Upset, CallerType, CliType
  <2>5. NewOnce' /\ NextHelo'
    BY <1>5 DEF TypeOK, NewOnce, NextHelo, ServerStarts, Upset, CtxType, ThreadType, ToldType
  <2> QED BY <2>3, <2>4, <2>5
<1> QED
  BY <1>1, <1>2, <1>3, <1>4, <1>5 DEF Slimproto, Caller, Wiper

LEMMA Invariance == Spec => []IInv
<1>1. IInv /\ [Next]_vars => IInv'
  <2> SUFFICES ASSUME IInv, [Next]_vars PROVE IInv'
    OBVIOUS
  <2>1. CASE Next
    BY <2>1, ThreadKeeps, EventKeeps, CallerKeeps, OthersKeep DEF Next
  <2>2. CASE UNCHANGED vars
    BY <2>2 DEF vars, IInv, TypeOK, WaiterLocks, CommandKeepsSocket, NewOnce, NextHelo
  <2> QED BY <2>1, <2>2
<1> QED BY InitInv, <1>1, PTL DEF Spec

\* The link is well typed, the socket a command waits on is not closed under it
\* by slimproto, and LMS is told of a new player once after the start and once
\* after a switch (slimproto.c:571-578, 881-944).
THEOREM LinkIsSound == Spec => []LinkOK
<1>1. IInv => LinkOK
  BY DEF IInv, LinkOK
<1> QED BY Invariance, <1>1, PTL
=============================================================================
