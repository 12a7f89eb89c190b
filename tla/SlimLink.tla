------------------------------- MODULE SlimLink -------------------------------
(***************************************************************************)
(* The link of one player to LMS: the thread that discovers a server,      *)
(* connects, reconnects and switches (slimproto), the CLI socket that the  *)
(* thread of the renderer opens beside it (cli_send_cmd) and that both     *)
(* close, and the removal of the player (sq_wipe_device).                  *)
(*                                                                         *)
(* An answer on the CLI is two pieces, the first with the command and the  *)
(* last with the end of the line.                                          *)
(***************************************************************************)
EXTENDS Integers, SequencesExt

CONSTANTS Servers,       \* the servers of the network
          Cmds,          \* CLI commands
          Caps,          \* synchronisation groups a serv may name
          MaxFailed,     \* failed connections before a server is searched again
          MaxTimeouts,   \* seconds without an event before the server counts as dead
          MaxCommands,   \* bound on the CLI commands
          MaxUpsets      \* bound on what servers, LMS and the user may do

ASSUME SlimLinkAssumption ==
  /\ {MaxFailed, MaxTimeouts, MaxCommands, MaxUpsets} \subseteq Nat
  /\ MaxTimeouts > 0

None == "none"
ASSUME NoneAssumption == None \notin Servers \cup Caps

VARIABLES
  ctx,     \* running, in_use, the server that is set, and what slimproto keeps
  slim,    \* the thread: where it is, where discover_server returns to
  sock,    \* its socket: the server, and whether the server still holds it
  cli,     \* cli_sock, what is in it
  mutex,   \* cli_mutex
  caller,  \* the thread of the renderer in cli_send_cmd
  wiper,   \* the thread in sq_wipe_device
  up,      \* servers that are there
  told,    \* history: the last HELO, and what the last serv asked for
  bounds   \* how many commands and upsets there were

vars == <<ctx, slim, sock, cli, mutex, caller, wiper, up, told, bounds>>

Closed == [server |-> None, peer |-> "none"]
CliClosed == [server |-> None, alive |-> FALSE, wire |-> <<>>, owed |-> <<>>]

Init ==
  /\ \E server \in Servers \cup {None} :
       ctx = [running |-> TRUE, in_use |-> TRUE, config |-> server, slimproto_ip |-> server,
              serv_addr |-> None, new_server |-> None, new_server_cap |-> None,
              reconnect |-> FALSE, failed_connect |-> 0]
  /\ slim = [at |-> "discover", then |-> "loop", timeouts |-> 0]
  /\ sock = Closed /\ cli = CliClosed /\ mutex = "free"
  /\ caller = [at |-> "idle", cmd |-> None, got |-> <<>>]
  /\ wiper = "idle"
  /\ up \in SUBSET Servers
  /\ told = [server |-> None, reconnect |-> FALSE, cap |-> None, helos |-> "none",
             to |-> None, wanted |-> None]
  /\ bounds = [commands |-> 0, upsets |-> 0]

-----------------------------------------------------------------------------
\* discover_server, slimproto

\* A mutant: the search goes on although the player is removed.
GivesUp_Never == FALSE

GivesUp == ~ctx.running

\* The server that is set is asked, or all are.
Answering == {s \in up : ctx.slimproto_ip \in {None, s}}

Discover ==
  /\ slim.at = "discover"
  /\ \/ \E s \in Answering : ctx' = [ctx EXCEPT !.slimproto_ip = s, !.serv_addr = s]
     \/ Answering = {} /\ GivesUp /\ ctx' = [ctx EXCEPT !.slimproto_ip = None, !.serv_addr = None]
  /\ slim' = [slim EXCEPT !.at = slim.then]
  /\ UNCHANGED <<sock, cli, mutex, caller, wiper, up, told, bounds>>

Loop ==
  /\ slim.at = "loop"
  /\ IF ~ctx.running THEN slim' = [slim EXCEPT !.at = "ended"] /\ UNCHANGED ctx
     ELSE IF ctx.new_server # None
       THEN /\ ctx' = [ctx EXCEPT !.slimproto_ip = ctx.new_server, !.new_server = None,
                                  !.reconnect = FALSE]
            /\ slim' = [slim EXCEPT !.at = "discover", !.then = "connect"]
       ELSE slim' = [slim EXCEPT !.at = "connect"] /\ UNCHANGED ctx
  /\ UNCHANGED <<sock, cli, mutex, caller, wiper, up, told, bounds>>

Helo ==
  told' = [told EXCEPT !.server = ctx.serv_addr, !.reconnect = ctx.reconnect,
                       !.cap = ctx.new_server_cap, !.helos = IF @ = "none" THEN "first" ELSE "later"]

Connect ==
  /\ slim.at = "connect" /\ ctx.serv_addr \in up
  /\ sock' = [server |-> ctx.serv_addr, peer |-> "open"]
  /\ Helo
  /\ ctx' = [ctx EXCEPT !.new_server_cap = None, !.failed_connect = 0]
  /\ slim' = [slim EXCEPT !.at = "run", !.timeouts = 0]
  /\ UNCHANGED <<cli, mutex, caller, wiper, up, bounds>>

\* Only a server that was not set at startup is searched again.
Rediscovers == ctx.config = None /\ ctx.failed_connect >= MaxFailed

ConnectFails ==
  /\ slim.at = "connect" /\ ctx.serv_addr \notin up
  /\ ctx' = [ctx EXCEPT
       !.failed_connect = IF ctx.config = None /\ ~Rediscovers THEN @ + 1 ELSE @,
       !.slimproto_ip = IF Rediscovers THEN None ELSE @]
  /\ slim' = IF Rediscovers THEN [slim EXCEPT !.at = "discover", !.then = "close"]
             ELSE [slim EXCEPT !.at = "close"]
  /\ UNCHANGED <<sock, cli, mutex, caller, wiper, up, told, bounds>>

\* After every turn: the CLI socket is closed under its mutex.
Close ==
  /\ slim.at = "close" /\ mutex = "free"
  /\ cli' = CliClosed /\ sock' = Closed
  /\ ctx' = [ctx EXCEPT !.new_server_cap = None]
  /\ slim' = [slim EXCEPT !.at = "loop"]
  /\ UNCHANGED <<mutex, caller, wiper, up, told, bounds>>

-----------------------------------------------------------------------------
\* slimproto_run

Runs == slim.at = "run" /\ ctx.running /\ ctx.new_server = None

Leaves == /\ slim' = [slim EXCEPT !.at = "close"]
          /\ ctx' = [ctx EXCEPT !.reconnect = TRUE]

RunEnds ==
  /\ slim.at = "run" /\ ~(ctx.running /\ ctx.new_server = None)
  /\ Leaves
  /\ UNCHANGED <<sock, cli, mutex, caller, wiper, up, told, bounds>>

\* A mutant: the CLI socket is closed whoever uses it.
CloseIdleCli_Anyway == cli' \in {cli, CliClosed}

\* With every event: the CLI socket is closed if its time had passed when the
\* thread looked at it, which a command may since have changed, and if it can
\* be locked.
CloseIdleCli == cli' \in {cli} \cup {c \in {CliClosed} : mutex = "free"}

\* A message, or a part of one, that changes nothing here; or a wake_controller.
Event ==
  /\ Runs /\ sock.peer = "open"
  /\ slim' = [slim EXCEPT !.timeouts = 0]
  /\ CloseIdleCli
  /\ UNCHANGED <<ctx, sock, mutex, caller, wiper, up, told, bounds>>

Upset == bounds.upsets < MaxUpsets /\ bounds' = [bounds EXCEPT !.upsets = @ + 1]

\* Decoder, output or renderer wake the controller, whatever the server does.
Wake ==
  /\ Runs /\ sock.peer # "open" /\ Upset
  /\ slim' = [slim EXCEPT !.timeouts = 0]
  /\ CloseIdleCli
  /\ UNCHANGED <<ctx, sock, mutex, caller, wiper, up, told>>

\* process_serv
Serv ==
  /\ Runs /\ sock.peer = "open" /\ Upset
  /\ \E s \in Servers, cap \in Caps \cup {None} :
       /\ ctx' = [ctx EXCEPT !.new_server = s, !.new_server_cap = cap]
       /\ told' = [told EXCEPT !.to = s, !.wanted = cap, !.helos = "none"]
  /\ slim' = [slim EXCEPT !.timeouts = 0]
  /\ CloseIdleCli
  /\ UNCHANGED <<sock, mutex, caller, wiper, up>>

\* recv: the server has closed.
ServerClosed ==
  /\ Runs /\ sock.peer = "closed"
  /\ Leaves
  /\ UNCHANGED <<sock, cli, mutex, caller, wiper, up, told, bounds>>

\* A mutant: a second without an event counts as an event.
Counted_Again(timeouts) == 0

Counted(timeouts) == timeouts + 1

Dead == slim.timeouts >= MaxTimeouts

\* A second without an event.  A server that is there sends something in time.
Timeout ==
  /\ Runs /\ sock.peer # "closed"
  /\ IF Dead THEN Leaves
     ELSE slim' = [slim EXCEPT !.timeouts = Counted(@)] /\ UNCHANGED ctx
  /\ sock.peer = "open" => ~Dead
  /\ UNCHANGED <<sock, cli, mutex, caller, wiper, up, told, bounds>>

-----------------------------------------------------------------------------
\* cli_send_cmd

\* sq_notify and its like look at the player before they take the mutex.
CallerChecks ==
  /\ caller.at = "idle" /\ ctx.running /\ ctx.in_use
  /\ bounds.commands < MaxCommands
  /\ \E cmd \in Cmds : caller' = [at |-> "checked", cmd |-> cmd, got |-> <<>>]
  /\ bounds' = [bounds EXCEPT !.commands = @ + 1]
  /\ UNCHANGED <<ctx, slim, sock, cli, mutex, wiper, up, told>>

Idle == [at |-> "idle", cmd |-> None, got |-> <<>>]

Line(cmd) == <<[cmd |-> cmd, end |-> FALSE], [cmd |-> cmd, end |-> TRUE]>>

\* The socket cli_open_socket finds or opens.
Opened ==
  IF cli.server # None THEN cli
  ELSE [CliClosed EXCEPT !.server = ctx.slimproto_ip, !.alive = TRUE]

CannotOpen ==
  /\ caller.at = "checked" /\ mutex = "free"
  /\ cli.server = None /\ ctx.slimproto_ip \notin up
  /\ caller' = Idle
  /\ UNCHANGED <<ctx, slim, sock, cli, mutex, wiper, up, told, bounds>>

SendCmd ==
  /\ caller.at = "checked" /\ mutex = "free"
  /\ cli.server # None \/ ctx.slimproto_ip \in up
  /\ cli' = [Opened EXCEPT !.owed = IF Opened.alive THEN @ \o Line(caller.cmd) ELSE @]
  /\ mutex' = "caller"
  /\ caller' = [caller EXCEPT !.at = "waits"]
  /\ UNCHANGED <<ctx, slim, sock, wiper, up, told, bounds>>

ServerAnswers ==
  /\ cli.alive
  /\ \E n \in 1..Len(cli.owed) :
       cli' = [cli EXCEPT !.wire = @ \o SubSeq(cli.owed, 1, n),
                          !.owed = SubSeq(@, n + 1, Len(@))]
  /\ UNCHANGED <<ctx, slim, sock, mutex, caller, wiper, up, told, bounds>>

\* The end of a line, and the command, were received.
Complete(got) ==
  /\ \E i \in DOMAIN got : got[i].end
  /\ \E i \in DOMAIN got : ~got[i].end /\ got[i].cmd = caller.cmd

\* There is an end of line behind the first of the command.
HasEnd(got) ==
  \E i, j \in DOMAIN got :
    /\ ~got[i].end /\ got[i].cmd = caller.cmd /\ j > i /\ got[j].end

\* strrchr finds no end of line: the program crashes.
Receive ==
  /\ caller.at = "waits" /\ cli.wire # <<>>
  /\ LET got == caller.got \o cli.wire
     IN IF Complete(got)
          THEN /\ caller' = IF HasEnd(got) THEN Idle ELSE [caller EXCEPT !.at = "crash", !.got = got]
               /\ mutex' = "free"
          ELSE caller' = [caller EXCEPT !.got = got] /\ UNCHANGED mutex
  /\ cli' = [cli EXCEPT !.wire = <<>>]
  /\ UNCHANGED <<ctx, slim, sock, wiper, up, told, bounds>>

\* Half a second without anything, or the server has closed: the socket stays.
NoAnswer ==
  /\ caller.at = "waits" /\ cli.wire = <<>>
  /\ caller' = Idle /\ mutex' = "free"
  /\ UNCHANGED <<ctx, slim, sock, cli, wiper, up, told, bounds>>

-----------------------------------------------------------------------------
\* sq_wipe_device, slimproto_close

WipeStarts ==
  /\ wiper = "idle" /\ mutex = "free"
  /\ ctx' = [ctx EXCEPT !.in_use = FALSE]
  /\ wiper' = "unused"
  /\ UNCHANGED <<slim, sock, cli, mutex, caller, up, told, bounds>>

StopThread ==
  /\ wiper = "unused"
  /\ ctx' = [ctx EXCEPT !.running = FALSE]
  /\ wiper' = "joins"
  /\ UNCHANGED <<slim, sock, cli, mutex, caller, up, told, bounds>>

\* The mutexes are destroyed, then the buffers.
Joined ==
  /\ wiper = "joins" /\ slim.at = "ended"
  /\ wiper' = "wiped"
  /\ UNCHANGED <<ctx, slim, sock, cli, mutex, caller, up, told, bounds>>

-----------------------------------------------------------------------------
\* A server stops: its connections are closed, or lost without a word.
ServerStops ==
  /\ Upset
  /\ \E s \in up, peer \in {"closed", "lost"} :
       /\ up' = up \ {s}
       /\ sock' = IF sock.server = s THEN [sock EXCEPT !.peer = peer] ELSE sock
       /\ cli' = IF cli.server = s THEN [cli EXCEPT !.alive = FALSE, !.owed = <<>>] ELSE cli
  /\ UNCHANGED <<ctx, slim, mutex, caller, wiper, told>>

ServerStarts ==
  /\ Upset
  /\ \E s \in Servers \ up :
       /\ up' = up \cup {s}
       /\ \/ sock' = sock
          \/ /\ sock.server = s /\ sock.peer = "lost"
             /\ sock' = [sock EXCEPT !.peer = "closed"]
  /\ UNCHANGED <<ctx, slim, cli, mutex, caller, wiper, told>>

Slimproto == Discover \/ Loop \/ Connect \/ ConnectFails \/ Close
             \/ RunEnds \/ ServerClosed \/ Timeout

Caller == CannotOpen \/ SendCmd \/ Receive \/ NoAnswer

Wiper == StopThread \/ Joined

Alive == caller.at # "crash"

Next ==
  /\ Alive
  /\ \/ Slimproto \/ Event \/ Wake \/ Serv
     \/ CallerChecks \/ Caller \/ ServerAnswers
     \/ WipeStarts \/ Wiper
     \/ ServerStops \/ ServerStarts

\* The three threads run; nobody has to wake one, to call or to remove.
Spec ==
  /\ Init /\ [][Next]_vars
  /\ WF_vars(Alive /\ Slimproto)
  /\ WF_vars(Alive /\ Caller) /\ WF_vars(Alive /\ Wiper)

-----------------------------------------------------------------------------
\* A piece of an answer.
Piece == [cmd : Cmds \cup {None}, end : BOOLEAN]

CtxType == [running : BOOLEAN, in_use : BOOLEAN, config : Servers \cup {None},
            slimproto_ip : Servers \cup {None}, serv_addr : Servers \cup {None},
            new_server : Servers \cup {None}, new_server_cap : Caps \cup {None},
            reconnect : BOOLEAN, failed_connect : 0..MaxFailed]

ThreadType == [at : {"discover", "loop", "connect", "run", "close", "ended"},
               then : {"loop", "connect", "close"}, timeouts : 0..MaxTimeouts]

SockType == [server : Servers \cup {None}, peer : {"none", "open", "closed", "lost"}]

CliType == [server : Servers \cup {None}, alive : BOOLEAN, wire : Seq(Piece), owed : Seq(Piece)]

CallerType == [at : {"idle", "checked", "waits", "crash"}, cmd : Cmds \cup {None},
               got : Seq(Piece)]

ToldType == [server : Servers \cup {None}, reconnect : BOOLEAN, cap : Caps \cup {None},
             helos : {"none", "first", "later"}, to : Servers \cup {None},
             wanted : Caps \cup {None}]

TypeOK ==
  /\ ctx \in CtxType /\ slim \in ThreadType /\ sock \in SockType
  /\ cli \in CliType /\ caller \in CallerType /\ told \in ToldType
  /\ mutex \in {"free", "caller"}
  /\ wiper \in {"idle", "unused", "joins", "wiped"}
  /\ up \subseteq Servers
  /\ bounds \in [commands : 0..MaxCommands, upsets : 0..MaxUpsets]

\* The socket a command waits on is not closed under it, whichever of its two
\* reasons the other thread has (slimproto.c:571-578 and 939-944).
CommandKeepsSocket == caller.at = "waits" => cli.server # None

\* LMS is told of a new player once after the start and once after a switch,
\* and of the same one after that, however many connections failed or were lost
\* in between (slimproto, 881-934).
NewOnce ==
  told.helos # "none" => (told.reconnect <=> told.helos = "later")

LinkOK == TypeOK /\ CommandKeepsSocket /\ NewOnce

\* A server that was set, or switched to, and is gone is waited for.
WaitsForOne ==
  \/ up = {}
  \/ slim.at = "discover" /\ ctx.slimproto_ip \notin up \cup {None}
  \/ /\ slim.at \in {"connect", "close", "loop"}
     /\ ctx.config # None /\ ctx.serv_addr \notin up

Removed == ~ctx.in_use

\* A player whose server closed or went silent, is restarted or switched, is in
\* the end connected to a server that is there (slimproto, slimproto_run,
\* 582-587), unless it waits for one that is not.
FindsServer ==
  <>[](~Alive \/ Removed \/ WaitsForOne \/ (slim.at = "run" /\ sock.peer = "open"))

\* A removal ends, whatever the thread it joins was doing: searching for a
\* server that is not there, or waiting for the mutex of a command.
WipeEnds == wiper = "unused" ~> wiper = "wiped" \/ ~Alive

\* A server the player is sent to with a group gets the group with the HELO
\* (slimproto, 921-926).
CapIsForwarded == told.helos # "none" /\ told.to # None => told.cap = told.wanted

\* The answer that is taken has the end of line that is looked for behind the
\* command (cli_send_cmd, 219 and 243-261).
AnswerHasEnd == Alive

=============================================================================
