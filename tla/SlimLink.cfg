\* Two servers, and any two upsets.
SPECIFICATION Spec
CONSTANTS
  Servers = {s1, s2}
  Cmds = {time, status}
  Caps = {}
  MaxFailed = 1
  MaxTimeouts = 1
  MaxCommands = 2
  MaxUpsets = 2
INVARIANT LinkOK
PROPERTIES FindsServer WipeEnds
\* A player that was removed does nothing more.
CHECK_DEADLOCK FALSE
