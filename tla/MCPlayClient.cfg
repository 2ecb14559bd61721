\* One other user, one join or leave, two phases, one connection lost, one ready
\* command, one handler that fails.  Nobody is bound to act.
CONSTANTS
  Others = {o}
  me = me
  None = None
  MaxMoves = 1
  MaxTransitions = 2
  MaxDrops = 1
  MaxCommands = 1
  MaxFailures = 1
CHECK_DEADLOCK FALSE
SPECIFICATION Spec
INVARIANT TypeOK
INVARIANT NeverAhead
INVARIANT GameIsShown
INVARIANT LobbyIsShown
