CONSTANTS
  MaxPid = 4
  Scripts = {a, b}
  MaxCommands = 2
SPECIFICATION Spec
CHECK_DEADLOCK FALSE
INVARIANT TypeOK
INVARIANT ListenersApart
INVARIANT PidFileNamesServer
PROPERTY StopEndsAll
