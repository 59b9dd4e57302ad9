\* Each part on its own: sockets that open, are refused, time out and are lost with
\* webs that come and go behind them; three CLIs of which one is killed; two webs
\* and two boards.
CONSTANTS
    None = None
    Sockets = {k1, k2}
    Contexts = {c1, c2}
    MaxReconnectAttempts = 2
    MaxMissedPongs = 2
    MaxPending = 2
    MaxMessages = 3
    Clis = {c1, c2, c3}
    MaxAge = 2
    MaxCrashes = 1
    BoardWebs = {w1, w2}
    MaxBoards = 2
SPECIFICATION MachineSpec
INVARIANTS NotStranded RelayHasSocket HandledInOrder BoardsInPlace InstancesListed
PROPERTIES Settles RegistryHeals
CHECK_DEADLOCK FALSE
