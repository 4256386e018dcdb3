SPECIFICATION Spec
CONSTANT
    MaxSockets = 4
INVARIANTS
    TypeOK
    StartedHasSocket
    SocketsAreOwned
    ControlIsHeard
    GoneIsQuiet
CHECK_DEADLOCK FALSE
