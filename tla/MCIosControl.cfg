SPECIFICATION Spec
CONSTANTS
    MaxAnnouncements = 2
    MaxStops = 1
    MaxCreations = 1
    MaxTests = 1
INVARIANTS
    TypeOK
    StreamIsReachable
    KnowsItsSession
    KnownHasController
    StartedIsUp
    ControlWorks
    SessionIsDrivers
PROPERTIES
    TestKeepsSession
CHECK_DEADLOCK FALSE
