SPECIFICATION FairSpec
CONSTANTS
    Devices = {d1}
    MaxReports = 3
INVARIANTS
    TypeOK
    GoneIsForgotten
    ControllerHasDevice
PROPERTIES
    PluggedIsAnnounced
CHECK_DEADLOCK FALSE
