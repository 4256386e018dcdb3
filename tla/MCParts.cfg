CONSTANTS
    Calls = {c1, c2, c3}
    MaxPort = 3
    Runs = {s1, s2}
    Old = old
    Requests = {req1, req2, req3}
    Pictures = {p, q}
    MaxFrames = 4
    MaxChunk = 13
    MAX_BUFFER_SIZE = 15
    FRAME_SLICE = 3
    Reals = {r1, r2}
    Simulators = {sim}
    Polls = {poll1, poll2}
    NeverUnlocked = {r2}
SPECIFICATION FairSpec
INVARIANTS
    PortsAreDistinct
    OneServer
    OneInstallation
    FramesAreWhole
    LagNeedsBurst
PROPERTIES
    SearchEnds
    KnownInTheEnd
CHECK_DEADLOCK FALSE
