SPECIFICATION GridSpec
CONSTANTS
    n1 = n1
    d1 = d1
    d2 = d2
    r1 = r1
    r2 = r2
    r3 = r3
    k1 = k1
    k2 = k2
    NoDevice = NoDevice
    Requests = {r1}
    Deletes = {}
    Nodes = {n1}
    Devices = {d1}
    HostOf <- OneHost
    Matches <- Any
    MaxConnections = 2
INVARIANTS
    ReconnectedIsActive
CHECK_DEADLOCK FALSE
