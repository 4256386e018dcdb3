SPECIFICATION Spec
CONSTANTS
    d1 = d1
    c1 = c1
    c2 = c2
    c3 = c3
    u1 = u1
    u2 = u2
    Nobody = Nobody
    Clients = {c1, c2}
    Users = {u1, u2}
    UserOf <- TwoUsers
    Devices = {d1}
    DeviceOf <- SameDevice
    MaxNodes = 1
    MaxObjects = 1
PROPERTIES
    RefusedOnlyWhileUsed
CHECK_DEADLOCK FALSE
