SPECIFICATION FairSpec
CONSTANTS
    n1 = n1
    d1 = d1
    d2 = d2
    r1 = r1
    r2 = r2
    k1 = k1
    NoDevice = NoDevice
    Requests = {r1, r2}
    Deletes = {k1}
    Nodes = {n1}
    Devices = {d1}
    HostOf <- OneHost
    Matches <- AnyOrFirst
    MaxConnections = 2
INVARIANTS
    TypeOK
    AllocationExclusive
    PoolAccounted
PROPERTIES
    PoolLeavesWithAnswer
    ImplementsLease
    EveryRequestAnswered
    PoolEntryReleased
CHECK_DEADLOCK FALSE
