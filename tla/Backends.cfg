SPECIFICATION Spec
CONSTANTS
    q1 = q1
    q2 = q2
    q3 = q3
    Callers = {q1, q2}
    Updates = {q2}
    Conns = {1, 2}
    Honest = {1}
    IdCount = 2
    Start = 1
    MaxInFlight = 2
    Limit = 1
    MaxCalls = 4
    None = None
    Calls = {q1, q2}
    HttpUpdates = {q2}
    HttpConns = {1, 2}
    Capacity = 2
    MaxGen = 2
    MaxHttpCalls = 3
    Nil = Nil
    Queries = {q1, q2, q3}
    Changes = {q3}
    QuicConns = {1, 2, 3}
    Runtimes = {1, 2}
    MaxConnections = 2
    MaxQueries = 3
    Nobody = Nobody
    Quarter = 16
    U16 = 1
    U32 = 2
    NameLimit = 9
INVARIANTS
    WaiterHeld
    SlotForEveryLease
    SentAtMostTwice
    GateLetsGo
    SentAgainIfStale
    OnLiveRuntime
PROPERTIES
    IdsStayReserved
    StormTolerated
CONSTRAINT
    StormOnOneConnection
CHECK_DEADLOCK FALSE
