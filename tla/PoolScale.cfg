SPECIFICATION FairSpec
CONSTANTS
    Callers = {c1, c2}
    Conns = {e1, e2}
    Attempts = {a1, a2}
    None = None
    MaxConnections = 2
    MaxInFlight = 2
    IdleTimeout = 1
    ReadTimeout = 1
    MaxLifetime = None
    ScaleBackoff = 1
    TimeoutLimit = 1
    MaxTime = 0
INVARIANTS
    WithinLimit
    JanitorInTime
PROPERTIES
    WaitsEnd
