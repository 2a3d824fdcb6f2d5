SPECIFICATION Spec
CONSTANTS
    Callers = {c1, c2, c3}
    Conns = {e1, e2}
    Attempts = {a1, a2}
    None = None
    MaxConnections = 1
    MaxInFlight = 2
    IdleTimeout = 1
    ReadTimeout = 2
    MaxLifetime = 1
    ScaleBackoff = 1
    TimeoutLimit = 1
    MaxTime = 2
SYMMETRY Renamings
INVARIANTS
    LeasesCounted
    NeverExhausted
    DrainingBounded
