SPECIFICATION Spec
CONSTANTS
    q1 = q1
    q2 = q2
    q3 = q3
    k1 = k1
    k2 = k2
    h = h
    None = None
    Queries = {q1, q2, q3}
    Keys = {k1}
    KeyOf <- OneKey
    Hashes = {h}
    HashOf <- OneHash
    Coalesce = TRUE
    ServeStale = TRUE
    ClientTimeout = FALSE
    FailureCache = FALSE
    Prefetch = TRUE
    Pressure = FALSE
    Ttl = 2
    MaxStale = 2
    FailureRecheck = 1
    InitialBackoff = 1
    MaxBackoff = 2
    MinHits = 1
    ThresholdPercent = 50
    MaxRefreshTasks = 2
    MaxTime = 4
    MaxPurges = 0
SYMMETRY QuerySymmetry
INVARIANTS
    StaleCoversFailure
