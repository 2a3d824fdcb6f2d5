SPECIFICATION Spec
CONSTANTS
    t1 = t1
    t2 = t2
    Tasks = {t1, t2}
    Arrivals <- MCArrivals
    Groups = {"g", "h"}
    Backends <- MCBackends
    Policy <- MCPolicy
    Hooked = TRUE
    Coalesce = TRUE
    FakeRules <- MCFakeRules
    UdpMax = 2
    EdnsMax = 4
    Room = 1
    Names <- MCNames
    Range4 = 2
    Range6 = 1
    Hash <- MCHash
    Ttl = 2
    Second = 2
    MaxTime = 2
    None = None
INVARIANTS
    ResponseFitsQuery
    ExtendedRcodeKept
    ContentMatches
    MapsInverse
    RecordsHonoured
PROPERTIES
    MappingsOnlyAge
CONSTRAINT
    FakeWhileServing
CHECK_DEADLOCK FALSE
