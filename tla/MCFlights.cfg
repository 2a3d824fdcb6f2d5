SPECIFICATION FairSpec
CONSTANTS
    Callers = {c1, c2, c3}
    k1 = k1
    k2 = k2
    h1 = h1
    h2 = h2
    Keys = {k1, k2, k3}
    Hashes = {h1, h2}
    HashOf <- MCHash
    NoFlight = NoFlight
INVARIANTS
    RegistrySound
    FollowersShareKey
    NobodyStranded
PROPERTIES
    CountIsFinal
    FollowersReturn
