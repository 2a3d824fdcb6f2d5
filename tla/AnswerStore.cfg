SPECIFICATION Spec
CONSTANTS
    k1 = k1
    k2 = k2
    k3 = k3
    k4 = k4
    h1 = h1
    h2 = h2
    h3 = h3
    NoSlot = NoSlot
    Keys = {k1, k2, k3, k4}
    Hashes = {h1, h2, h3}
    HashOf <- MCHash
    Answers <- MCAnswers
    Budget = 5
    SmallTarget = 2
    OversizeLimit = 3
    GhostCap = 2
    GhostCost = 1
    MaxFreq = 2
    MaxTime = 2
    MaxCall = 1
SYMMETRY Twins
INVARIANTS
    ShardAgrees
    WithinBudget
    NewcomerStays
    ExpiredNeverPromoted
PROPERTIES
    IsLossyMap
