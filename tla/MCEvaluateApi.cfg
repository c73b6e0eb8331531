CONSTANTS
    None = None
    h1 = h1
    h2 = h2
    k1 = k1
    k2 = k2
    Slots <- TwoHandlers
    Keys = {k1, k2}
    Bodies <- MixedBodies
    Capacity = 1
    Ttl = 1
    StaleThreshold = 1
    MaxTime = 2
    MaxAttempts = 3
SPECIFICATION Spec
INVARIANTS StoreOK ReplayIsOwn ExecutedTwiceOnlyAfterLoss HashedRulesMatch
CHECK_DEADLOCK FALSE
