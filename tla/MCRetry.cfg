CONSTANTS
    None = None
    h1 = h1
    h2 = h2
    k1 = k1
    k2 = k2
    Slots <- TwoHandlers
    Keys = {k1}
    Bodies <- OneBody
    Capacity = 1
    Ttl = 3
    StaleThreshold = 1
    MaxTime = 3
    MaxAttempts = 2
SPECIFICATION Spec
INVARIANTS RetryIsReplayed
CHECK_DEADLOCK FALSE
