SPECIFICATION TimedFairSpec
CONSTANTS
    Requests = {r1, r2}
    r1 = r1
    r2 = r2
    InitialStock = 1
    LockRetryCount = 5
    MaxResets = 0
    MaxRepeats = 2
    Faults = {"kafkaError", "crash"}
    LossyCalls = {"acquire"}
    NoKey = NoKey
    NoToken = NoToken
    LockTTL = 6
INVARIANTS
    ContendedByMany
PROPERTIES
    LockAlwaysFreed
