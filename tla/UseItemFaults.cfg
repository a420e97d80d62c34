SPECIFICATION Spec
CONSTANTS
    Requests = {r1, r2, r3}
    r1 = r1
    r2 = r2
    r3 = r3
    InitialStock = 2
    LockRetryCount = 2
    MaxResets = 1
    MaxRepeats = 2
    Faults = {"redisError", "kafkaError", "crash"}
    LossyCalls = {"acquire", "decrement", "release", "unwind", "emit"}
    NoKey = NoKey
    NoToken = NoToken
SYMMETRY RequestSymmetry
INVARIANTS
    IndInv
    LeaseExclusion
    DistinctUnits
    UnitsConserved
    UnitsBounded
    NoOversell
    RedisKafkaGap
PROPERTIES
    OnlyOwnerReleases
    LedgerSpec
