SPECIFICATION Spec
CONSTANTS
    Replicas = {i1, i2}
    i1 = i1
    i2 = i2
    Capacity = 2
    LeakRate = 1
    TicksPerSecond = 2
    MaxClock = 10
    MaxPending = 2
    MaxDelay = 2
    NoKey = NoKey
SYMMETRY ReplicaSymmetry
INVARIANTS
    TypeOK
    AdmissionBound
    OverfillBounded
    ExpiryHarmless
