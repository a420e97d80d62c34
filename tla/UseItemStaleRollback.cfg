SPECIFICATION Spec
CONSTANTS
    Requests = {r1, r2}
    r1 = r1
    r2 = r2
    InitialStock = 2
    LockRetryCount = 1
    MaxResets = 1
    MaxRepeats = 0
    Faults = {"kafkaError"}
    LossyCalls = {}
    NoKey = NoKey
    NoToken = NoToken
INVARIANTS
    StockWithinInitial
