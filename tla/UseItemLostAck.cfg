SPECIFICATION Spec
CONSTANTS
    Requests = {r1, r2}
    r1 = r1
    r2 = r2
    InitialStock = 2
    LockRetryCount = 1
    MaxResets = 0
    MaxRepeats = 1
    Faults = {"kafkaError"}
    LossyCalls = {"emit"}
    NoKey = NoKey
    NoToken = NoToken
INVARIANTS
    RedisKafkaConsistent
