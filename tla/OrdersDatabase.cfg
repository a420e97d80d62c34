SPECIFICATION PipelineSpec
CONSTANTS
    Requests = {r1, r2, r3}
    r1 = r1
    r2 = r2
    r3 = r3
    InitialStock = 2
    LockRetryCount = 1
    MaxResets = 0
    MaxRepeats = 2
    ApiFaults = {"kafkaError"}
    LossyCalls = {"emit"}
    NoKey = NoKey
    NoToken = NoToken
    Consumers = {c1}
    c1 = c1
    Partitions = {p1, p2}
    p1 = p1
    p2 = p2
    BatchSize = 2
    MaxRetries = 2
    UniqueConstraint = TRUE
    EverCommitted = TRUE
    MaxEvents = 3
    ConsumerFaults = {"dbDown", "replyLost", "commitFails"}
    MaxFaults = 1
    NoOwner = NoOwner
INVARIANTS
    OrdersBacked
    OrdersWithinStock
    AnswersOrdered
    NothingLost
PROPERTIES
    CommittedNeverBack
