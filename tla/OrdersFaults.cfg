SPECIFICATION FairSpec
CONSTANTS
    Consumers = {c1, c2}
    Partitions = {p1, p2}
    c1 = c1
    c2 = c2
    p1 = p1
    p2 = p2
    BatchSize = 2
    MaxRetries = 2
    UniqueConstraint = TRUE
    EverCommitted = TRUE
    MaxEvents = 2
    Faults = {"dbDown", "replyLost", "commitFails", "crash", "rebalance"}
    MaxFaults = 2
    NoOwner = NoOwner
INVARIANTS
    TypeOK
    CommitsSaved
PROPERTIES
    FlushEnds
