SPECIFICATION FairSpec
CONSTANTS
    Consumers = {c1}
    Partitions = {p1, p2, p3}
    c1 = c1
    p1 = p1
    p2 = p2
    p3 = p3
    BatchSize = 3
    MaxRetries = 4
    UniqueConstraint = FALSE
    EverCommitted = TRUE
    MaxEvents = 3
    Faults = {"dbDown", "replyLost", "commitFails", "crashUnsaved"}
    MaxFaults = 3
    NoOwner = NoOwner
INVARIANTS
    CommittedIsSaved
    NoDuplicateOrders
    SavedIsCommitted
    NothingLost
PROPERTIES
    OnlyTailUnsaved
