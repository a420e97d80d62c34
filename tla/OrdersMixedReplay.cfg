SPECIFICATION Spec
CONSTANTS
    Consumers = {c1}
    Partitions = {p1, p2, p3}
    c1 = c1
    p1 = p1
    p2 = p2
    p3 = p3
    BatchSize = 3
    MaxRetries = 2
    UniqueConstraint = TRUE
    EverCommitted = TRUE
    MaxEvents = 3
    Faults = {"crash"}
    MaxFaults = 1
    NoOwner = NoOwner
INVARIANTS
    CommittedIsSaved
