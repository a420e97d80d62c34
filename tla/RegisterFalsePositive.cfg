SPECIFICATION Spec
CONSTANTS
    Requests = {1, 3, 4}
    Names = {"ann", "bob", "eve"}
    NameOf <- MCNameOf
    EmailOf <- OwnEmail
    Fnv1a <- MCFnv1a
    Djb2 <- MCDjb2
    BitSize = 8
    NumHashes = 2
    Seeded = {}
    SeededReaders = {}
    SeededEmails = {}
    Faults = {}
INVARIANTS
    FilterTruthful
