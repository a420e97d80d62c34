SPECIFICATION AccessSpec
CONSTANTS
    Requests = {1, 2, 4}
    Names = {"ann", "eve", "dan", "ada"}
    NameOf <- MCNameOf
    EmailOf <- MCEmailOf
    Fnv1a <- MCFnv1a
    Djb2 <- MCDjb2
    BitSize = 8
    NumHashes = 2
    Seeded = {"dan", "ada"}
    SeededReaders = {"ada"}
    SeededEmails = {"dan", "ada"}
    Faults = {"redisError", "keycloakError", "replyLost", "crash"}
    ClientOf <- MCClientOf
    Grants <- MCGrants
    Providers = {"keycloak", "entra-id"}
    None = None
INVARIANTS
    RegisteredOnce
    RegisteredComplete
    FilteredExplained
    FilterBehindKeycloak
    RolelessExplained
    AccessTypeOK
    RegisteredCanRead
    NewUsersOnlyRead
    GrantsDecide
