SPECIFICATION Spec
CONSTANTS
    Handlers = {h1, h2}
    h1 = h1
    h2 = h2
    Life = 4
    Margin = 2
    MaxClock = 6
    MaxKeys = 1
    None = None
INVARIANTS
    CacheHonest
PROPERTIES
    LateRefusalOnly
    OutageBounded
