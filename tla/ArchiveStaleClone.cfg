SPECIFICATION Spec
CONSTANTS
    NoEntry = NoEntry
    NoValue = NoValue
    Absent = Absent
    Deleted = Deleted
    Unbuffered = Unbuffered
    Latest = Latest
    NoEra = NoEra
    Dropped = Dropped
    h1 = h1
    h2 = h2
    k1 = k1
    k2 = k2
    Settings <- ShortWithLog
    Handles <- TwoHandles
    First = h1
    Keys <- MCKeys
    MaxEra = 1
INVARIANTS
    LatestEraExact
