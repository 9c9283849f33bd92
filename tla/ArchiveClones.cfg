SPECIFICATION Spec
CONSTANTS
    NoEntry = NoEntry
    NoValue = NoValue
    Absent = Absent
    Deleted = Deleted
    Unbuffered = Unbuffered
    Latest = Latest
    NoEra = NoEra
    Dropped = Dropped
    h1 = h1
    h2 = h2
    k1 = k1
    k2 = k2
    Settings <- MCSettings
    Handles <- TwoHandles
    First = h1
    Keys <- OneKey
    MaxEra = 2
INVARIANTS
    TypeOK
    ArchiveKeepsAll
    ExecutionReads
    LatestEraAlone
