SPECIFICATION Spec
CONSTANTS
    NoEntry = NoEntry
    NoValue = NoValue
    Absent = Absent
    Deleted = Deleted
    Unbuffered = Unbuffered
    Latest = Latest
    NoEra = NoEra
    NoRead = NoRead
    k1 = k1
    k2 = k2
    s1 = s1
    s2 = s2
    Keys <- MCKeys
    ShortKeys <- OneShortKey
    Short <- SharedShort
    Size <- OneSize
    Writers <- MCWriters
    MaxEra = 3
    MaxBlocks = 4
    MaxCrashes = 1
    History = 1
    Forks = TRUE
    MaxOverlay = 50
INVARIANTS
    TypeOK
    NoLiveNodeLost
    ReadersNeverMiss
    CrashSafe
    CanReconstructRefs
    EarliestEraExact
    NoLeak
SYMMETRY SharedSymmetry
CHECK_DEADLOCK FALSE
