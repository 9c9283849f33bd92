SPECIFICATION Spec
CONSTANTS
    NoEntry = NoEntry
    NoValue = NoValue
    Absent = Absent
    Deleted = Deleted
    Unbuffered = Unbuffered
    Latest = Latest
    NoEra = NoEra
    NoRead = NoRead
    k1 = k1
    k2 = k2
    s1 = s1
    s2 = s2
    Keys <- MCKeys
    ShortKeys <- TwoShortKeys
    Short <- OwnShort
    Size <- TwoSize
    Writers <- OneWriter
    MaxEra = 2
    MaxBlocks = 3
    MaxCrashes = 0
    History = 1
    Forks = FALSE
    MaxOverlay = 2
INVARIANTS
    AtomicCommit
CHECK_DEADLOCK FALSE
