SPECIFICATION Spec
CONSTANTS
    k1 = k1
    k2 = k2
    v1 = v1
    p1 = p1
    c1 = c1
    Missing = Missing
    Unset = Unset
    Panic = Panic
    EmptyCode = EmptyCode
    Unknown = Unknown
    NoAccount = NoAccount
    Keys <- MCKeys
    Values <- MCValues
    Zeros <- MCZeros
    Padded <- MCPadded
    Settable <- MCSettable
    Codes <- MCCodes
    CacheSize = 1
INVARIANTS
    TypeOK
    CacheCoherent
    ReadsLastWrite
    RootTellsAll
    CodeKept
