SPECIFICATION Spec
CONSTANTS
    NoEntry = NoEntry
    NoValue = NoValue
    k1 = k1
    k2 = k2
    NullKey = NullKey
    vNull = vNull
    v1 = v1
    v2 = v2
    Keys <- MCKeys
    Values <- MCValues
    ValueOf <- MCValueOf
    MaxCount = 2
INVARIANTS
    TypeOK
    LiveValues
PROPERTY
    CountsImplemented
