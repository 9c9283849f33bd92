SPECIFICATION Spec
CONSTANTS
    UsizeBytes = 3
    StreamValues <- MCValues
    RawPairs <- MCRawPairs
    WrapInLists = TRUE
    MaxSize = 60
    MaxLen = 2
    MaxCalls = 4
INVARIANT WrapperCountsOnce
