SPECIFICATION Spec
CONSTANTS
    Absent = Absent
    Deleted = Deleted
    Unbuffered = Unbuffered
    Free = Free
    w1 = w1
    w2 = w2
    a = a
    b = b
    k1 = k1
    k2 = k2
    t1 = t1
    t2 = t2
    v1 = v1
    v2 = v2
    Threads <- TwoThreads
    Dbs <- MCDbs
    Priority <- MCPriority
    Keys <- MCKeys
    Values <- MCValues
    TxIds <- MCTxIds
    Ops <- MCOps
    Settings <- FailingSettings
    MaxCrashes = 0
INVARIANTS
    AckedOnDisk
CHECK_DEADLOCK FALSE
