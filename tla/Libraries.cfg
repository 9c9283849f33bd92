SPECIFICATION LibSpec
CONSTANTS
    UsizeBytes = 3
    StreamValues <- MCValues
    RawPairs <- MCRawPairs
    WrapInLists = FALSE
    MaxSize = 60
    MaxLen = 2
    MaxCalls = 4
    BLOOM_SIZE = 256
    HashBytes <- MCHashBytes
    BLOCK_BYTES = 2
    WordBase = 4
    HashKeys <- MCKeys
    MaxInput = 10
    NoEntry = NoEntry
    NoValue = NoValue
    TrieKeys = {k1, k2}
    TrieValues = {v1, v2}
    EmptyValue = EmptyValue
    None = None
    MaxAux = 3
    Addresses <- MCAddresses
    Nodes <- MCNodes
    MaxRefs = 2
    Threads = {t1, t2}
    LOG_SIZE = 2
    MaxUses = 4
    ByteBase = 2
    LimbBytes = 2
    Vacant = Vacant
    Deleted = Deleted
    Unbuffered = Unbuffered
    DbNames = {"blocks", "state"}
    StoreKeys <- MCStoreKeys
    SearchPrefixes <- MCPrefixes
    Transactions <- MCTransactions
    Limit = 2
    MaxWrites = 4
    MaxOpens = 2
    MaxSlots = 3
    MaxDepth = 3
    Failed = Failed
    JsonNull = JsonNull
INVARIANTS
    StreamsWrite
    StreamsRead
    HashesWhatWasFed
    KindsAgree
    AccountsApart
    LoggersAgree
    StoresAgree
    OneOwner
    ConversionsExact
    NodesReadBack
    ReceiptsFound
