\* Every Update returns under the fairness of Go scheduling and sync.Mutex,
\* with Copy and GetBlocks reading concurrently and names (not storage) in use.
CONSTANTS
    w1 = w1
    w2 = w2
    a1 = a1
    k1 = k1
    n1 = n1
    v1 = v1
    t1 = t1
    t2 = t2
    Writers <- MCWriters
    Addr = {a1}
    Words = {}
    Names = {n1}
    Vals = {v1}
    MaxWord = 1
    Txs = {t1}
    BlockTxLists <- MCBlockTxLists
    MaxHeight = 1
    MaxVersion = 2
    MaxCrashes = 1
    MaxCopies = 1
    MaxGetBlocks = 1
    GenesisAddrs = {}
    GlobalPermissionsAddress = a1
    GenesisVal = v1
    PermsVal = v1
    NoValue = NoValue
    NoWriter = NoWriter
    NoHash = NoHash
    ZeroHash = ZeroHash
SPECIFICATION Spec
PROPERTY
    UpdateReturns
