\* Counterexample run: see README, section 3.
CONSTANTS
    w1 = w1
    w2 = w2
    a1 = a1
    k1 = k1
    n1 = n1
    v1 = v1
    t1 = t1
    t2 = t2
    Writers <- MCWriters
    Addr = {a1}
    Words = {k1}
    Names = {}
    Vals = {v1}
    MaxWord = 1
    Txs = {t1, t2}
    BlockTxLists <- MCBlockTxLists
    MaxHeight = 2
    MaxVersion = 3
    MaxCrashes = 1
    MaxCopies = 0
    MaxGetBlocks = 1
    GenesisAddrs = {}
    GlobalPermissionsAddress = a1
    GenesisVal = v1
    PermsVal = v1
    NoValue = NoValue
    NoWriter = NoWriter
    NoHash = NoHash
    ZeroHash = ZeroHash
SPECIFICATION Spec
INVARIANT
    BlockReadsNeverRetracted
