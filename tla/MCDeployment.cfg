\* The indexer, a backfill of one block and a client, one row at a time.
CONSTANTS
    t1 = t1
    f1 = f1  f2 = f2
    k1 = k1  k2 = k2
    x1 = x1
    p1 = p1  w1 = w1  r1 = r1
    NoCursor = NoCursor
    NoTime = NoTime
    NoPosition = NoPosition
    MaxBlock = 2
    ReorgDepth = 1
    Confirmations = 1
    Buffer = 1
    BatchSize = 1
    ChunkBatch = 1
    StartBlock = 1
    CacheLimit = 2
    Forks = {f1, f2}
    Tokens = {t1}
    Keys = {k1, k2}
    TokenOf <- MCTokenOf
    Shape <- MCShape
    Logs <- MCLogs
    TxOf <- MCTxOf
    LogIndex <- MCLogIndex
    TokenSeq <- OneToken
    Procs = {p1, w1}
    Indexers = {p1}
    Workers = {w1}
    BackfillToken = t1
    Requests <- SomeRanges
    Readers = {r1}
    Queries <- Everything
    Limit = 1
SPECIFICATION DeploymentSpec
INVARIANTS
    DeploymentInv
    PagesComplete
    NothingSkipped
    NothingOrphaned
PROPERTIES
    RowByRow
