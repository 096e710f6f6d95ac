\* A backfill of blocks that are not there yet: the idempotency assertion.
CONSTANTS
    t1 = t1
    f1 = f1  f2 = f2
    k1 = k1  k2 = k2
    w1 = w1  w2 = w2
    NoCursor = NoCursor
    NoTime = NoTime
    MaxBlock = 3
    ReorgDepth = 1
    StartBlock = 1
    CacheLimit = 2
    Forks = {f1, f2}
    Tokens = {t1}
    Keys = {k1, k2}
    TokenOf <- MCTokenOf
    Shape <- MCShape
    Logs <- MCLogs
    Procs = {w1, w2}
    Workers = {w1, w2}
    BackfillToken = t1
    Requests <- AnyRange
    ChunkBatch = 2
    Buffer <- NoBuffer
SPECIFICATION MaintenanceSpec
INVARIANTS
    IdempotencyHolds
