\* Backfills of confirmed blocks by two workers, gap scans, an operator.
CONSTANTS
    t1 = t1
    f1 = f1  f2 = f2
    k1 = k1  k2 = k2
    w1 = w1  w2 = w2
    NoCursor = NoCursor
    NoTime = NoTime
    MaxBlock = 3
    ReorgDepth = 1
    StartBlock = 1
    CacheLimit = 1
    Forks = {f1, f2}
    Tokens = {t1}
    Keys = {k1, k2}
    TokenOf <- MCTokenOf
    Shape <- MCShape
    Logs <- MCLogs
    Procs = {w1, w2}
    Workers = {w1, w2}
    BackfillToken = t1
    Requests <- SomeRanges
    ChunkBatch = 2
    Buffer = 1
SPECIFICATION FairMaintenanceSpec
INVARIANTS
    BackfillInv
    CoverageSound
    IdempotencyHolds
    RunAccountsForTarget
PROPERTIES
    RunEnds
