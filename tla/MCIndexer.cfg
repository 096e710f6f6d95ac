\* One indexer, two tokens, reorganisations as deep as the confirmations.
CONSTANTS
    t1 = t1  t2 = t2
    f1 = f1  f2 = f2
    k1 = k1  k2 = k2  k3 = k3  k4 = k4  n1 = n1
    p1 = p1
    NoCursor = NoCursor
    NoTime = NoTime
    MaxBlock = 4
    ReorgDepth = 1
    Confirmations = 1
    BatchSize = 2
    StartBlock = 1
    CacheLimit = 2
    Forks = {f1, f2}
    Tokens = {t1, t2}
    Keys = {k1, k2, k3, k4, n1}
    TokenOf <- MCTokenOf
    Shape <- MCShape
    Logs <- MCLogs
    Procs = {p1}
    Indexers = {p1}
    TokenSeq <- TwoTokens
SPECIFICATION FairSpec
INVARIANTS
    IndInv
    CacheBounded
PROPERTIES
    LedgerRefined
    CursorMonotone
    StopTerminates
    CatchUp
