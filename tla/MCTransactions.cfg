\* A live indexer and a backfill worker, a client with pages of one row.
CONSTANTS
    t1 = t1
    f1 = f1  f2 = f2
    k1 = k1  k2 = k2  k3 = k3
    x1 = x1  x2 = x2
    w1 = w1  w2 = w2  w3 = w3  r1 = r1
    NoPosition = NoPosition
    MaxBlock = 2
    ReorgDepth = 1
    StartBlock = 0
    Buffer = 1
    Forks = {f1, f2}
    Tokens = {t1}
    Keys = {k1, k2, k3}
    TokenOf <- MCTokenOf
    Shape <- MCShape
    Logs <- MCLogs
    TxOf <- MCTxOf
    LogIndex <- MCLogIndex
    Limit = 1
    Readers = {r1}
    Queries <- Filtered
    Writers = {w1, w2}
    LiveWriters = {w1}
SPECIFICATION TransactionsFairSpec
INVARIANTS
    NothingMissed
    PagesDescend
    CompleteUpToMark
    TransactionsWhole
    NoWaitCycle
PROPERTIES
    AtomicToReaders
    ReaderEnds
