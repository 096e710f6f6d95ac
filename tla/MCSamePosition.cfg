\* A backfill up to the head: two blocks 1, each with a transfer at log_index 0.
CONSTANTS
    t1 = t1
    f1 = f1  f2 = f2
    k1 = k1  k2 = k2  k3 = k3
    x1 = x1  x2 = x2
    w1 = w1  w2 = w2  w3 = w3  r1 = r1
    NoPosition = NoPosition
    MaxBlock = 1
    ReorgDepth = 1
    StartBlock = 0
    Buffer = 0
    Forks = {f1, f2}
    Tokens = {t1}
    Keys = {k1, k2, k3}
    TokenOf <- MCTokenOf
    Shape <- MCShape
    Logs <- MCRivalLogs
    TxOf <- MCTxOf
    LogIndex <- MCLogIndex
    Limit = 1
    Readers = {r1}
    Queries <- Everything
    Writers = {w1}
    LiveWriters = {}
SPECIFICATION TransactionsSpec
INVARIANTS
    NothingMissed
