\* All coverage sets of up to three records over six blocks, and all splits
\* of up to 60 blocks over up to three workers; amounts and balances.
CONSTANTS
    LastBlock = 5
    MaxCovered = 3
    MaxTotal = 60
    MaxWorkers = 3
    MaxBatch = 4
    MaxRaw = 1100
    MaxDecimals = 3
    Accounts = {1, 2, 3}
SPECIFICATION MCSpec
INVARIANTS
    GapsAreTheComplement
    GapsAreMinimal
    ChunksPartition
    RangeChunksBounded
    AmountExact
    BalancesNetToZero
CHECK_DEADLOCK FALSE
