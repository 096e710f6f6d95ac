----------------------------- MODULE RangeFetch -----------------------------
(***************************************************************************)
(* How a block range becomes rows: IndexerService.fetch_range with its     *)
(* bisection, TransferDecoder, the block time cache and                    *)
(* build_transfer_rows.  The live indexer and every backfill worker run    *)
(* this code, each with its own locals and its own cache.                  *)
(***************************************************************************)
EXTENDS Store

CONSTANTS
    Procs,       \* everyone who fetches: indexers and backfill workers
    NoTime,      \* a block the cache does not hold
    CacheLimit   \* _BLOCK_TIME_CACHE_LIMIT

ASSUME FetchConstants ==
    /\ NoTime \notin Forks
    /\ CacheLimit \in Nat \ {0}

VARIABLES
    todo,   \* ranges the recursion still has to request
    logs,   \* raw logs received so far
    rows,   \* the rows built from them, ready to insert
    cache   \* self._block_time_cache

fetchVars == <<todo, logs, rows, cache>>

BlockRange == [from : Blocks, to : Blocks]
RawLog == [key : Keys, block : Blocks]
NoTimes == [b \in Blocks |-> NoTime]

FetchTypeOK ==
    /\ todo \in [Procs -> SUBSET BlockRange]
    /\ logs \in [Procs -> SUBSET RawLog]
    /\ rows \in [Procs -> SUBSET Transfer]
    /\ cache \in [Procs -> [Blocks -> Forks \cup {NoTime}]]

FetchInit ==
    /\ todo = [p \in Procs |-> {}]
    /\ logs = [p \in Procs |-> {}]
    /\ rows = [p \in Procs |-> {}]
    /\ cache = [p \in Procs |-> NoTimes]

\* fetch_range(token, f, n) is called.
StartFetch(p, f, n) ==
    /\ todo' = [todo EXCEPT ![p] = {[from |-> f, to |-> n]}]
    /\ UNCHANGED <<logs, rows, cache>>

\* The recursion is depth first and takes the left half first, so the next
\* request is always for the lowest pending range.
IsNext(p, r) == r \in todo[p] /\ \A s \in todo[p] : r.from <= s.from

ServeRange(p, t) ==
    /\ \E r \in todo[p] :
          /\ IsNext(p, r)
          /\ todo' = [todo EXCEPT ![p] = @ \ {r}]
          /\ logs' = [logs EXCEPT ![p] = @ \cup GetLogs(t, r.from, r.to)]
    /\ UNCHANGED <<rows, cache>>

\* Mutant: the left half ends before the middle and the right one after it.
HalvesWithHole(r) ==
    LET mid == (r.from + r.to) \div 2
    IN {[from |-> r.from, to |-> mid - 1], [from |-> mid + 1, to |-> r.to]}

Halves(r) ==
    LET mid == (r.from + r.to) \div 2
    IN {[from |-> r.from, to |-> mid], [from |-> mid + 1, to |-> r.to]}

\* The provider refuses a range as too large: both halves are requested.
\* Which ranges it refuses is up to the provider.
BisectRange(p) ==
    /\ \E r \in todo[p] :
          /\ IsNext(p, r)
          /\ r.from < r.to
          /\ todo' = [todo EXCEPT ![p] = (@ \ {r}) \cup Halves(r)]
    /\ UNCHANGED <<logs, rows, cache>>

-----------------------------------------------------------------------------
\* decode: other contracts' shapes of the same event are skipped.
Decoded(p) == {l \in logs[p] : Shape[l.key] = "erc20"}

\* The blocks block_times has to ask the node for.
Missing(p) ==
    {b \in Blocks : cache[p][b] = NoTime /\ \E l \in Decoded(p) : l.block = b}

Filled(p) ==
    [b \in Blocks |-> IF b \in Missing(p) THEN fork[b] ELSE cache[p][b]]

Cached(c) == {b \in Blocks : c[b] # NoTime}

\* Mutant: the cutoff is a whole limit below the newest block.
PrunedLate(c) ==
    IF Cardinality(Cached(c)) <= CacheLimit THEN c
    ELSE [b \in Blocks |->
            IF \A n \in Cached(c) : b >= n - CacheLimit THEN c[b] ELSE NoTime]

\* Over its limit, the cache keeps the blocks at or above the cutoff, half a
\* limit below its newest block.
Pruned(c) ==
    IF Cardinality(Cached(c)) <= CacheLimit THEN c
    ELSE [b \in Blocks |->
            IF \A n \in Cached(c) : b >= n - CacheLimit \div 2
            THEN c[b] ELSE NoTime]

(***************************************************************************)
(* block_times and build_transfer_rows.  A header the node does not have   *)
(* is null and raises.  The times handed out are looked up before the      *)
(* prune, so the rows of this batch never miss one.                        *)
(***************************************************************************)
BuildRows(p) ==
    /\ todo[p] = {}
    /\ \A b \in Missing(p) : b <= head
    /\ rows' = [rows EXCEPT ![p] =
                   {[key |-> l.key, block |-> l.block,
                     time |-> Filled(p)[l.block]] : l \in Decoded(p)}]
    /\ logs' = [logs EXCEPT ![p] = {}]
    /\ cache' = [cache EXCEPT ![p] = Pruned(Filled(p))]
    /\ UNCHANGED todo

\* The frame is left, by return or by an exception: its locals are gone.
DropLocals(p) ==
    /\ todo' = [todo EXCEPT ![p] = {}]
    /\ logs' = [logs EXCEPT ![p] = {}]
    /\ rows' = [rows EXCEPT ![p] = {}]

-----------------------------------------------------------------------------
\* However many blocks one batch touches, the prune brings the cache back
\* under its limit before the next batch (service.py, block_times).
CacheBounded ==
    \A p \in Procs : Cardinality(Cached(cache[p])) <= CacheLimit

-----------------------------------------------------------------------------
(***************************************************************************)
(* While p fetches the final blocks f to n of t: the pending ranges lie    *)
(* between them, no log is from elsewhere, and every block is pending or   *)
(* completely received.                                                    *)
(***************************************************************************)
FetchInv(p, t, f, n) ==
    /\ \A r \in todo[p] : f <= r.from /\ r.from <= r.to /\ r.to <= n
    /\ \A l \in logs[p] : l \in GetLogs(t, f, n)
    /\ \A l \in GetLogs(t, f, n) :
          l \in logs[p] \/ \E r \in todo[p] : r.from <= l.block /\ l.block <= r.to

\* The rows of a batch are the canonical transfers of its blocks.
RowsInv(p, t, f, n) ==
    /\ \A r \in rows[p] : f <= r.block /\ r.block <= n /\ r \in Canonical(t, r.block)
    /\ \A b \in f .. n : Canonical(t, b) \subseteq rows[p]

\* The cache only holds times of final blocks, and they are right.
CacheInv(p) ==
    \A b \in Blocks : cache[p][b] # NoTime => Final(b) /\ cache[p][b] = fork[b]

=============================================================================
