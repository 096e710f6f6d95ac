# chainledger: a verification project

TLA+ modules that model chainledger, its indexer, its backfills and its API, TLC configurations that
check them on small instances, and TLAPS proofs that hold for instances of any
size. Paths below are relative to `src/`.

chainledger copies the ERC-20 transfers of some contracts from an Ethereum node
into PostgreSQL and serves them over REST. Readers rely on three things: nothing
up to the cursor is missing, nothing in the table belongs to a block the chain
has abandoned, and the coverage records, which every repair decision is taken
from, tell the truth. The writers are a live indexer and any number of backfills
that share the database, and each of their steps can fail halfway.

## 1. Inventory

| Component | State | Operations | Talks to |
|---|---|---|---|
| Ethereum node (external) | head, canonical blocks | mine, reorganise, `eth_getLogs`, headers | everyone, by JSON-RPC |
| Live indexer, `chainledger/indexer/service.py`, `indexer/__main__.py` | per token and cycle: `current`, `safe_head`, `to_block`; stop event; block time cache | `run_forever`, `run_once`, `_index_token`, `fetch_range`, `block_times`, `ensure_token` | node, database, signals |
| Decoder, `indexer/decoder.py` | none | `decode`, skipping ERC-721 and malformed logs | |
| Writer and tables, `indexer/writer.py`, `models.py`, `alembic/` | `tokens`, `transfers`, `indexer_cursors`, `indexed_ranges` | `upsert_transfers`, `set_cursor`, `get_cursor`, `record_coverage` | |
| Backfill, `backfill/core.py`, `backfill/__main__.py` | requested range or gaps, verdict, thread pool, results | `main`, `find_gap_ranges`, `range_fully_covered`, `run`, `_index_chunk`, `compute_gaps`, `_chunks` | node, database |
| JSON-RPC client, `indexer/rpc.py` | socket, request ids, attempt | `_with_retry`, `make_request`, `make_batch_request`, `_ensure_connected`, `is_retryable` | node |
| REST API, `api/*.py` | none of its own; one shared client; its callers keep a page cursor | `/health`, `/tokens`, `/transfers`, `/transfers/{tx}`, `/addresses/{a}/balance-delta` | database, node |
| Metrics, configuration, engine, migrations, seed script | counters; constants; nothing | | |

How they interact. The indexer commits a batch's rows, its cursor and its
coverage record in one transaction. A backfill commits rows and coverage per
chunk and never touches a cursor; its gap scan reads the cursor and the coverage
the indexer wrote. Both register the token first, because of the foreign key.
Everything else is shared through the database and the node only: there is no
lock between the processes, and nothing stops two indexers from overlapping
while a deployment is replaced.

What is hard here, and what would make each part correct:

- **Indexer.** The head is read once per token and cycle, the logs in several
  calls, the headers in another, while the chain moves; the process may be
  killed, fail or lose the reply of its commit between any two. *Correct* when
  the cursor never passes an unwritten transfer, no row outlives its block, the
  cursor of a lone indexer never moves back, a signal always stops it, and a
  block that stays confirmed is indexed in the end.
- **Fetch.** Ranges are split as the provider refuses them; times are cached
  across batches and pruned. *Correct* when the halves leave nothing out and the
  cache never hands out the time of another block or outgrows its limit.
- **Writer.** Conflicting rows, overwritten cursors. *Correct* when a conflict
  costs nothing but the row that is already there.
- **Backfill.** Chunks fail while others run; what a run decides at its start
  may change under it. *Correct* when at its end every block it answers for is
  covered or in a chunk that raised, when the idempotency
  assertion holds, and when the run ends.
- **Range arithmetic.** *Correct* when the gaps are the minimal complement of
  the coverage and the chunks partition the range.
- **Token registry.** Everyone reads, asks the contract and writes the same row.
  *Correct* when known metadata stays known and unknown metadata is retried.
- **Websocket client.** Late answers, closed sockets, retries, several threads.
  *Correct* when an answered call has the answers to its own requests, no
  connection is left behind, and every call ends.
- **Retries under bisection.** A refused range, an HTTP 429 and a timeout are
  judged twice, by `is_retryable` and by `_is_range_error`. *Correct* when the
  requests of one `fetch_range` are bounded whatever the provider answers.
- **Transactions.** Rows, cursor and coverage are separate statements under
  PostgreSQL's row locks. *Correct* when readers see whole batches only and no
  set of writers waits for itself.
- **API.** Keyset pages while rows are inserted above and below the reader.
  *Correct* when a reader sees every row that was there from the start once, and
  everything up to the `latest_block` it was told.
- **Amounts.** *Correct* when the formatted amount is the amount, and transfers
  move value without creating any.

`PROJECT.json` lists the hazards line by line.

## 2. Modules

```
Chain ┬─ Ledger                      what the writers promise together
      │     └── Api ── Transactions    its readers; writers at lock level
      │                     └┄┄┄┄┄┄┄┄┄┄┄┄┄┄┄┄┄┄┄┄┄┄┐ (INSTANCE)
      └─ Store ── RangeFetch ─┬─ Indexer ──┐        │
                              └─ Backfill ─┼─ System ── Deployment   row by row
                  Ranges ────────┘   └─ Maintenance    backfills and an operator
TokenRegistry    WsClient    Requests    Amounts       components by themselves
```

**Chain** is the environment: a height can be filled by competing blocks
(`Forks`), `Reorg` abandons blocks down to `ReorgDepth` below the highest head
so far, `Mine` adds one. A fork stands for everything a header carries, the
timestamp included, and `Logs[b][f]` for the Transfer logs in that block. A
transaction is included once (`ValidChain`), and may move to another block when
the chain is reorganised. `GetLogs` answers `eth_getLogs` from the canonical
chain of one instant; `Canonical` is what the table should hold for a block.

**Store** has one operator per statement of `writer.py`. `Inserted` is ON
CONFLICT DO NOTHING on `(tx_hash, log_index)`; a transaction is the conjunction
of its statements. Properties of the tables are stated here.

**RangeFetch** is `fetch_range`, `decode`, `block_times` and the building of
rows, for any process: `ServeRange` and `BisectRange` are single `eth_getLogs`
calls (the lowest pending range first, as the depth-first recursion does),
`BuildRows` the batched header read with cache and prune. Which ranges the
provider refuses is its own choice.

**Indexer** has `pc` name the call the process is about to make. Every call to
the node or the database is an action, so the chain, other processes and faults
come between any two. `Fail` is an exception at any call, `LoseReply` a commit
that happened although the process saw it fail, `Crash` a kill, `Signal` SIGTERM.
An exception ends the cycle for the tokens after it, as in `run_forever`.

**Ranges** is `compute_gaps` and `_chunks`: the sorted records as a sequence, each of the two
loops as a recursive function over its index.

**Backfill** is one run at a time of `main` for one token: the main thread
(`mpc`) reads, judges and submits; each worker (`wpc`) runs `_index_chunk`.
`Requests` with `Buffer` say which `--from-block --to-block` an operator gives:
the code validates their order only, so runs that trust the operator use ranges
below the reorganisation depth, and one run does not.

**Maintenance** composes Backfill with an operator who truncates tables and
resets cursors between runs (the reasons `models.py:59-60` gives for gap scans).
**System** composes Indexer and Backfill on one Store.

**Deployment** puts everything together: the processes of System, the clients of Api, and
between them the database as Transactions has it. A process that has fetched a batch opens a
transaction (`OpenTransaction`) with the rows it has built, writes it with the very actions of
Transactions (`Statement`: an instance whose writers are the processes' sessions and whose jobs
are their batches), and `CommitRows` puts on record what it has written by then. Any other
step that takes a process out of its batch (a failure, a kill, an aborted run) rolls its
session back (`RollBackTheRest`), as leaving `with SessionLocal()` does. System takes the same
transaction as one step; `RowByRow` says that it may.

**Ledger** is the abstract specification: whole ranges of final blocks go on
record, and a token's mark moves to any block below which nothing is missing.
`Indexer!LedgerRefined` maps the transfers to `book`, the coverage records to
`covered` and the cursors to `mark`.

**Api** is a client of the REST API on the abstract ledger: `Health` reads the
cursors, `FirstPage` and `NextPage` are `list_transfers`, one SELECT each, with
its filters, the condition `(block_number, log_index) < cursor`, the order, the
limit of one row more than the page, and `next_cursor`. The ledger moves freely
between two responses. `owed` and `seen` are history. Rows that share a position
come in an order the database chooses. A filter is a set of log identities and a
block range: token, addresses and block time of a row do not change once it is
on record.

**Transactions** is what the ledger's single step is made of. Each writer opens a
transaction for a final range (what the rest of the project shows of a batch:
its rows are the canonical ones) and writes it as PostgreSQL does: the rows of
the INSERT one by one in the order of the chain, then the cursor (live writers
only), then the coverage record, then COMMIT. A key that another open
transaction has written blocks (`WaitsFor`), a committed one is a conflict and is
skipped, and `Rollback` covers failed statements and killed processes, whose sessions end
together. A range is chosen below the highest head so far, so it may be written after the
chain has become shorter again. Api's
clients read the same tables, committed rows only. A live writer's batch starts
behind blocks that are covered (`Continues`), which is `ProcInv` of the indexer's
invariant; the cursor it writes may still be lower than the one it overwrites.

**Requests** is one `fetch_range` above one retrying provider: each pending range
of the recursion is a request with attempts of its own; a failure is retried
(`Retryable`, `AttemptsLeft`), or splits the range (`Splittable`), or leaves
`fetch_range`. HTTP 429 "Too Many Requests" is both retryable and a range error.

**Amounts** is `format_value_decimal` digit by digit and the sums of
`balance_delta`; **MCArithmetic** checks it together with Ranges.

**TokenRegistry** is `ensure_token` with its two contract calls and its write.
Indexer and Backfill take the same call as one step that leaves a row, because
nothing they do depends on the metadata. The UPDATE writes the columns that
differ from the row as loaded, which is what the session does.

**WsClient** is `RetryingWebSocketProvider`: `ensure`, `state`, `reset`,
`connect`, `open`, `send`, `recv`, `wait` are the places where another thread or
the event loop can come in between. Ids count up, answers arrive in any order, on
the socket they were asked on, late or never. `is_retryable` is modelled by its
classes: a timeout is retried, other errors are not, and a closed connection or one that
cannot be opened is either: a refused connection is retried, a rejected handshake is
not, unless its text says so.

Data the properties do not tell apart is left out: addresses, amounts and hashes
are not in the state; a log is its identity, its contract and its shape.

Names starting with what a definition does wrong (`BatchWritesNoRows`,
`HalvesWithHole`, ...), commented "Mutant", are deliberate errors that show that
a property can fail; no specification uses them.

## 3. Runs

| Run | Instance | Shows |
|---|---|---|
| `indexer` | one indexer, two tokens, blocks 0..4, batches of two, confirmations = reorganisation depth = 1, two competing blocks per height | the inductive invariant of the proofs with its safety conjuncts, the cache bound, refinement of Ledger, a monotone cursor; a signal stops it; confirmed blocks are indexed |
| `arithmetic` | every coverage of up to 3 records over 6 blocks; every split of up to 60 blocks, 3 workers, batches up to 4; amounts from -1100 to 1100 with up to 3 decimals; up to two payments among three accounts | gaps are the minimal complement; chunks partition; one range makes at most eight chunks per worker; amounts are exact; balances net to zero |
| `maintenance` | two workers, blocks 0..3, a request of 0..2 in two chunks, cache limit 1, gap scans, operator | the inductive invariant of the proofs, coverage, the idempotency assertion, the account a run leaves, every run ends |
| `deployment` | one indexer, one worker and one client with pages of one row, blocks 0..2, two transfers in block 1 of one fork, one of them in the other | the invariants of the proofs of System at every statement of every transaction, the row counts, what the writers and the client may conclude, and the refinement of System and Transactions at once |
| `transactions` | one live writer and one backfill worker, blocks 0..2, one client with pages of one row, with and without a filter | no wait cycle; the abstract ledger is implemented; what a client may conclude; a listing ends |
| `requests` | a range of six blocks, three attempts | requests bounded, nothing refused is retried, complete or raised, ends |
| `token_registry` | three processes, any number of calls | a known symbol stays known; an unknown one becomes known |
| `ws_client` | one caller, a batch of two and a single request, two attempts each | matching, one socket, termination |
| `unconfirmed` | backfill of any range | the idempotency assertion fails (section 6) |
| `same_position` | backfill up to the head, pages of one row | a row is on no page (section 6) |
| `token_decimals` | one process | wrong decimals stay (section 6) |
| `ws_shared` | two callers, one request each | the assertion in `_do` fails (section 6) |

Why the bounds are enough for the cases that matter: with blocks 0..4 and
confirmations 1 the safe head moves several times within one behaviour, a batch
of two is cut at the safe head and by bisection, transfer
`k1` moves from block 1 to block 2 in a reorganisation, one transfer exists on
one fork only, one log is an ERC-721, and a cache limit of 1 or 2 makes the prune
run. Two attempts are the least that make a late answer from an earlier attempt
possible, two calls of which one is a batch the least for one from an earlier
call. The chunk domain reaches beyond `workers * 8`, where the size is rounded. Six
blocks make a recursion of depth three with halves of unequal size; pages of one
row put a page boundary between any two rows, and a transaction of two transfers
in block 0 lets an INSERT be interrupted between its rows and two writers meet on
the second one. `deployment` has the least in which an indexer and a worker write the same
two rows while the client pages through them and the chain is reorganised above; what
needs longer ranges (bisection, several chunks and batches) is in `indexer` and
`maintenance`, and for both writers at once it is proved.

Every constant named "bound" in a module (`MaxBlock`, `MaxCalls`, `LastBlock`,
`MaxCovered`, `MaxTotal`, `MaxWorkers`, `MaxBatch`, `MaxRaw`, `MaxDecimals`) limits TLC only. `MaxBlock`
is a guard of `Mine`; a chain that has stopped growing is a chain too, so no
invariant depends on it. `CHECK_DEADLOCK FALSE` appears where the system does
stop: a query is answered once (`arithmetic`), `fetch_range` is left once
(`requests`), a known token is never looked at again
(`token_registry`, `token_decimals`), a caller has made its calls (`ws_client`).
No run uses symmetry: most of them check temporal properties. `Requests` counts
its requests up to one more than their bound.

Fairness. `WF(Step(p))` for a running process: every call it makes has a timeout
and a bounded number of attempts, and its waits are bounded. Faults, crashes,
signals, the chain and whoever restarts a process get none. `CatchUp` states its
own assumptions: from some point nothing fails while the token or those before
it are indexed (`Calm`; a failed call that leaves exactly what a normal return leaves counts as a
return, so that idle cycles stay possible), the block stays confirmed and the process runs
(`Settled`). `RunEnds` has fairness of the main thread and of each worker; a
chunk may fail, in which case it is over. `CallsEnd` assumes nothing of the node:
the timeout on each received message and the attempt bound end a lone caller's call.
`SymbolBecomesKnown` assumes that the contract answers from some point on and that no call of
`ensure_token` is left by an exception before it has written (`Answering`).
`ReaderEnds` assumes that a client goes on asking for the next page, and nothing of
the writers; `FetchEnds` that every request is answered or times out. That a
waiting writer gets its lock is not claimed: it needs the other one to end.

## 4. Proofs

| Module | Proves about |
|---|---|
| ChainProofs | what a reorganisation cannot reach |
| IndexerProofs | RangeFetch and Indexer |
| RangesProofs | `compute_gaps`, `_chunks`, for any input |
| SystemProofs | Backfill, System, Maintenance, Deployment |
| TransactionsProofs | Ledger, Api, Transactions |
| ServiceProofs | Requests, TokenRegistry |
| WsClientProofs | WsClient |
| ArithmeticProofs | Ranges and Amounts as MCArithmetic uses them |

The theorems hold for every value of the constants. Most assumptions on constants only give
them their types. The others are about how the program is run:

- `ConfirmationsSuffice` (`ReorgDepth <= Confirmations`) is what an operator chooses
  `CONFIRMATIONS` for.
- `ReorgDepth <= Buffer`, in every theorem of SystemProofs: an operator asks a backfill
  only for blocks that a reorganisation cannot reach any more. The code does not
  enforce this; section 6 shows what happens without it. (`BufferSuffices` is the same
  for Transactions.) Gap scans need no such care: they end at the cursor.
- `OneIndexer`, for `CursorMonotone` only: two overlapping indexers do move the cursor
  back, and every other theorem allows them. docker-compose starts one.
- `OneCaller`, for `OneSocket` only: the indexer and each chunk of a backfill have
  a client of their own (`indexer/__main__.py`, `_index_chunk`); the API shares one.
- `StartBlock \in Blocks` is a start block on the chain.

**IndexerProofs**, for any number of
indexers, tokens, blocks and forks, any batch size, provider limit and cache limit:
`IndInv` is inductive, and `TypeOK`, `CoverageSound`, `NothingOrphaned`,
`NothingSkipped` and `CursorCovered` follow. None of them is inductive alone. The
argument: a process's safe head stays at or below `peak - Confirmations`, so its
whole batch is final and `GetLogs` of it can no longer change (`GetLogsStable`);
while it fetches, every log of the batch is received or in a pending range
(`FetchInv`), whatever is bisected; the rows it commits are therefore exactly the
canonical ones (`RowsInv`), also with cached times (`CacheInv`: only final blocks
are cached). ON CONFLICT DO NOTHING loses nothing because both the table and the
new rows are canonical (`UpsertExact`). Skipping is excluded not through the
cursor but through coverage: `current` is a block below which everything is
covered (`ProcInv`), so a process with a stale `current` still writes a true cursor,
and `NothingSkipped` follows from `CursorCovered` and `CoverageSound`.
`StoreFinal` keeps all this true when the chain is reorganised.
`IndexerImplementsLedger` follows: a commit, its reply lost or not, writes the
canonical rows of a final range and a cursor below which everything is covered, so it
is one step of Ledger (`BatchIsCover`), and no other step touches the three tables.
`CacheStaysBounded` is about the prune: the blocks it keeps are within half the limit of each
other, so there are no more than the limit, however many a batch added (`PrunedBounded`). `CursorNeverBack` adds `CursorBehind`:
what a lone indexer holds in `current` is never less than the cursor.

**SystemProofs**. `BackfillInv` is the invariant of a run. Its chunks are final because
`Buffer` keeps them so, hence `ChunkInv` is `FetchInv` and `RowsInv` again, with the lemmas
of IndexerProofs. `RunInv` follows a run's decisions while others write: the ranges found
covered stay covered (coverage only grows during a run), the plan holds every uncovered block of the
target, also when the cursor and the coverage are read at different times, and from the
submission on every block of the plan is covered, queued, being worked on or in a failed
chunk (`Accounted`). The assertion holds because a promise means that the whole plan was covered,
and then every row a chunk could insert is there already (`CoverageSound`). The
two places where `RunInv` meets arithmetic are lemmas on `compute_gaps` and
`_chunks` for any input (RangesProofs).
`SystemInv` is `IndInv /\ BackfillInv`: a backfill's step changes nothing an indexer relies on
except by adding rows of final blocks and coverage (`BackfillKeepsIndInv`), and the other way round.
From it: `SystemNoSkips`, `SystemNoOrphans`, `SystemIdempotency`, `SystemAccount`,
`SystemCaches`, `SystemCursorNeverBack`, and `SystemImplementsLedger`, in which a committed chunk is a
step of Ledger that moves no mark. With an operator (Maintenance) cursors are no longer covered,
so `BackfillInv` asks of them only that they are final: `MaintenanceCoverage`,
`MaintenanceIdempotency` and `MaintenanceAccount` hold after any truncation or reset.

**RangesProofs** and **ArithmeticProofs**. A property of a loop needs induction over its
index. The library's induction theorems take an operator, which the provers cannot
instantiate; instead the smallest index at which an invariant fails is taken (`UpTo`, from the
well-founded order of the naturals), and for finite sets the same with their size (`UpToSet`). The
invariant of the merge loop: the merged ranges are in order, kept apart, and hold the blocks of
the ranges so far; that of the gap loop: the gaps hold the uncovered blocks below `pos`.
That `Sorted` is a permutation in order follows from ranks: the number of smaller ranges
is a bijection to `0 .. n - 1`. For the balances, `TransfersNetToZero`: a sum over a
finite set does not depend on the order in which its elements are taken (`TotalOfRemove`), one
transfer adds and takes the same value, one row more adds its own flow. For the amounts,
`AmountsAreExact`: the powers of ten are a recursive function (`Pow10`), the first i digits
read back are the value without its other digits, for every i, and `divmod` of the size
of a negative amount gives the parts of that size (`DivmodParts`).

**TransactionsProofs**, first part, Ledger: the book of the abstract ledger is exactly the canonical
transfers of what it covers, and no mark passes an uncovered block
(`LedgerIsExact`). This is what a refinement of Ledger buys, and the API's proofs spend it.

Second part, Api, for any number of clients, any filters and page size, and whatever
the ledger does between two pages. `ApiInv` says of a listing that has a cursor:
every row that was on record at its first page has been returned or lies below the
cursor, and everything returned lies at or above it (`ReaderInv`). Keeping
this needs positions to be unique, which holds of the book because it is exact and
its blocks are final (`LedgerIsExact`); where that fails, so does `NothingMissed`
(`same_position`). From it: `PagingMissesNothing`, `PagingDescends`, and
`PagingCompleteUpToMark`, which adds that the marks a client was told stay covered.
`WholeTransactions` follows from exactness alone.

Third part, Transactions, for any number of writers. The invariant of one writer
(`WriterInv`): its range is final, what it holds and what is pending are rows of that
range and with the book make up all of it, and everything it holds comes before
everything pending in the order of the chain. Hence a commit is one step of the
ledger and every other step a stutter (`TransactionsAreAtomic`); a conflict with a
committed row loses nothing because both are the canonical one. `KeysStayExclusive`: the
lock on a unique key and the check of the table together keep a written key from
being on record for, or written by, anyone else. `NeverDeadlocked`
orders the writers by what they wait for: a writer that waits for a row has held
only rows before it, whoever waits for a cursor or coverage record has no row
pending. So in a circle all would have to wait for a row that is later than the
next one's; a finite set has no such circle (by well-founded induction on its subsets).

**ServiceProofs**. TokenRegistry: `RegistryInv` (a process works only on rows it read with
an unknown symbol, and rows stay) gives `SymbolStays`, for any number of
processes: an UPDATE from a stale row leaves a column alone unless it has news for it.

Requests, for ranges of any size and any number of attempts:
`FetchInv` divides the blocks from the current one on among the open ranges, in order (`At`). A range of n
blocks has at most 2n - 1 nodes below it, itself included, so what is left to send is bounded by the
attempts left and the nodes left; a failure uses up an attempt, a split a node, a
success all nodes of a range (`FetchIsBounded`). No refused range lies within a pending
one (`FetchNeverRepeats`), and the blocks before the current one have all arrived
(`FetchIsComplete`).

**WsClientProofs**: `AnswersAreMatched`, for any number of callers of one client,
any batches and any number of attempts: ids are given out once and an attempt
keeps only answers to ids it owns (`CallInv`). `WsTypes` carries the types of the sockets
along. `OneSocketOnly`: a caller that is about to reset, connect or open has seen its socket
closed (`OneSocketInv`), which no second caller can then change.

**Deployment**, the last part of SystemProofs, joins the two halves of the project, for any
number of indexers, workers and clients. On one side System commits a batch in one step; on the
other Transactions writes row by row, ranges it takes to be final and rows it takes to be
canonical. Each half has what the other one assumes. `LinkInv` is `SystemInv`, `TransactionsInv` and
`KeysExclusive` together, with `OpenWhileCommitting`: an open transaction belongs to a process in its
batch. Then

- what a process brings to its transaction is a job as Transactions wants it (`BatchIsJob`): by
  `ProcInv`, `ChunkInv` and `RowsInv` its range is final, its rows are the canonical ones, and a
  live writer's range starts behind covered blocks;
- what a transaction holds when it commits is what one INSERT of its rows would write at that
  moment (`HeldIsInserted`): with the book it makes up all the rows (`WriterInv`), and none of
  its keys is on record for anyone (`KeysExclusive`);
- so every step is a step of System or none (`DeploymentIsSystem`), and a step of
  Transactions or none (`DeploymentIsTransactions`), where processes that leave their batches
  in one step roll back together (`RestIsReleased`).

From it: `DeploymentInvariant`, `DeploymentRowByRow`, and with them what is proved of System
and of Transactions: `DeploymentNoSkips`, `DeploymentNoOrphans`, `DeploymentCursorNeverBack`,
`DeploymentIdempotency`, `DeploymentAccount`, `DeploymentImplementsLedger`,
`DeploymentPagesComplete` and `DeploymentNeverDeadlocked`; the last one also assumes that the
sessions are finitely many.

Proved only, without a run that has the case: several indexers (`IndInv`, the runs have one), a
backfill's account and verdict next to indexers (`RunAccountsForTarget`, `IdempotencyHolds`),
and several callers of a websocket client for `AnswersMatch`.

Model-checked only: liveness (`StopTerminates`, `CatchUp`, `RunEnds`, `CallsEnd`,
`ReaderEnds`, `FetchEnds`, `SymbolBecomesKnown`), which is out of the prover's reach. Every
other property of a passing run is a theorem.

## 5. Not modelled

- `/tokens`: one SELECT with a count. Validation of parameters and of a cursor's
  encoding: a request that fails it changes nothing and returns no rows.
- Metrics, logging, configuration, migrations, the seed script: no decision
  depends on them, or they run once and alone.
- Locks other than those on unique keys: the foreign key's share lock on the
  token row and `ensure_token`'s own transaction, which ends before a batch is
  fetched. PostgreSQL's deadlock detection never has anything to do for final ranges
  (`NoWaitCycle`); a statement it would abort is a `Rollback`. PostgreSQL's
  parameter limit of one statement.
- Between attempts: the exponential waits of tenacity, and web3's own retries
  inside one HTTP request.
- An operator who truncates tables or resets cursors while a run is in progress: nothing
  could be claimed of that run. Maintenance lets the operator act between runs.
- What the console shows: a run with several chunks that raise surfaces the first exception only
  (`core.py:124-125`), and nothing names the others. `failed` is therefore every chunk that
  raised, which the next gap scan or a rerun finds uncovered, not what was printed.
- `close()` of the websocket client: nothing in the program calls it.
- A bound on the time of a call on a shared websocket client: its timeout is per
  message, and nothing says more.
- Reorganisations deeper than the confirmations: the code has no repair for them,
  and no property of the tables survives one.

## 6. Disagreements between the code and what it says

1. `backfill/__main__.py:53` asserts that a run over covered ranges inserts
   nothing. `--to-block` is bounded neither by the head nor by the confirmations,
   and coverage is recorded for the chunk whatever the node had; a backfill above the
   head records blocks that do not exist, and the second run, after they are
   mined, inserts rows and raises (`unconfirmed`). The live
   indexer does not read coverage, but it is affected where the backfill did find logs: the row of
   an unconfirmed block that is then reorganised stays, and ON CONFLICT skips the row of
   the block that replaced it when the indexer comes to it.
2. `service.py:114-115` says unknown metadata is retried. Only an unknown symbol
   is: a `decimals()` call that fails while `symbol()` answers stores 18 for good
   (`token_decimals`).
3. `rpc.py:171,193` assert that there is a socket. The API shares one client
   between threads (`api/deps.py:9-11`), and `_ensure_connected` resets the
   socket without a lock. A thread that has found the socket closed may reset it
   only after another one has come through `_ensure_connected`, either because that one
   looked before the socket closed or because it has reconnected already; then the reset
   is stale and discards the new socket. In both cases the other thread meets `None`
   when it sends (`ws_shared`; TLC prints one of the two).
4. `api/pagination.py:1` and `tests/test_api.py:152` take `(block_number, log_index)`
   for the identity of a row while paging. The table's unique key is `(tx_hash,
   log_index)`: a backfill above the confirmed head followed by a reorganisation, or
   the seed script run twice, leaves two rows at one position, and a page that
   ends between them drops the other one for good (`same_position`). For final ranges
   positions are unique, and nothing is missed (section 4).

## 7. Plan

Done: Chain, Store, RangeFetch, Ledger, Indexer, Ranges, Backfill, Maintenance,
System, Deployment, TokenRegistry, WsClient, Api, Transactions, Requests, Amounts; their runs;
the theorems of section 4.

What is left, in this order:

1. *Two callers of the websocket client*: which part of `OneSocket` is left when sockets
   are shared, and an invariant for it.
2. *`ensure_token` in Deployment*: its own transaction, and the share lock that the foreign key
   takes on the token row.
3. *Liveness of Deployment*: a writer that waits gets its lock, because whoever holds it commits
   or rolls back; `CatchUp` and `RunEnds` would then hold row by row.
