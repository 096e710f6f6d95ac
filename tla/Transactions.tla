---------------------------- MODULE Transactions ----------------------------
(***************************************************************************)
(* The batch transactions of the live indexer and of backfill workers, one *)
(* row at a time, on PostgreSQL (READ COMMITTED): INSERT INTO transfers,   *)
(* the cursor (live writers only), the coverage record, COMMIT.  A row     *)
(* that is written and not committed is invisible to readers and locks its *)
(* unique key: whoever wants to write the same key waits for its end.      *)
(*   pc:  idle, rows, cursor, range, commit: the statement that comes next *)
(* The clients of Api read the same tables.                                *)
(***************************************************************************)
EXTENDS Api

CONSTANTS
    Writers,      \* sessions that index, one transaction each at a time
    LiveWriters,  \* those of live indexers
    Buffer        \* blocks below the head a writer keeps away from

ASSUME WriterConstants == LiveWriters \subseteq Writers /\ Buffer \in Nat

VARIABLES
    pc,
    job,       \* [Writers -> the token and block range of the transaction]
    pending,   \* [Writers -> rows its INSERT has still to write]
    held,      \* [Writers -> rows it has written and not committed]
    recorded   \* the committed rows of indexed_ranges

writerVars == <<pc, job, pending, held, recorded>>
txVars == <<apiVars, writerVars>>

Job == [token : Tokens, from : Blocks, to : Blocks]
NoJob == [token |-> CHOOSE t \in Tokens : TRUE, from |-> 0, to |-> -1]

WritersTypeOK ==
    /\ pc \in [Writers -> {"idle", "rows", "cursor", "range", "commit"}]
    /\ DOMAIN job = Writers
    /\ pending \in [Writers -> SUBSET Row]
    /\ held \in [Writers -> SUBSET Row]

WritersInit ==
    /\ pc = [w \in Writers |-> "idle"]
    /\ job = [w \in Writers |-> NoJob]
    /\ pending = [w \in Writers |-> {}]
    /\ held = [w \in Writers |-> {}]
    /\ recorded = {}

Others(w) == Writers \ {w}
JobRows(j) == UNION {Canonical(j.token, b) : b \in j.from .. j.to}
JobBlocks(j) == {j.token} \X (j.from .. j.to)

\* Without rows left the INSERT is over; only a live writer has a cursor.
AfterRows(w, left) ==
    IF left # {} THEN "rows"
    ELSE IF w \in LiveWriters THEN "cursor" ELSE "range"

\* Mutant: a batch may start anywhere below the head.
ContinuesAnywhere(t, f) == f >= StartBlock

\* A live batch starts right after blocks that are done.
Continues(t, f) ==
    f >= StartBlock /\ \A b \in StartBlock .. f - 1 : <<t, b>> \in covered

\* A writer has fetched a range, which it chose below the head of its time,
\* and opens its transaction.
Begin(w) ==
    /\ pc[w] = "idle"
    /\ \E j \in Job :
          /\ j.from <= j.to /\ j.to <= peak - Buffer
          /\ w \in LiveWriters => Continues(j.token, j.from)
          /\ job' = [job EXCEPT ![w] = j]
          /\ pending' = [pending EXCEPT ![w] = JobRows(j)]
          /\ pc' = [pc EXCEPT ![w] = AfterRows(w, JobRows(j))]
    /\ UNCHANGED <<held, recorded, chainVars, ledgerVars>>

-----------------------------------------------------------------------------
\* Mutant: a backfill writes the newest row first.
NewestFirst(w, x) ==
    /\ x \in pending[w]
    /\ \A y \in pending[w] :
          IF w \in LiveWriters THEN ~Above(x, y) ELSE ~Above(y, x)

\* The VALUES of the INSERT are in the order of the chain.
NextRow(w, x) == x \in pending[w] /\ \A y \in pending[w] : ~Above(x, y)

\* Mutant: a key somebody else is writing counts as taken.
TakenOrHeld(w, x) ==
    \E y \in book \cup UNION {held[u] : u \in Writers} : y.key = x.key

\* The key is in the table, or written by this very statement.
Taken(w, x) == \E y \in book \cup held[w] : y.key = x.key

Holds(u, x) == \E y \in held[u] : y.key = x.key

\* u has written the cursor of t, or the coverage record of j.
HoldsCursor(u, t) ==
    u \in LiveWriters /\ pc[u] \in {"range", "commit"} /\ job[u].token = t
HoldsRange(u, j) == pc[u] = "commit" /\ job[u] = j /\ j \notin recorded

\* The statement of w needs a key that u has written and not committed.
WaitsFor(w, u) ==
    /\ u # w
    /\ \/ /\ pc[w] = "rows"
          /\ \E x \in Row : NextRow(w, x) /\ ~Taken(w, x) /\ Holds(u, x)
       \/ pc[w] = "cursor" /\ HoldsCursor(u, job[w].token)
       \/ pc[w] = "range" /\ HoldsRange(u, job[w])

Runs(w) == \A u \in Others(w) : ~WaitsFor(w, u)

\* INSERT ... ON CONFLICT (tx_hash, log_index) DO NOTHING: one row of it.
InsertRow(w) ==
    /\ pc[w] = "rows" /\ Runs(w)
    /\ \E x \in pending[w] :
          /\ NextRow(w, x)
          /\ pending' = [pending EXCEPT ![w] = @ \ {x}]
          /\ held' = [held EXCEPT ![w] = IF Taken(w, x) THEN @ ELSE @ \cup {x}]
          /\ pc' = [pc EXCEPT ![w] = AfterRows(w, pending[w] \ {x})]
    /\ UNCHANGED <<job, recorded, chainVars, ledgerVars>>

\* set_cursor and record_coverage, uncommitted.
WriteCursor(w) ==
    /\ pc[w] = "cursor" /\ Runs(w)
    /\ pc' = [pc EXCEPT ![w] = "range"]
    /\ UNCHANGED <<job, pending, held, recorded, chainVars, ledgerVars>>

WriteRange(w) ==
    /\ pc[w] = "range" /\ Runs(w)
    /\ pc' = [pc EXCEPT ![w] = "commit"]
    /\ UNCHANGED <<job, pending, held, recorded, chainVars, ledgerVars>>

\* A variable of the writers, set back for those in W.
Back(W, var, none) == [w \in Writers |-> IF w \in W THEN none ELSE var[w]]

Release(W) ==
    /\ pc' = Back(W, pc, "idle")
    /\ job' = Back(W, job, NoJob)
    /\ pending' = Back(W, pending, {})
    /\ held' = Back(W, held, {})
    /\ UNCHANGED chainVars

Commit(w) ==
    /\ pc[w] = "commit"
    /\ book' = book \cup held[w]
    /\ covered' = covered \cup JobBlocks(job[w])
    /\ recorded' = recorded \cup {job[w]}
    /\ mark' = IF w \in LiveWriters
               THEN [mark EXCEPT ![job[w].token] = job[w].to] ELSE mark
    /\ Release({w})

\* Mutant: the rows of a transaction that fails stay.
KeepRows(W) ==
    /\ book' = book \cup UNION {held[w] : w \in W}
    /\ UNCHANGED <<covered, mark, recorded>>

Discard(W) == UNCHANGED <<ledgerVars, recorded>>

\* A statement fails, a connection breaks; a process that is killed leaves
\* the transactions of all its threads.
Rollback(W) ==
    /\ W # {} /\ \A w \in W : pc[w] # "idle"
    /\ Discard(W) /\ Release(W)

WriterNext(w) ==
    \/ Begin(w) \/ InsertRow(w) \/ WriteCursor(w) \/ WriteRange(w)
    \/ Commit(w)

TransactionsInit == ApiInit /\ WritersInit

TransactionsNext ==
    \/ ChainNext /\ UNCHANGED <<ledgerVars, readerVars, writerVars>>
    \/ /\ \/ \E w \in Writers : WriterNext(w)
          \/ \E W \in SUBSET Writers : Rollback(W)
       /\ UNCHANGED readerVars
    \/ /\ \E r \in Readers : ReaderNext(r)
       /\ UNCHANGED <<chainVars, ledgerVars, writerVars>>

TransactionsSpec == TransactionsInit /\ [][TransactionsNext]_txVars

\* A client asks for the next page until there is none.
TransactionsFairSpec ==
    TransactionsSpec /\ \A r \in Readers : WF_readerVars(NextPage(r))

-----------------------------------------------------------------------------
(***************************************************************************)
(* No set of transactions waits for itself: everyone writes the rows in    *)
(* the order of the chain, then the cursor, then the coverage record, so   *)
(* overlapping batches and chunks never deadlock (writer.py, service.py).  *)
(***************************************************************************)
NoWaitCycle ==
    \A S \in (SUBSET Writers) \ {{}} :
        \E w \in S : \A u \in S : ~WaitsFor(w, u)

(***************************************************************************)
(* A key that a transaction has written and not committed is on record for *)
(* nobody and written by nobody else, so its row is new when it commits    *)
(* and the row count of its INSERT is what the table gains (writer.py,     *)
(* upsert_transfers).                                                      *)
(***************************************************************************)
KeysExclusive ==
    \A w \in Writers : \A x \in held[w] :
        /\ \A y \in book : y.key # x.key
        /\ \A u \in Others(w) : ~Holds(u, x)

(***************************************************************************)
(* Statement by statement, with locks, conflicts and rollbacks, the        *)
(* transactions do to the tables what the abstract ledger does in one      *)
(* step, and the clients see nothing else.                                 *)
(***************************************************************************)
AtomicToReaders == ApiSpec

=============================================================================
