----------------------------- MODULE Deployment -----------------------------
(***************************************************************************)
(* The whole deployment: the live indexer, a backfill and the clients of   *)
(* the API at work on one PostgreSQL database.  System commits a batch in  *)
(* one step; here the batch that a process has fetched is written as       *)
(* Transactions writes it, row by row, with the locks of the other open    *)
(* transactions in the way, and goes on record with the COMMIT.            *)
(***************************************************************************)
EXTENDS System

CONSTANTS Readers, Queries, Limit, LogIndex, TxOf, NoPosition  \* see Api

\* What Api assumes of them.
ASSUME ClientConstants ==
    /\ Limit \in Nat \ {0}
    /\ LogIndex \in [Keys -> Nat]
    /\ Queries \subseteq [keys : SUBSET Keys, from : Blocks, to : Blocks]
    /\ NoPosition \notin [b : Blocks, l : Nat]
    /\ \A b \in Blocks, f \in Forks : \A k, l \in Logs[b][f] :
          LogIndex[k] = LogIndex[l] => k = l

VARIABLES
    stage,    \* [Sessions -> the statement of its transaction that is next]
    pending,  \* [Sessions -> rows its INSERT has still to write]
    held,     \* [Sessions -> rows it has written and not committed]
    phase, known, query, cursor, page, seen, owed   \* the clients, see Api

sessionVars == <<stage, pending, held>>
clientVars == <<phase, known, query, cursor, page, seen, owed>>
deploymentVars == <<systemVars, sessionVars, clientVars>>

\* Indexers and worker threads: each has a session of its own.
Sessions == Indexers \cup Workers

\* s is in the batch transaction of _index_token or of _index_chunk.
Committing(s) == IF s \in Indexers THEN pc[s] = "commit" ELSE wpc[s] = "commit"

\* The token and the blocks of the batch that s works on.
Batch(s) ==
    IF s \in Indexers
    THEN [token |-> Token(s), from |-> current[s] + 1, to |-> toBlock[s]]
    ELSE [token |-> BackfillToken, from |-> chunk[s].from, to |-> chunk[s].to]

NoBatch == [token |-> CHOOSE t \in Tokens : TRUE, from |-> 0, to |-> -1]

\* Transactions, seen in the deployment: what a session writes is the batch
\* of its process.
T == INSTANCE Transactions WITH
        Writers <- Sessions, LiveWriters <- Indexers, Buffer <- ReorgDepth,
        book <- transfers,
        covered <- {c \in Tokens \X Blocks : Covered(c[1], c[2])},
        mark <- [t \in Tokens |->
                   IF cursors[t] = NoCursor THEN StartBlock - 1 ELSE cursors[t]],
        recorded <- ranges,
        pc <- stage,
        job <- [s \in Sessions |->
                   IF stage[s] = "idle" THEN NoBatch ELSE Batch(s)]

DeploymentInit ==
    /\ SystemInit
    /\ stage = [s \in Sessions |-> "idle"]
    /\ pending = [s \in Sessions |-> {}]
    /\ held = [s \in Sessions |-> {}]
    /\ T!ReadersInit

-----------------------------------------------------------------------------
\* The transaction begins, with the rows that were built before it.
OpenTransaction(s) ==
    /\ Committing(s) /\ stage[s] = "idle"
    /\ stage' = [stage EXCEPT ![s] = T!AfterRows(s, rows[s])]
    /\ pending' = [pending EXCEPT ![s] = rows[s]]
    /\ UNCHANGED <<held, systemVars, clientVars>>

\* One statement of it, or one row of the INSERT.
Statement(s) ==
    /\ UNCHANGED <<systemVars, clientVars>>
    /\ T!InsertRow(s) \/ T!WriteCursor(s) \/ T!WriteRange(s)

\* Every session that is no longer in its batch has rolled back.
KeepOpen(var, none) ==
    [s \in Sessions |-> IF Committing(s)' THEN var[s] ELSE none]

RollBackTheRest ==
    /\ stage' = KeepOpen(stage, "idle")
    /\ pending' = KeepOpen(pending, {})
    /\ held' = KeepOpen(held, {})

\* Mutant: the rows that are written so far are committed.
CommitPart(s) ==
    /\ Committing(s) /\ stage[s] # "idle"
    /\ transfers' = transfers \cup held[s]
    /\ RecordCoverage(Batch(s).token, Batch(s).from, Batch(s).to)
    /\ UNCHANGED tokens

\* COMMIT: what the session has written goes on record, with the coverage.
CommitRows(s) ==
    /\ Committing(s) /\ stage[s] = "commit"
    /\ ForeignKey(held[s])
    /\ transfers' = transfers \cup held[s]
    /\ RecordCoverage(Batch(s).token, Batch(s).from, Batch(s).to)
    /\ UNCHANGED tokens

\* The batch of an indexer, whether or not it gets to see the reply.
CommitBatch(p) ==
    /\ CommitRows(p)
    /\ SetCursor(Token(p), toBlock[p])
    /\ Committed(p) \/ Raise(p)
    /\ UNCHANGED backfillVars

\* Mutant: a chunk sets the cursor to its last block.
CommitChunkAndCursor(w) ==
    /\ CommitRows(w) /\ SetCursor(BackfillToken, chunk[w].to)
    /\ wrote' = (wrote \/ held[w] # {})
    /\ EndChunk(w)
    /\ UNCHANGED <<failed, procVars>>

\* The chunk of a worker; rows_inserted is the number of rows written.
CommitChunkRows(w) ==
    /\ CommitRows(w)
    /\ \/ wrote' = (wrote \/ held[w] # {}) /\ UNCHANGED failed
       \/ failed' = failed \cup {chunk[w]} /\ UNCHANGED wrote
    /\ EndChunk(w)
    /\ UNCHANGED <<cursors, procVars>>

\* Everything the processes do besides committing a batch.
IndexerStep(p) ==
    \/ EnsureToken(p) \/ ReadCursor(p) \/ ReadHead(p) \/ BatchTop(p)
    \/ Serve(p) \/ Bisect(p) \/ Times(p) \/ NextCycle(p) \/ Exit(p)
    \/ Fail(p) \/ (pc[p] = "ensure" /\ LoseReply(p))
    \/ Boot(p) \/ Signal(p) \/ Crash(p)

ChunkStep(w) ==
    \/ TakeChunk(w) \/ EnsureChunkToken(w) \/ ServeChunk(w) \/ BisectChunk(w)
    \/ TimesOfChunk(w) \/ FailChunk(w)

QuietStep ==
    \/ ChainNext /\ UNCHANGED <<storeVars, fetchVars, procVars, backfillVars>>
    \/ (\E p \in Indexers : IndexerStep(p)) /\ UNCHANGED backfillVars
    \/ /\ \/ RunRange \/ RunGapScan \/ MainStep \/ Abort
          \/ \E w \in Workers : ChunkStep(w)
       /\ UNCHANGED procVars

ClientStep ==
    /\ \E r \in Readers : T!ReaderNext(r)
    /\ UNCHANGED <<systemVars, sessionVars>>

DeploymentNext ==
    \/ QuietStep /\ RollBackTheRest /\ UNCHANGED clientVars
    \/ \E s \in Sessions : OpenTransaction(s) \/ Statement(s)
    \/ /\ \/ \E p \in Indexers : CommitBatch(p)
          \/ \E w \in Workers : CommitChunkRows(w)
       /\ RollBackTheRest /\ UNCHANGED clientVars
    \/ ClientStep

DeploymentSpec == DeploymentInit /\ [][DeploymentNext]_deploymentVars

-----------------------------------------------------------------------------
\* A transaction is open only while its process is in its batch.
OpenWhileCommitting ==
    \A s \in Sessions : stage[s] # "idle" => Committing(s)

(***************************************************************************)
(* A transaction that is about to commit has written exactly the rows that *)
(* one statement on the tables of this moment would write: the row count   *)
(* of its INSERT, counted while others were writing too, is what it adds   *)
(* (writer.py, upsert_transfers; core.py, rows_inserted).                  *)
(***************************************************************************)
CountsExact ==
    \A s \in Sessions : stage[s] = "commit" => held[s] = Inserted(rows[s])

\* What holds at every moment, whatever the sessions are in the middle of.
DeploymentInv ==
    /\ SystemInv
    /\ OpenWhileCommitting
    /\ T!KeysExclusive
    /\ CountsExact

(***************************************************************************)
(* Statement by statement, the deployment does what System does in one     *)
(* step, and no more than Transactions allows its writers.                 *)
(***************************************************************************)
RowByRow == SystemSpec /\ T!TransactionsSpec

\* What a client of the deployment may conclude from its pages.
PagesComplete == T!CompleteUpToMark

=============================================================================
