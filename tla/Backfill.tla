------------------------------ MODULE Backfill ------------------------------
(***************************************************************************)
(* `python -m chainledger.backfill` for one token: main and Backfiller.    *)
(* The main thread (mpc) reads what it needs, submits the chunks to a      *)
(* thread pool and consumes the results; each worker thread (wpc) runs     *)
(* _index_chunk with a client, a decoder and a cache of its own.           *)
(*   mpc:  idle    no backfill is running     cursor  find_gap_ranges,     *)
(*         scan    _covered_ranges            check   range_fully_covered  *)
(*         pool    as_completed loop          done    the results are in   *)
(*   wpc:  idle, ensure, fetch, commit: the calls of _index_chunk          *)
(***************************************************************************)
EXTENDS RangeFetch, Ranges

CONSTANTS
    Workers,        \* the threads of the pool, max(1, --workers)
    BackfillToken,  \* --token
    Requests,       \* ranges an operator asks for: --from-block, --to-block
    ChunkBatch,     \* settings.batch_size
    Buffer          \* blocks below the head an operator keeps away from

ASSUME BackfillConstants ==
    /\ Workers \subseteq Procs /\ Workers # {} /\ IsFiniteSet(Workers)
    /\ BackfillToken \in Tokens
    /\ Requests \subseteq {r \in BlockRange : r.from <= r.to}
    /\ ChunkBatch \in Nat \ {0}
    /\ Buffer \in Int

VARIABLES
    mpc,       \* the main thread's step
    target,    \* the blocks this run answers for
    plan,      \* the ranges it was given, or the gaps it found
    checked,   \* how many of them range_fully_covered has been true for
    promised,  \* idempotency_passed
    queue,     \* chunks no worker has taken
    wpc,       \* [Workers -> a worker's step]
    chunk,     \* [Workers -> the chunk it works on]
    failed,    \* chunks whose future raised
    wrote      \* whether any result has rows_inserted > 0

runVars == <<mpc, target, plan, checked, promised>>
poolVars == <<queue, wpc, chunk, failed, wrote>>
backfillVars == <<runVars, poolVars>>

NoRange == RangeOf(0, -1)

BackfillTypeOK ==
    /\ mpc \in {"idle", "cursor", "scan", "check", "pool", "done"}
    /\ target \in [from : Int, to : Int]
    /\ plan \in Seq(BlockRange)
    /\ checked \in 0 .. Len(plan)
    /\ promised \in BOOLEAN
    /\ queue \in Seq(BlockRange)
    /\ wpc \in [Workers -> {"idle", "ensure", "fetch", "commit"}]
    /\ chunk \in [Workers -> BlockRange \cup {NoRange}]
    /\ failed \subseteq BlockRange
    /\ wrote \in BOOLEAN

BackfillInit ==
    /\ mpc = "idle"
    /\ target = NoRange
    /\ plan = <<>>
    /\ checked = 0
    /\ promised = FALSE
    /\ queue = <<>>
    /\ wpc = [w \in Workers |-> "idle"]
    /\ chunk = [w \in Workers |-> NoRange]
    /\ failed = {}
    /\ wrote = FALSE

WGoto(w, l) == wpc' = [wpc EXCEPT ![w] = l]

\* _covered_ranges: the records of the token that meet [f, n].
CoveredRanges(f, n) ==
    {RangeOf(r.from, r.to) : r \in
        {r \in ranges : r.token = BackfillToken /\ r.to >= f /\ r.from <= n}}

\* Mutant: the first block is taken for the whole range.
FirstCovered(f, n) == ComputeGaps(f, f, CoveredRanges(f, n)) = <<>>

\* range_fully_covered.
FullyCovered(f, n) == ComputeGaps(f, n, CoveredRanges(f, n)) = <<>>

-----------------------------------------------------------------------------
\* The command line gives a range: nothing but its order is validated.
RunRange ==
    /\ mpc = "idle"
    /\ \E r \in Requests :
          /\ r.to <= head - Buffer
          /\ target' = r
          /\ plan' = <<r>>
    /\ mpc' = "check"
    /\ UNCHANGED <<checked, promised, poolVars>>
    /\ UNCHANGED <<chainVars, storeVars, fetchVars>>

RunGapScan ==
    /\ mpc = "idle"
    /\ mpc' = "cursor"
    /\ UNCHANGED <<target, plan, checked, promised, poolVars>>
    /\ UNCHANGED <<chainVars, storeVars, fetchVars>>

\* find_gap_ranges, its first session: START_BLOCK to the cursor, if any.
ScanCursor ==
    /\ mpc = "cursor"
    /\ LET end == IF cursors[BackfillToken] = NoCursor THEN StartBlock - 1
                  ELSE cursors[BackfillToken]
       IN /\ target' = RangeOf(StartBlock, end)
          /\ mpc' = IF end < StartBlock THEN "done" ELSE "scan"
    /\ UNCHANGED <<plan, checked, promised, poolVars>>
    /\ UNCHANGED <<chainVars, storeVars, fetchVars>>

\* find_gap_ranges, its second session; without a gap main returns at once.
ScanGaps ==
    /\ mpc = "scan"
    /\ plan' = ComputeGaps(target.from, target.to,
                           CoveredRanges(target.from, target.to))
    /\ mpc' = IF plan' = <<>> THEN "done" ELSE "check"
    /\ UNCHANGED <<target, checked, promised, poolVars>>
    /\ UNCHANGED <<chainVars, storeVars, fetchVars>>

\* Mutant: the whole target is indexed again, not the gaps in it.
ChunksOfTarget ==
    Chunks(target.from, target.to, Cardinality(Workers), ChunkBatch)

\* The chunks of every range of the plan, as run() submits them.
AllChunks ==
    FlattenSeq([i \in DOMAIN plan |->
        Chunks(plan[i].from, plan[i].to, Cardinality(Workers), ChunkBatch)])

\* idempotency_passed = all(range_fully_covered ...): one session per range,
\* up to the first that is not covered.  Then run() submits every chunk.
CheckRange ==
    /\ mpc = "check"
    /\ LET r == plan[checked + 1]
           full == FullyCovered(r.from, r.to)
       IN /\ checked' = IF full THEN checked + 1 ELSE checked
          /\ IF full /\ checked + 1 < Len(plan)
             THEN UNCHANGED <<mpc, promised, queue>>
             ELSE mpc' = "pool" /\ promised' = full /\ queue' = AllChunks
    /\ UNCHANGED <<target, plan, wpc, chunk, failed, wrote>>
    /\ UNCHANGED <<chainVars, storeVars, fetchVars>>

-----------------------------------------------------------------------------
\* A free thread takes the oldest chunk; its service starts with no cache.
TakeChunk(w) ==
    /\ wpc[w] = "idle" /\ queue # <<>>
    /\ chunk' = [chunk EXCEPT ![w] = Head(queue)]
    /\ queue' = Tail(queue)
    /\ WGoto(w, "ensure")
    /\ UNCHANGED <<runVars, failed, wrote>>
    /\ UNCHANGED <<chainVars, storeVars, fetchVars>>

EnsureChunkToken(w) ==
    /\ wpc[w] = "ensure"
    /\ tokens' = tokens \cup {BackfillToken}
    /\ StartFetch(w, chunk[w].from, chunk[w].to)
    /\ WGoto(w, "fetch")
    /\ UNCHANGED <<runVars, queue, chunk, failed, wrote>>
    /\ UNCHANGED <<transfers, cursors, ranges, chainVars>>

ServeChunk(w) ==
    /\ wpc[w] = "fetch"
    /\ ServeRange(w, BackfillToken)
    /\ UNCHANGED <<chainVars, storeVars, backfillVars>>

BisectChunk(w) ==
    /\ wpc[w] = "fetch"
    /\ BisectRange(w)
    /\ UNCHANGED <<chainVars, storeVars, backfillVars>>

TimesOfChunk(w) ==
    /\ wpc[w] = "fetch"
    /\ BuildRows(w)
    /\ WGoto(w, "commit")
    /\ UNCHANGED <<runVars, queue, chunk, failed, wrote>>
    /\ UNCHANGED <<chainVars, storeVars>>

\* _index_chunk ends, and with it its client, its service and their cache.
EndChunk(w) ==
    /\ WGoto(w, "idle")
    /\ chunk' = [chunk EXCEPT ![w] = NoRange]
    /\ DropLocals(w)
    /\ cache' = [cache EXCEPT ![w] = NoTimes]
    /\ UNCHANGED <<runVars, queue, chainVars>>

\* Mutant: coverage is recorded for all of the run's blocks.
ChunkWritesTarget(w) ==
    /\ UpsertTransfers(rows[w])
    /\ RecordCoverage(BackfillToken, target.from, target.to)
    /\ UNCHANGED <<cursors, tokens>>

\* The chunk's transaction; a backfill never touches a cursor.
ChunkWrites(w) ==
    /\ UpsertTransfers(rows[w])
    /\ RecordCoverage(BackfillToken, chunk[w].from, chunk[w].to)
    /\ UNCHANGED <<cursors, tokens>>

CommitChunk(w) ==
    /\ wpc[w] = "commit"
    /\ wrote' = (wrote \/ Inserted(rows[w]) # {})
    /\ ChunkWrites(w)
    /\ EndChunk(w)
    /\ UNCHANGED failed

\* _index_chunk raises; the future keeps the exception, the pool goes on.
FailChunk(w) ==
    /\ wpc[w] # "idle"
    /\ failed' = failed \cup {chunk[w]}
    /\ EndChunk(w)
    /\ UNCHANGED <<wrote, storeVars>>

\* The database commits, but the worker only sees its connection break.
LoseChunkReply(w) ==
    /\ wpc[w] = "commit"
    /\ failed' = failed \cup {chunk[w]}
    /\ ChunkWrites(w)
    /\ EndChunk(w)
    /\ UNCHANGED wrote

Idle == queue = <<>> /\ \A w \in Workers : wpc[w] = "idle"

\* Mutant: the first exception ends the run while other chunks are running.
PoolDoneOrFailed == failed # {} \/ Idle

\* Mutant: the loop waits for a result from every chunk.
PoolSucceeded == failed = {} /\ Idle

\* The as_completed loop ends or raises; in both cases the executor's exit
\* waits until every submitted chunk has run.
PoolDone == Idle

Drain ==
    /\ mpc = "pool" /\ PoolDone
    /\ mpc' = "done"
    /\ UNCHANGED <<target, plan, checked, promised, poolVars>>
    /\ UNCHANGED <<chainVars, storeVars, fetchVars>>

ForgetRun ==
    target' = NoRange /\ plan' = <<>> /\ checked' = 0 /\ promised' = FALSE

\* A variable of the workers, set back; other processes keep theirs.
Cleared(var, val) == [p \in Procs |-> IF p \in Workers THEN val ELSE var[p]]

\* The process is gone: nothing of it is left.
Reset ==
    /\ mpc' = "idle" /\ ForgetRun
    /\ queue' = <<>> /\ failed' = {} /\ wrote' = FALSE
    /\ wpc' = [w \in Workers |-> "idle"]
    /\ chunk' = [w \in Workers |-> NoRange]
    /\ todo' = Cleared(todo, {}) /\ logs' = Cleared(logs, {})
    /\ rows' = Cleared(rows, {}) /\ cache' = Cleared(cache, NoTimes)
    /\ UNCHANGED <<chainVars, storeVars>>

Finish == mpc = "done" /\ Reset

\* The process is killed, or a read of the main thread raises.
Abort == mpc \notin {"idle", "done"} /\ Reset

-----------------------------------------------------------------------------
MainStep == ScanCursor \/ ScanGaps \/ CheckRange \/ Drain \/ Finish

WorkerStep(w) ==
    \/ TakeChunk(w) \/ EnsureChunkToken(w) \/ ServeChunk(w) \/ BisectChunk(w)
    \/ TimesOfChunk(w) \/ CommitChunk(w)

BackfillNext ==
    \/ RunRange \/ RunGapScan \/ MainStep \/ Abort
    \/ \E w \in Workers : WorkerStep(w) \/ FailChunk(w) \/ LoseChunkReply(w)

-----------------------------------------------------------------------------
(***************************************************************************)
(* The assertion of _print_summary: when every range was covered before    *)
(* the run, and no chunk raised, no row was inserted.                      *)
(***************************************************************************)
IdempotencyHolds ==
    mpc = "done" /\ promised /\ failed = {} => ~wrote

(***************************************************************************)
(* When a run ends, every block it answers for, the requested range or     *)
(* START_BLOCK up to the cursor a gap scan read, has a coverage record or  *)
(* is in a chunk that raised: one failing chunk costs no other chunk.      *)
(***************************************************************************)
RunAccountsForTarget ==
    mpc = "done" =>
        \A b \in target.from .. target.to :
            Covered(BackfillToken, b) \/ \E r \in failed : In(b, r)

-----------------------------------------------------------------------------
\* A range of at least one block, inside one of the ranges of the plan.
InPlan(r) ==
    /\ r.from <= r.to
    /\ \E k \in 1 .. Len(plan) : plan[k].from <= r.from /\ r.to <= plan[k].to

\* Block b is on record, still to be done, being done, or known to be lost.
Accounted(b) ==
    \/ Covered(BackfillToken, b)
    \/ Holds(queue, b)
    \/ \E w \in Workers : wpc[w] # "idle" /\ In(b, chunk[w])
    \/ \E r \in failed : In(b, r)

(***************************************************************************)
(* What a run knows.  Its target is final; the plan lies in the target and *)
(* holds its uncovered blocks; chunks are parts of the plan, and together  *)
(* with the coverage and the failures they account for it.  The ranges     *)
(* checked so far are covered, and after a promise nothing is new.         *)
(***************************************************************************)
RunInv ==
    /\ mpc \in {"idle", "cursor", "scan"} => plan = <<>>
    /\ mpc = "check" => checked < Len(plan)
    /\ mpc # "pool" => queue = <<>> /\ \A w \in Workers : wpc[w] = "idle"
    /\ mpc \notin {"pool", "done"} => ~wrote /\ ~promised
    /\ mpc \in {"scan", "check", "pool", "done"} /\ target.from <= target.to =>
          target.from \in Blocks /\ target.to \in Blocks /\ Final(target.to)
    /\ \A k \in 1 .. Len(plan) :
          /\ plan[k].from <= plan[k].to
          /\ target.from <= plan[k].from /\ plan[k].to <= target.to
    /\ mpc \in {"check", "pool", "done"} =>
          \A b \in target.from .. target.to :
             Covered(BackfillToken, b) \/ Holds(plan, b)
    /\ \A k \in 1 .. checked :
          \A b \in plan[k].from .. plan[k].to : Covered(BackfillToken, b)
    /\ promised =>
          /\ ~wrote
          /\ \A k \in 1 .. Len(plan) :
                \A b \in plan[k].from .. plan[k].to : Covered(BackfillToken, b)
    /\ \A i \in 1 .. Len(queue) : InPlan(queue[i])
    /\ \A w \in Workers : wpc[w] # "idle" => InPlan(chunk[w])
    /\ mpc \in {"pool", "done"} =>
          \A k \in 1 .. Len(plan) :
             \A b \in plan[k].from .. plan[k].to : Accounted(b)

\* What a worker knows in the middle of its chunk.
ChunkInv(w) ==
    /\ wpc[w] = "fetch" =>
          FetchInv(w, BackfillToken, chunk[w].from, chunk[w].to)
    /\ wpc[w] = "commit" =>
          RowsInv(w, BackfillToken, chunk[w].from, chunk[w].to)
    /\ wpc[w] # "fetch" => logs[w] = {}
    /\ CacheInv(w)

(***************************************************************************)
(* The inductive invariant of a backfill: what it needs of the tables, and *)
(* what its threads know.  It asks less of the cursors than the indexer    *)
(* guarantees: an operator may have set them to any final block.           *)
(***************************************************************************)
BackfillInv ==
    /\ ChainTypeOK /\ StoreTypeOK /\ FetchTypeOK /\ BackfillTypeOK
    /\ ChainInv
    /\ RecordsFinal
    /\ \A r \in ranges : r.from <= r.to
    /\ \A t \in Tokens : cursors[t] # NoCursor =>
          cursors[t] \in Blocks /\ Final(cursors[t])
    /\ CoverageSound
    /\ NothingOrphaned
    /\ RunInv
    /\ \A w \in Workers : ChunkInv(w)

-----------------------------------------------------------------------------
\* Every run comes to its end, whatever chunks fail.
RunEnds == mpc # "idle" ~> mpc = "idle"

=============================================================================
