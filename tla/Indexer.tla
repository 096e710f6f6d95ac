------------------------------ MODULE Indexer ------------------------------
(***************************************************************************)
(* The live indexer: IndexerService.run_forever, run_once and _index_token.*)
(* pc names the call the process is about to make:                         *)
(*   down    not running                                                   *)
(*   ensure  ensure_token                 cursor  get_cursor               *)
(*   head    eth_blockNumber              batch   top of the while loop    *)
(*   fetch   fetch_range, block_times     commit  the batch transaction    *)
(*   wait    stop_event.wait between two cycles                            *)
(***************************************************************************)
EXTENDS RangeFetch, Sequences

CONSTANTS
    Indexers,        \* indexer processes; the deployment runs one
    TokenSeq,        \* settings.token_addresses, in order
    Confirmations,   \* settings.confirmations
    BatchSize        \* settings.batch_size

ASSUME IndexerConstants ==
    /\ Indexers \subseteq Procs
    /\ TokenSeq \in Seq(Tokens)
    /\ Confirmations \in Nat
    /\ BatchSize \in Nat \ {0}

\* The confirmations are chosen so that no reorganisation reaches below them.
ASSUME ConfirmationsSuffice == ReorgDepth <= Confirmations

VARIABLES
    pc,        \* [Indexers -> the step above]
    ti,        \* index in TokenSeq of the token being indexed
    current,   \* last block done, as this process believes
    safeHead,  \* safe_head
    toBlock,   \* to_block, the end of the batch
    stop       \* stop_event

procVars == <<pc, ti, current, safeHead, toBlock, stop>>
vars == <<chainVars, storeVars, fetchVars, procVars>>

Token(p) == TokenSeq[ti[p]]

PcValues ==
    {"down", "ensure", "cursor", "head", "batch", "fetch", "commit", "wait"}

IndexerTypeOK ==
    /\ pc \in [Indexers -> PcValues]
    /\ ti \in [Indexers -> Nat]
    /\ \A p \in Indexers :
          IF pc[p] \in {"down", "wait"} THEN ti[p] = 1
          ELSE ti[p] \in 1 .. Len(TokenSeq)
    /\ current \in [Indexers -> Int]
    /\ safeHead \in [Indexers -> Int]
    /\ toBlock \in [Indexers -> Int]
    /\ stop \in [Indexers -> BOOLEAN]

\* Every variable has its type; a batch never leaves the chain's blocks.
TypeOK == ChainTypeOK /\ StoreTypeOK /\ FetchTypeOK /\ IndexerTypeOK

Init ==
    /\ ChainInit /\ StoreInit /\ FetchInit
    /\ pc = [p \in Indexers |-> "down"]
    /\ ti = [p \in Indexers |-> 1]
    /\ current = [p \in Indexers |-> 0]
    /\ safeHead = [p \in Indexers |-> 0]
    /\ toBlock = [p \in Indexers |-> 0]
    /\ stop = [p \in Indexers |-> FALSE]

Goto(p, l) == pc' = [pc EXCEPT ![p] = l]

ForgetFrame(p) ==
    /\ current' = [current EXCEPT ![p] = 0]
    /\ safeHead' = [safeHead EXCEPT ![p] = 0]
    /\ toBlock' = [toBlock EXCEPT ![p] = 0]

-----------------------------------------------------------------------------
\* The for loop of run_once begins, or has no token to begin with.
StartCycle(p) == Goto(p, IF TokenSeq = <<>> THEN "wait" ELSE "ensure")

\* _index_token returns and run_once takes the next token.
NextToken(p) ==
    /\ IF ti[p] < Len(TokenSeq)
       THEN Goto(p, "ensure") /\ ti' = [ti EXCEPT ![p] = @ + 1]
       ELSE Goto(p, "wait") /\ ti' = [ti EXCEPT ![p] = 1]
    /\ ForgetFrame(p)
    /\ UNCHANGED stop

\* The process starts, with an empty cache and no signal received.
Boot(p) ==
    /\ pc[p] = "down"
    /\ StartCycle(p)
    /\ UNCHANGED <<ti, current, safeHead, toBlock, stop>>
    /\ UNCHANGED <<chainVars, storeVars, fetchVars>>

EnsureToken(p) ==
    /\ pc[p] = "ensure"
    /\ tokens' = tokens \cup {Token(p)}
    /\ Goto(p, "cursor")
    /\ UNCHANGED <<ti, current, safeHead, toBlock, stop>>
    /\ UNCHANGED <<transfers, cursors, ranges, chainVars, fetchVars>>

\* Mutant: the cursor is looked up in another case than it was stored in.
ResumeAtStart(p) == StartBlock - 1

\* get_cursor, or the block before START_BLOCK.
Resume(p) ==
    IF cursors[Token(p)] = NoCursor THEN StartBlock - 1 ELSE cursors[Token(p)]

ReadCursor(p) ==
    /\ pc[p] = "cursor"
    /\ current' = [current EXCEPT ![p] = Resume(p)]
    /\ Goto(p, "head")
    /\ UNCHANGED <<ti, safeHead, toBlock, stop>>
    /\ UNCHANGED <<chainVars, storeVars, fetchVars>>

\* Mutant: the confirmations are forgotten.
UnconfirmedHead == head

ConfirmedHead == head - Confirmations

\* latest is read once per token and cycle; nothing to do returns early.
ReadHead(p) ==
    /\ pc[p] = "head"
    /\ IF ConfirmedHead <= current[p]
       THEN NextToken(p)
       ELSE /\ safeHead' = [safeHead EXCEPT ![p] = ConfirmedHead]
            /\ Goto(p, "batch")
            /\ UNCHANGED <<ti, current, toBlock, stop>>
    /\ UNCHANGED <<chainVars, storeVars, fetchVars>>

BatchEnd(p) ==
    IF current[p] + BatchSize <= safeHead[p]
    THEN current[p] + BatchSize ELSE safeHead[p]

\* Mutant: a batch is only indexed when it is full.
NoFullBatchLeft(p) == current[p] + BatchSize > safeHead[p] \/ stop[p]

\* The condition of the while loop, and the check of the stop event.
NoBatchLeft(p) == current[p] >= safeHead[p] \/ stop[p]

\* The top of the while loop: done, stopped, or one more batch.
BatchTop(p) ==
    /\ pc[p] = "batch"
    /\ IF NoBatchLeft(p)
       THEN NextToken(p) /\ UNCHANGED fetchVars
       ELSE /\ toBlock' = [toBlock EXCEPT ![p] = BatchEnd(p)]
            /\ StartFetch(p, current[p] + 1, BatchEnd(p))
            /\ Goto(p, "fetch")
            /\ UNCHANGED <<ti, current, safeHead, stop>>
    /\ UNCHANGED <<chainVars, storeVars>>

Serve(p) ==
    /\ pc[p] = "fetch"
    /\ ServeRange(p, Token(p))
    /\ UNCHANGED <<chainVars, storeVars, procVars>>

Bisect(p) ==
    /\ pc[p] = "fetch"
    /\ BisectRange(p)
    /\ UNCHANGED <<chainVars, storeVars, procVars>>

Times(p) ==
    /\ pc[p] = "fetch"
    /\ BuildRows(p)
    /\ Goto(p, "commit")
    /\ UNCHANGED <<ti, current, safeHead, toBlock, stop>>
    /\ UNCHANGED <<chainVars, storeVars>>

-----------------------------------------------------------------------------
\* Mutant: the cursor and the coverage are committed, the rows are not.
BatchWritesNoRows(p) ==
    /\ SetCursor(Token(p), toBlock[p])
    /\ RecordCoverage(Token(p), current[p] + 1, toBlock[p])
    /\ UNCHANGED <<transfers, tokens>>

\* The batch transaction: rows, cursor and coverage together.
BatchWrites(p) ==
    /\ UpsertTransfers(rows[p])
    /\ SetCursor(Token(p), toBlock[p])
    /\ RecordCoverage(Token(p), current[p] + 1, toBlock[p])
    /\ UNCHANGED tokens

\* The while loop goes on behind the batch.
Committed(p) ==
    /\ current' = [current EXCEPT ![p] = toBlock[p]]
    /\ toBlock' = [toBlock EXCEPT ![p] = 0]
    /\ Goto(p, "batch")
    /\ DropLocals(p)
    /\ UNCHANGED <<ti, safeHead, stop, cache, chainVars>>

Commit(p) ==
    /\ pc[p] = "commit"
    /\ BatchWrites(p)
    /\ Committed(p)

\* Mutant: the signal handler's event is looked at after the next cycle only.
NextCycleDeaf(p) ==
    /\ pc[p] = "wait"
    /\ StartCycle(p)
    /\ UNCHANGED <<ti, current, safeHead, toBlock, stop>>
    /\ UNCHANGED <<chainVars, storeVars, fetchVars>>

\* The wait between cycles ends, early if the stop event is set, and
\* run_forever either starts the next cycle or returns.
NextCycle(p) ==
    /\ pc[p] = "wait"
    /\ ~stop[p] /\ StartCycle(p)
    /\ UNCHANGED <<ti, current, safeHead, toBlock, stop>>
    /\ UNCHANGED <<chainVars, storeVars, fetchVars>>

Exit(p) ==
    /\ pc[p] = "wait"
    /\ stop[p] /\ Goto(p, "down")
    /\ stop' = [stop EXCEPT ![p] = FALSE]
    /\ cache' = [cache EXCEPT ![p] = NoTimes]
    /\ UNCHANGED <<ti, current, safeHead, toBlock, todo, logs, rows>>
    /\ UNCHANGED <<chainVars, storeVars>>

-----------------------------------------------------------------------------
\* An exception leaves _index_token and run_once: run_forever logs it, and
\* the tokens after this one are not visited in this cycle.
Raise(p) ==
    /\ Goto(p, "wait")
    /\ ti' = [ti EXCEPT ![p] = 1]
    /\ ForgetFrame(p)
    /\ DropLocals(p)
    /\ UNCHANGED <<stop, cache, chainVars>>

\* An RPC call or a statement fails; its transaction is rolled back.
Fail(p) ==
    /\ pc[p] \in {"ensure", "cursor", "head", "fetch", "commit"}
    /\ Raise(p)
    /\ UNCHANGED storeVars

\* The database commits, but the process only sees its connection break.
LoseReply(p) ==
    /\ \/ /\ pc[p] = "ensure"
          /\ tokens' = tokens \cup {Token(p)}
          /\ UNCHANGED <<transfers, cursors, ranges>>
       \/ pc[p] = "commit" /\ BatchWrites(p)
    /\ Raise(p)

\* SIGTERM or SIGINT.
Signal(p) ==
    /\ pc[p] # "down"
    /\ stop' = [stop EXCEPT ![p] = TRUE]
    /\ UNCHANGED <<pc, ti, current, safeHead, toBlock>>
    /\ UNCHANGED <<chainVars, storeVars, fetchVars>>

\* The process is killed; an open transaction is rolled back.
Crash(p) ==
    /\ pc[p] # "down"
    /\ Goto(p, "down")
    /\ ti' = [ti EXCEPT ![p] = 1]
    /\ stop' = [stop EXCEPT ![p] = FALSE]
    /\ ForgetFrame(p)
    /\ DropLocals(p)
    /\ cache' = [cache EXCEPT ![p] = NoTimes]
    /\ UNCHANGED <<chainVars, storeVars>>

-----------------------------------------------------------------------------
\* What the process does by itself when nothing goes wrong.
Step(p) ==
    \/ EnsureToken(p) \/ ReadCursor(p) \/ ReadHead(p) \/ BatchTop(p)
    \/ Serve(p) \/ Bisect(p) \/ Times(p) \/ Commit(p)
    \/ NextCycle(p) \/ Exit(p)

Fault(p) == Fail(p) \/ LoseReply(p)

IndexerNext(p) == Step(p) \/ Fault(p) \/ Boot(p) \/ Signal(p) \/ Crash(p)

Next ==
    \/ ChainNext /\ UNCHANGED <<storeVars, fetchVars, procVars>>
    \/ \E p \in Indexers : IndexerNext(p)

Spec == Init /\ [][Next]_vars

\* A running process keeps taking its steps: its calls return (each has a
\* timeout and a bounded number of attempts), its waits are bounded.  Nothing
\* is assumed of the chain, of failures, or of anyone restarting the process.
FairSpec == Spec /\ \A p \in Indexers : WF_vars(Step(p))

-----------------------------------------------------------------------------
(***************************************************************************)
(* With one indexer the cursor of a token never moves back, whatever       *)
(* crashes, rollbacks and lost replies come between two reads of it        *)
(* (writer.py, set_cursor overwrites it unconditionally).                  *)
(***************************************************************************)
CursorMonotone ==
    [][\A t \in Tokens : cursors[t] # NoCursor =>
          /\ cursors'[t] # NoCursor
          /\ cursors'[t] >= cursors[t]]_vars

\* A signal stops the process: whatever fails on the way, it takes no more
\* than the rest of its cycle (service.py, run_forever).
StopTerminates ==
    \A p \in Indexers : stop[p] ~> pc[p] = "down"

\* From some point on nothing fails while the first i tokens are indexed.  A
\* call that fails for the last token may leave what its normal return leaves
\* (nothing to do, on to the wait): that is a step like any other.
Calm(i) ==
    <>[][\A p \in Indexers : Fault(p) /\ ~Step(p) => ti[p] > i]_vars

\* From some point on block b stays confirmed and every process runs.
Settled(b) ==
    <>[](b <= head - Confirmations /\ \A p \in Indexers : pc[p] # "down")

(***************************************************************************)
(* A block that stays confirmed is indexed.  Failures of tokens listed     *)
(* later do not hold up a token (their failures end the cycle early, and   *)
(* the next cycle begins at the first token again); failures of tokens     *)
(* listed earlier do, which is why Calm asks for all of the first i.       *)
(***************************************************************************)
CatchUp ==
    \A i \in 1 .. Len(TokenSeq), b \in StartBlock .. MaxBlock :
        Calm(i) /\ Settled(b) =>
            <>[](cursors[TokenSeq[i]] # NoCursor /\ cursors[TokenSeq[i]] >= b)

-----------------------------------------------------------------------------
(***************************************************************************)
(* What a process knows in the middle of a cycle.  Once it has the cursor, *)
(* the blocks up to current are covered; its safe head stays below what    *)
(* can be reorganised; its batch lies between the two.                     *)
(***************************************************************************)
ProcInv(p) ==
    /\ pc[p] \in {"head", "batch", "fetch", "commit"} =>
          /\ StartBlock - 1 <= current[p]
          /\ \A b \in StartBlock .. current[p] : Covered(Token(p), b)
    /\ pc[p] \in {"batch", "fetch", "commit"} =>
          safeHead[p] <= peak - Confirmations
    /\ pc[p] \in {"fetch", "commit"} =>
          current[p] < toBlock[p] /\ toBlock[p] <= safeHead[p]
    /\ pc[p] = "fetch" => FetchInv(p, Token(p), current[p] + 1, toBlock[p])
    /\ pc[p] = "commit" => RowsInv(p, Token(p), current[p] + 1, toBlock[p])
    /\ pc[p] # "fetch" => logs[p] = {}
    /\ CacheInv(p)

\* The inductive invariant: every safety property of the indexer follows.
IndInv ==
    /\ TypeOK
    /\ ChainInv
    /\ StoreFinal
    /\ CoverageSound
    /\ NothingOrphaned
    /\ CursorCovered
    /\ \A p \in Indexers : ProcInv(p)

-----------------------------------------------------------------------------
(***************************************************************************)
(* Every commit of the indexer, seen or unseen by the process itself, puts *)
(* one range of final blocks on record; no other step touches the ledger.  *)
(***************************************************************************)
L == INSTANCE Ledger WITH
        book <- transfers,
        covered <- {c \in Tokens \X Blocks : Covered(c[1], c[2])},
        mark <- [t \in Tokens |->
                   IF cursors[t] = NoCursor THEN StartBlock - 1 ELSE cursors[t]]

LedgerRefined == L!LedgerSpec

=============================================================================
