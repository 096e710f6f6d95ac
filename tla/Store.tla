------------------------------- MODULE Store -------------------------------
(***************************************************************************)
(* The PostgreSQL tables of models.py and the statements of                *)
(* indexer/writer.py on them.  A commit is atomic; the action that commits *)
(* conjoins the statements of its transaction.                             *)
(***************************************************************************)
EXTENDS Chain

CONSTANTS
    StartBlock,  \* settings.start_block
    NoCursor     \* no row in indexer_cursors

ASSUME StoreConstants ==
    /\ StartBlock \in Blocks
    /\ NoCursor \notin Int

VARIABLES
    transfers,  \* rows of the transfers table
    cursors,    \* [Tokens -> last_indexed_block, or NoCursor]
    ranges,     \* rows of indexed_ranges
    tokens      \* addresses in the tokens table

storeVars == <<transfers, cursors, ranges, tokens>>

Transfer == [key : Keys, block : Blocks, time : Forks]
IndexedRange == [token : Tokens, from : Blocks, to : Blocks]

StoreTypeOK ==
    /\ transfers \subseteq Transfer
    /\ cursors \in [Tokens -> Int \cup {NoCursor}]
    /\ ranges \subseteq IndexedRange
    /\ tokens \subseteq Tokens

StoreInit ==
    /\ transfers = {}
    /\ cursors = [t \in Tokens |-> NoCursor]
    /\ ranges = {}
    /\ tokens = {}

(***************************************************************************)
(* The rows INSERT ... ON CONFLICT (tx_hash, log_index) DO NOTHING writes: *)
(* those whose key is new.  One statement may carry a key twice when the   *)
(* chain moved between the getLogs calls of a bisected range; the rows are *)
(* in block order and the first one wins.                                  *)
(***************************************************************************)
Inserted(rows) ==
    {r \in rows :
        /\ \A s \in transfers : s.key # r.key
        /\ \A s \in rows : s.key = r.key => r.block <= s.block}

\* The foreign key transfers.token_address -> tokens.address.
ForeignKey(rows) == \A r \in rows : TokenOf[r.key] \in tokens

UpsertTransfers(rows) ==
    /\ ForeignKey(Inserted(rows))
    /\ transfers' = transfers \cup Inserted(rows)

SetCursor(t, n) == cursors' = [cursors EXCEPT ![t] = n]

RecordCoverage(t, f, n) ==
    ranges' = ranges \cup {[token |-> t, from |-> f, to |-> n]}

Covered(t, b) ==
    \E r \in ranges : r.token = t /\ r.from <= b /\ b <= r.to

-----------------------------------------------------------------------------
(***************************************************************************)
(* A coverage record tells the truth: every transfer of every block it     *)
(* names is in the table (models.py, IndexedRange; writer.py,              *)
(* record_coverage).  Gap scans and the idempotency verdict of a backfill  *)
(* trust these records and nothing else.                                   *)
(***************************************************************************)
CoverageSound ==
    \A r \in ranges : \A b \in r.from .. r.to :
        Canonical(r.token, b) \subseteq transfers

(***************************************************************************)
(* The cursor never passes unwritten data (service.py, comment in          *)
(* _index_token; writer.py, set_cursor): every transfer from StartBlock to *)
(* the cursor is stored, at its block and with that block's time.          *)
(***************************************************************************)
NothingSkipped ==
    \A t \in Tokens : cursors[t] # NoCursor =>
        \A b \in StartBlock .. cursors[t] : Canonical(t, b) \subseteq transfers

(***************************************************************************)
(* Every stored row is a transfer of the canonical chain with the time of  *)
(* its canonical block: no row survives the block it came from.            *)
(***************************************************************************)
NothingOrphaned ==
    \A r \in transfers : r \in Canonical(TokenOf[r.key], r.block)

\* Every block up to the cursor has a coverage record, so that a gap scan
\* re-indexes nothing the live indexer has done.
CursorCovered ==
    \A t \in Tokens : cursors[t] # NoCursor =>
        \A b \in StartBlock .. cursors[t] : Covered(t, b)

-----------------------------------------------------------------------------
\* Rows and coverage speak of final blocks only.  With the chain's invariant
\* this keeps the properties above true when the chain moves.
RecordsFinal ==
    /\ \A r \in transfers : Final(r.block)
    /\ \A r \in ranges : Final(r.to)

\* The same, and no cursor is below the first block.
StoreFinal ==
    /\ RecordsFinal
    /\ \A t \in Tokens : cursors[t] # NoCursor => StartBlock <= cursors[t]

=============================================================================
