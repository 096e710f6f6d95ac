---------------------------- MODULE MCArithmetic ----------------------------
(***************************************************************************)
(* The operators of Ranges and Amounts against what they are for, on every *)
(* input of a small domain: each behaviour takes one query and answers it. *)
(***************************************************************************)
EXTENDS Ranges, Amounts

CONSTANTS
    LastBlock,   \* bound: block numbers are 0 .. LastBlock
    MaxCovered,  \* bound: coverage records in one query
    MaxTotal,    \* bound: blocks in a range to split
    MaxWorkers,  \* bound: size of the thread pool
    MaxBatch,    \* bound: settings.batch_size
    MaxRaw,      \* bound: an amount
    MaxDecimals, \* bound: the decimals of a token
    Accounts     \* the parties of up to two transfers

ASSUME Bounds ==
    /\ LastBlock \in Nat
    /\ MaxTotal \in Nat
    /\ MaxWorkers \in Nat
    /\ MaxBatch \in Nat
    /\ MaxRaw \in Nat
    /\ MaxDecimals \in Nat
    /\ IsFiniteSet(Accounts)

VARIABLES query, answer

mcVars == <<query, answer>>

Block == 0 .. LastBlock
AllRanges == {r \in [from : Block, to : Block] : r.from <= r.to}

GapQueries ==
    [kind : {"gaps"}, f : Block, n : Block,
     covered : UNION {kSubset(k, AllRanges) : k \in 0 .. MaxCovered}]

ChunkQueries ==
    [kind : {"chunks"}, f : {0, 3}, total : 1 .. MaxTotal,
     workers : 1 .. MaxWorkers, batch : 1 .. MaxBatch]

AmountQueries ==
    [kind : {"amount"}, raw : -MaxRaw .. MaxRaw, decimals : 0 .. MaxDecimals]

Payments == [id : 1 .. 2, from : Accounts, to : Accounts, value : 1 .. 2]
BalanceQueries ==
    [kind : {"balances"}, rows : {{x, y} : x, y \in Payments}]

NoAnswer == <<RangeOf(-1, -1)>>

MCInit ==
    /\ query \in GapQueries \cup ChunkQueries \cup AmountQueries
                 \cup BalanceQueries
    /\ answer = NoAnswer

Answered ==
    CASE query.kind = "gaps" -> ComputeGaps(query.f, query.n, query.covered)
      [] query.kind = "chunks" -> Chunks(query.f, query.f + query.total - 1,
                                         query.workers, query.batch)
      [] query.kind = "amount" -> <<FormatValue(query.raw, query.decimals)>>
      [] OTHER -> <<[a \in Accounts |-> BalanceDelta(a, query.rows)]>>

Answer ==
    /\ answer = NoAnswer
    /\ answer' = Answered
    /\ UNCHANGED query

MCSpec == MCInit /\ [][Answer]_mcVars

Gaps == query.kind = "gaps" /\ answer # NoAnswer
Split == query.kind = "chunks" /\ answer # NoAnswer
Formatted == query.kind = "amount" /\ answer # NoAnswer
Balanced == query.kind = "balances" /\ answer # NoAnswer

Uncovered ==
    {b \in query.f .. query.n : \A r \in query.covered : ~In(b, r)}

(***************************************************************************)
(* compute_gaps returns the complement of the coverage: a block of         *)
(* [start, end] is in some gap exactly when no record covers it.           *)
(***************************************************************************)
GapsAreTheComplement ==
    Gaps => Uncovered = UNION {answer[i].from .. answer[i].to :
                                  i \in DOMAIN answer}

\* The gaps are minimal: in order, not empty, and two neighbours are kept
\* apart by at least one covered block (compute_gaps' docstring).
GapsAreMinimal ==
    Gaps =>
        /\ \A i \in DOMAIN answer : answer[i].from <= answer[i].to
        /\ \A i \in 1 .. Len(answer) - 1 :
              answer[i].to + 1 < answer[i + 1].from

\* The chunks partition the range in order: the first starts it, each next
\* one starts right after its predecessor, the last one ends it.
ChunksPartition ==
    Split =>
        /\ answer # <<>>
        /\ answer[1].from = query.f
        /\ answer[Len(answer)].to = query.f + query.total - 1
        /\ \A i \in DOMAIN answer : answer[i].from <= answer[i].to
        /\ \A i \in 1 .. Len(answer) - 1 :
              answer[i + 1].from = answer[i].to + 1

\* Of one range a pool gets at most eight chunks per worker, however long the
\* range is (comment in _chunks).  A run of several ranges submits as many for
\* each of them: the bound is not one on the queue of a gap scan.
RangeChunksBounded ==
    Split /\ query.workers > 1 => Len(answer) <= query.workers * 8

(***************************************************************************)
(* The formatted amount is the amount: read back it gives the raw value,   *)
(* with as many digits behind the point as the token has decimals          *)
(* ("never float", docstring of format_value_decimal).                     *)
(***************************************************************************)
AmountExact ==
    Formatted =>
        LET v == answer[1]
            frac == FoldLeft(LAMBDA n, d : 10 * n + d, 0, v.digits)
            abs == v.whole * Pow10[query.decimals] + frac
        IN /\ query.raw = IF v.neg THEN -abs ELSE abs
           /\ v.whole >= 0
           /\ Len(v.digits) = query.decimals

\* A transfer only moves value: over all accounts the balance deltas add up
\* to zero, with transfers to oneself, and the same payment made twice.
BalancesNetToZero ==
    Balanced => MapThenSumSet(LAMBDA a : answer[1][a], Accounts) = 0

=============================================================================
