------------------------------- MODULE Ledger -------------------------------
(***************************************************************************)
(* What chainledger promises its readers, without saying how: a book of    *)
(* transfers that only ever grows by whole, final blocks of the canonical  *)
(* chain, and per token a mark below which no block is missing.            *)
(* The indexer and a historical backfill implement this specification.     *)
(***************************************************************************)
EXTENDS Chain

CONSTANT StartBlock

VARIABLES
    book,     \* the transfers on record
    covered,  \* the pairs <<t, b>> whose transfers are all on record
    mark      \* [Tokens -> Int]: every block from StartBlock to it is covered

ledgerVars == <<book, covered, mark>>

LedgerInit ==
    /\ ChainInit
    /\ book = {}
    /\ covered = {}
    /\ mark = [t \in Tokens |-> StartBlock - 1]

\* One range of final blocks of a token goes on record, and the mark of the
\* token may move to any block below which nothing is missing.
Cover(t, f, n) ==
    /\ f <= n /\ Final(n)
    /\ book' = book \cup UNION {Canonical(t, b) : b \in f .. n}
    /\ covered' = covered \cup ({t} \X (f .. n))
    /\ \/ UNCHANGED mark
       \/ \E m \in StartBlock .. n :
             /\ \A b \in StartBlock .. m : <<t, b>> \in covered'
             /\ mark' = [mark EXCEPT ![t] = m]
    /\ UNCHANGED chainVars

LedgerNext ==
    \/ ChainNext /\ UNCHANGED ledgerVars
    \/ \E t \in Tokens, f, n \in Blocks : Cover(t, f, n)

LedgerSpec ==
    LedgerInit /\ [][LedgerNext]_<<chainVars, ledgerVars>>

LedgerTypeOK ==
    /\ ChainTypeOK
    /\ book \subseteq [key : Keys, block : Blocks, time : Forks]
    /\ covered \subseteq Tokens \X Blocks
    /\ mark \in [Tokens -> Int]

(***************************************************************************)
(* The book is exactly the canonical transfers of the covered blocks:      *)
(* nothing missing, nothing left over from an abandoned block.             *)
(***************************************************************************)
Exact == book = UNION {Canonical(c[1], c[2]) : c \in covered}

\* Below a token's mark every block is covered.
MarkSound ==
    \A t \in Tokens : \A b \in StartBlock .. mark[t] : <<t, b>> \in covered

=============================================================================
