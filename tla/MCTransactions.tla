--------------------------- MODULE MCTransactions ---------------------------
\* Small instances of Transactions: a transaction with two transfers in
\* block 0, one more transfer in block 1.
EXTENDS Transactions

CONSTANTS t1, f1, f2, k1, k2, k3, x1, x2, w1, w2, w3, r1

MCTokenOf == [k \in Keys |-> t1]
MCShape == [k \in Keys |-> "erc20"]
MCTxOf == [k \in Keys |-> IF k = k3 THEN x2 ELSE x1]
MCLogIndex == [k \in Keys |-> IF k = k2 THEN 1 ELSE 0]

\* On the other fork block 1 is empty.
MCLogs ==
    [b \in Blocks |->
        [f \in Forks |->
            CASE b = 0 -> {k1, k2}
              [] b = 1 -> IF f = f1 THEN {k3} ELSE {}
              [] OTHER -> {}]]

\* Each fork has a block 1 of its own.
MCRivalLogs ==
    [b \in Blocks |->
        [f \in Forks |-> IF b # 1 THEN {} ELSE IF f = f1 THEN {k1} ELSE {k3}]]

Everything == {[keys |-> Keys, from |-> 0, to |-> MaxBlock]}
Filtered == Everything \cup {[keys |-> {k2, k3}, from |-> 0, to |-> 0]}

=============================================================================
