----------------------------- MODULE MCIndexer -----------------------------
(***************************************************************************)
(* Small instances of Indexer.  Block 1 and 2 compete for the same         *)
(* transfer k1 (a reorganisation moves it), block 2 of fork f1 also holds  *)
(* an ERC-721 log, block 3 a transfer of the second token.                 *)
(***************************************************************************)
EXTENDS Indexer

CONSTANTS t1, t2, f1, f2, k1, k2, k3, k4, n1, p1

MCTokenOf == [k \in {k1, k2, k3, k4, n1} |-> IF k = k3 THEN t2 ELSE t1]
MCShape == [k \in {k1, k2, k3, k4, n1} |-> IF k = n1 THEN "erc721" ELSE "erc20"]

MCLogs ==
    [b \in Blocks |->
        [f \in Forks |->
            CASE b = 0 -> {k4}
              [] b = 1 -> IF f = f1 THEN {k1} ELSE {}
              [] b = 2 -> IF f = f1 THEN {k2, n1} ELSE {k1}
              [] b = 3 -> IF f = f1 THEN {k3} ELSE {k2}
              [] OTHER -> IF f = f1 THEN {} ELSE {k3}]]

TwoTokens == <<t1, t2>>

=============================================================================
