---------------------------- MODULE MCDeployment ----------------------------
\* A small instance of Deployment: two transfers in block 1, of which only
\* one fork has the second; a client with pages of one row.
EXTENDS Deployment

CONSTANTS t1, f1, f2, k1, k2, x1, p1, w1, r1

MCTokenOf == [k \in Keys |-> t1]
MCShape == [k \in Keys |-> "erc20"]
MCTxOf == [k \in Keys |-> x1]
MCLogIndex == [k \in Keys |-> IF k = k2 THEN 1 ELSE 0]
MCLogs ==
    [b \in Blocks |->
        [f \in Forks |->
            IF b = 1 THEN IF f = f1 THEN {k1, k2} ELSE {k1} ELSE {}]]

OneToken == <<t1>>
SomeRanges == {RangeOf(1, 1)}
Everything == {[keys |-> Keys, from |-> 0, to |-> MaxBlock]}

=============================================================================
