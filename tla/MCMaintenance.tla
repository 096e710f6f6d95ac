--------------------------- MODULE MCMaintenance ---------------------------
\* Small instances of Maintenance: a transfer that a reorganisation moves
\* between blocks 1 and 2, one transfer that only one fork has.
EXTENDS Maintenance

CONSTANTS t1, f1, f2, k1, k2, w1, w2

MCTokenOf == [k \in Keys |-> t1]
MCShape == [k \in Keys |-> "erc20"]
MCLogs ==
    [b \in Blocks |->
        [f \in Forks |->
            CASE b = 1 -> IF f = f1 THEN {k1} ELSE {}
              [] b = 2 -> IF f = f1 THEN {k2} ELSE {k1}
              [] OTHER -> {}]]

NoBuffer == -MaxBlock
SomeRanges == {RangeOf(0, 2)}
AnyRange == {r \in BlockRange : r.from <= r.to}

=============================================================================
