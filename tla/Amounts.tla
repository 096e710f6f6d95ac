------------------------------ MODULE Amounts ------------------------------
(***************************************************************************)
(* The arithmetic the API does on amounts: format_value_decimal of         *)
(* schemas.py and the SUMs of balance_delta (routes.py).  Amounts are      *)
(* integers without a width from the decoder to NUMERIC(78, 0) and back.   *)
(***************************************************************************)
EXTENDS Integers, FiniteSetsExt

\* Mutant: divmod of the signed amount, which rounds down.
SignedDivmod(raw, unit) ==
    [neg |-> raw < 0, whole |-> raw \div unit, frac |-> raw % unit]

\* divmod(abs(raw), 10 ** decimals), with the sign kept apart.
Divmod(raw, unit) ==
    LET abs == IF raw < 0 THEN -raw ELSE raw
    IN [neg |-> raw < 0, whole |-> abs \div unit, frac |-> abs % unit]

\* 10 ** n.
Pow10[n \in Nat] == IF n = 0 THEN 1 ELSE 10 * Pow10[n - 1]

\* n as `width` digits, zeros in front: the format 0{decimals}d.
Padded(n, width) == [i \in 1 .. width |-> (n \div Pow10[width - i]) % 10]

\* format_value_decimal(raw, decimals): sign, whole part, digits behind it.
FormatValue(raw, decimals) ==
    LET d == Divmod(raw, Pow10[decimals])
    IN [neg |-> d.neg, whole |-> d.whole, digits |-> Padded(d.frac, decimals)]

-----------------------------------------------------------------------------
\* Mutant: one CASE with an ELSE, which a transfer to oneself enters once.
OneCase(a, x) ==
    IF x.to = a THEN x.value ELSE IF x.from = a THEN -x.value ELSE 0

\* One row in SUM(CASE to_address ...) - SUM(CASE from_address ...).
NetFlow(a, x) ==
    (IF x.to = a THEN x.value ELSE 0) - (IF x.from = a THEN x.value ELSE 0)

\* balance_delta of account a over the rows of the transfers table.
BalanceDelta(a, rows) ==
    MapThenSumSet(LAMBDA x : NetFlow(a, x),
                  {x \in rows : x.from = a \/ x.to = a})

=============================================================================
