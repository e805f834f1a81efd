----------------------------- MODULE Quantities -----------------------------
(***************************************************************************)
(* Signed quantities, as the backtest modules use them: positive is long   *)
(* or a buy, negative is short or a sell.                                  *)
(***************************************************************************)
EXTENDS Integers

Abs(x) == IF x < 0 THEN -x ELSE x
Least(x, y) == IF x < y THEN x ELSE y
Most(x, y) == IF x > y THEN x ELSE y

SameSide(x, y) == (x > 0 /\ y > 0) \/ (x < 0 /\ y < 0)
OppositeSides(x, y) == (x > 0 /\ y < 0) \/ (x < 0 /\ y > 0)

=============================================================================
