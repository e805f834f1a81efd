-------------------------- MODULE BacktestPortfolio --------------------------
(***************************************************************************)
(* The portfolio of a backtest run, src/src/backtest/state.py: cash, one   *)
(* average-cost position per symbol, and what fills add up to.             *)
(*                                                                         *)
(* Decimals are integers here, in a unit small enough for the divisions    *)
(* that occur to be exact.  A symbol without an entry in position_states   *)
(* is one whose position is Flat.  Slippage cost and turnover, which are   *)
(* sums nothing reads back, are left out.                                  *)
(***************************************************************************)
EXTENDS Quantities, FiniteSetsExt

CONSTANT Symbols

Flat == [qty |-> 0, entry |-> 0]

EmptyPortfolio(cash) ==
    [cash |-> cash, pos |-> [s \in Symbols |-> Flat], realized |-> 0, fees |-> 0,
     closes |-> 0, wins |-> 0]

\* A fill is signed: its qty is positive for a buy, negative for a sell.
Adds(position, fill) == SameSide(position.qty, fill.qty)
ClosingQty(position, fill) == Least(Abs(position.qty), Abs(fill.qty))

\* The realized_delta of a fill: only a fill against the position closes any.
\* Slip: the whole fill is taken to close, although the rest of it opens.
RealizedBy_WholeFill(position, fill) ==
    IF position.qty = 0 \/ Adds(position, fill) THEN 0
    ELSE IF position.qty > 0 THEN (fill.price - position.entry) * Abs(fill.qty)
    ELSE (position.entry - fill.price) * Abs(fill.qty)

RealizedBy(position, fill) ==
    IF position.qty = 0 \/ Adds(position, fill) THEN 0
    ELSE IF position.qty > 0 THEN (fill.price - position.entry) * ClosingQty(position, fill)
    ELSE (position.entry - fill.price) * ClosingQty(position, fill)

\* average_entry_price after a fill: opened, added to, closed, reduced, flipped.
EntryAfter(position, fill) ==
    LET new == position.qty + fill.qty IN
    IF position.qty = 0 THEN fill.price
    ELSE IF Adds(position, fill)
    THEN (position.entry * Abs(position.qty) + fill.price * Abs(fill.qty)) \div Abs(new)
    ELSE IF new = 0 THEN 0
    ELSE IF SameSide(position.qty, new) THEN position.entry
    ELSE fill.price

\* Slip: a fill larger than the position leaves it flat.
PositionAfter_StopsAtFlat(position, fill) ==
    LET new == position.qty + fill.qty
    IN [qty |-> IF OppositeSides(position.qty, new) THEN 0 ELSE new, entry |-> EntryAfter(position, fill)]

PositionAfter(position, fill) ==
    [qty |-> position.qty + fill.qty, entry |-> EntryAfter(position, fill)]

\* The FillApplicationOutcome.
ClosesAny(position, fill) == position.qty # 0 /\ ~Adds(position, fill)

apply_fill(p, fill) ==
    LET position == p.pos[fill.sym]
        realized == RealizedBy(position, fill)
    IN [cash |-> p.cash - fill.price * fill.qty - fill.fee,
        pos |-> [p.pos EXCEPT ![fill.sym] = PositionAfter(position, fill)],
        realized |-> p.realized + realized,
        fees |-> p.fees + fill.fee,
        closes |-> p.closes + (IF ClosesAny(position, fill) THEN 1 ELSE 0),
        wins |-> p.wins + (IF realized > 0 THEN 1 ELSE 0)]

-----------------------------------------------------------------------------
(* mark_to_market and calculate_equity                                     *)

NoPrice == 0  \* no close of the symbol has been seen yet

MarkPrice(p, marks, s) == IF marks[s] = NoPrice THEN p.pos[s].entry ELSE marks[s]

NetExposure(p, marks) ==
    MapThenSumSet(LAMBDA s : p.pos[s].qty * MarkPrice(p, marks, s), Symbols)

Equity(p, marks) == p.cash + NetExposure(p, marks)

UnrealizedPnl(p, marks) ==
    MapThenSumSet(LAMBDA s : (MarkPrice(p, marks, s) - p.pos[s].entry) * p.pos[s].qty, Symbols)

=============================================================================
