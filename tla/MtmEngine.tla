------------------------------ MODULE MtmEngine ------------------------------
(***************************************************************************)
(* MTMEngine (src/app/services/mtm_engine.py): the local ("synthetic")     *)
(* position of each symbol, a signed quantity and an average price.  A     *)
(* symbol without an entry is Flat; the code removes an entry that reaches *)
(* zero.  Prices are whole currency units and a blended average is rounded *)
(* down.  update_price and update_synthetic_position have no caller in the *)
(* live system, so no latest price is ever known and the unrealised profit *)
(* the risk engine reads is the 0.0 of __init__.                           *)
(***************************************************************************)
EXTENDS Integers, Instruments

VARIABLE positions

Sides == {"BUY", "SELL"}
Position == [qty : Int, avg : Nat]
Flat == [qty |-> 0, avg |-> 0]

MtmTypeOK == positions \in [Symbols -> Position]
MtmInit == positions = [s \in Symbols |-> Flat]

AbsInt(i) == IF i < 0 THEN -i ELSE i
Signed(side, n) == IF side = "BUY" THEN n ELSE -n

\* apply_order_fill on one position: extending it blends the average, reducing
\* it keeps the average, opening it or crossing zero takes the fill price.
Filled(pos, side, n, price) ==
    LET d == Signed(side, n)
        qty == pos.qty + d
        avg == IF pos.qty * d > 0
               THEN (pos.avg * AbsInt(pos.qty) + price * n) \div AbsInt(qty)
               ELSE IF pos.qty * qty > 0 THEN pos.avg ELSE price
    IN  IF n <= 0 THEN pos
        ELSE IF qty = 0 THEN Flat
        ELSE [qty |-> qty, avg |-> avg]

ApplyOrderFill(s, side, n, price) ==
    positions' = [positions EXCEPT ![s] = Filled(@, side, n, price)]

RealtimePnl == 0

\* What an order leaves of a position's cost, and what a full exit gives back:
\* the capital_release of ExecutionEngine._emit_success.
Least(a, b) == IF a <= b THEN a ELSE b
ReleaseNotional(s, side, n) ==
    IF side = "SELL" /\ positions[s].qty > 0
    THEN Least(positions[s].qty, n) * positions[s].avg
    ELSE 0
=============================================================================
