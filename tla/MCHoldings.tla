----------------------------- MODULE MCHoldings -----------------------------
(***************************************************************************)
(* Model checking of Holdings: the positions a run may start from, made of *)
(* loaded lots with negative trade numbers and prices of their own.        *)
(***************************************************************************)
EXTENDS Holdings

Lot(n, qty) == [id |-> -n, dts |-> -100 * n, price |-> 10 * n, qty |-> qty]

MCLoaded == { {}, {Lot(1, 2)}, {Lot(1, 1), Lot(2, 2)}, {Lot(1, -2)} }
=============================================================================
