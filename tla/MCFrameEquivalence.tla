------------------------- MODULE MCFrameEquivalence -------------------------
(***************************************************************************)
(* Model checking of FrameEquivalence: two loaded lots, one cheaper and    *)
(* one dearer than what is asked for later; market orders on margin by a   *)
(* customer who pays tax, limit orders by one who does not.                *)
(***************************************************************************)
EXTENDS FrameEquivalence

MCLoadedLots ==
    {[id |-> -1, dts |-> -100, price |-> 10, qty |-> 1],
     [id |-> -2, dts |-> -200, price |-> 20, qty |-> 2]}

MCOrderKinds ==
    {[type_is_market |-> TRUE, type_is_margin |-> TRUE, tax_status |-> 2],
     [type_is_market |-> FALSE, type_is_margin |-> FALSE, tax_status |-> 0]}
=============================================================================
