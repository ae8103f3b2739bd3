---------------------------- MODULE MCTradeLife -----------------------------
(* Model checking of TradeLife on small sets of trades, feeds and drivers. *)
EXTENDS TradeLife, TLC

Symmetry == Permutations(Feeds) \cup Permutations(Drivers)
=============================================================================
