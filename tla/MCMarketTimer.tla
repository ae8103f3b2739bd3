--------------------------- MODULE MCMarketTimer ----------------------------
(***************************************************************************)
(* Model checking of MarketTimer.                                          *)
(***************************************************************************)
EXTENDS MarketTimer
=============================================================================
