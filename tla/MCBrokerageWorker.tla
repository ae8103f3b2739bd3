------------------------- MODULE MCBrokerageWorker --------------------------
(***************************************************************************)
(* Model checking of BrokerageWorker.                                      *)
(***************************************************************************)
EXTENDS BrokerageWorker
=============================================================================
