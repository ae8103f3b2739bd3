------------------------------ MODULE MCMEESUT ------------------------------
(***************************************************************************)
(* Model checking of MEESUT.  The initial states include those in which    *)
(* only one of the connections could be opened, so that one thread waits   *)
(* for the other.                                                          *)
(***************************************************************************)
EXTENDS MEESUT
=============================================================================
