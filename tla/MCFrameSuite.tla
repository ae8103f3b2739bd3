---------------------------- MODULE MCFrameSuite -----------------------------
(***************************************************************************)
(* Model checking of FrameSuite: three trades of one account in one        *)
(* security, a cash trade that is complete, a cash trade and a margin      *)
(* trade that are not, asked for together with a trade that does not       *)
(* exist.  The tax of the last trade falls on half a cent.  The ids of a   *)
(* list differ, as those that EGen generates do.                           *)
(*                                                                         *)
(* The tables of Data-Maintenance have one or two keys; the watch list     *)
(* moves up the alphabet until nothing is left above its middle.           *)
(***************************************************************************)
EXTENDS FrameSuite

CONSTANTS a1, s1, t1, t2, t3, none, k1, k2

MCTrade ==
    t1 :> [acct |-> a1, symb |-> s1, is_cash |-> TRUE, gain |-> 0, qty |-> 10, value |-> -500]
    @@ t2 :> [acct |-> a1, symb |-> s1, is_cash |-> TRUE, gain |-> 24, qty |-> 20, value |-> 700]
    @@ t3 :> [acct |-> a1, symb |-> s1, is_cash |-> FALSE, gain |-> 25, qty |-> 200, value |-> 900]

MCFirstDts == t1 :> 1 @@ t2 :> 2 @@ t3 :> 3

MCIdLists == {<<t1>>, <<t2, t1>>, <<t1, t3>>, <<t3, t2, t1>>, <<none, t1>>}

MCWindows == {<<1, 9>>, <<1, 3>>, <<3, 9>>, <<9, 9>>}

MCHoldingHistory == {<<t1, t1>>, <<t1, t3>>, <<t2, t2>>}

MCTaxRates == <<60, 40>>

MCCommissionRate == {[from_qty |-> 1, to_qty |-> 10, rate |-> 30],
                     [from_qty |-> 11, to_qty |-> 100, rate |-> 20]}

MCLoadedRows ==
    [none |-> EmptyArray,
     ACCOUNT_PERMISSION |-> k1 :> <<0, 11>> @@ k2 :> <<1, 0, 0>>,
     ADDRESS |-> k1 :> Null @@ k2 :> "Apt. 10C",
     COMPANY |-> k1 :> "ABA" @@ k2 :> "BBB",
     CUSTOMER |-> k1 :> "earthlink.com" @@ k2 :> "msn.com",
     CUSTOMER_TAXRATE |-> k1 :> <<"US", 3>> @@ k2 :> <<"CN", 2>>,
     DAILY_MARKET |-> k1 :> 0,
     EXCHANGE |-> k1 :> <<"plain", "plain">>,
     FINANCIAL |-> k1 :> <<1, 1>>,
     NEWS_ITEM |-> k1 :> 0,
     SECURITY |-> k1 :> 0,
     TAXRATE |-> k1 :> " Tax " @@ k2 :> "Taxes",
     WATCH_ITEM |-> k1 :> {1, 2, 4} @@ k2 :> {3, 6},
     UNKNOWN |-> EmptyArray]
=============================================================================
