-------------------------- MODULE FrameEquivalence ---------------------------
(***************************************************************************)
(* The same orders and trades run through several implementations of       *)
(* Trade-Order Frame 3 and Trade-Result Frame 2, each on its own copy of   *)
(* the same loaded database, the way tests/test_pgsql_storedprocs_c and    *)
(* _plpgsql compare them, but trade after trade: a holding one trade       *)
(* creates is what the next one consumes.                                  *)
(***************************************************************************)
EXTENDS TradeOrderFrame3, FiniteSetsExt

CONSTANTS
    Impls,          \* the implementations run
    Compared,       \* those that are compared with each other
    OrderKinds,     \* [type_is_market, type_is_margin, tax_status]
    MaxTrades,      \* bound: trades in a row
    MaxQty,         \* bound: shares of a trade
    BasePrice,      \* of the loaded database
    LoadedLots      \* holdings in the loaded database

ASSUME ImplsAssumption == Compared \subseteq Impls /\ Impls \subseteq {"client", "plpgsql", "c"}
ASSUME BoundsAssumption == {MaxTrades, MaxQty, BasePrice} \subseteq Nat
ASSUME KindsAssumption ==
    \A kind \in OrderKinds : kind.type_is_market \in BOOLEAN /\ kind.type_is_margin \in BOOLEAN

(* A row of the holding table.                                             *)
Lots == [id : Int, dts : Int, price : Int, qty : Int]

(* The loaded holdings are of trades before the first tick.                *)
ASSUME LoadedAssumption ==
    /\ IsFiniteSet(LoadedLots) /\ LoadedLots \subseteq Lots
    /\ \A h \in LoadedLots : h.id \notin 1..MaxTrades /\ h.dts <= 0
    /\ \A g, h \in LoadedLots : g.id = h.id => g = h

VARIABLES
    positions,  \* the position in each implementation's database
    estimates,  \* output of Trade-Order Frame 3, by implementation
    outs,       \* buy_value and sell_value of the trade, by implementation
    clock,      \* ticks
    n,          \* trades run
    tied        \* two holdings of a database have equal time stamps

vars == <<positions, estimates, outs, clock, n, tied>>

LoadedPosition ==
    [hs |-> IF LoadedLots = {} THEN NoRow ELSE MapThenSumSet(LAMBDA h : h.qty, LoadedLots),
     holding |-> LoadedLots, history |-> {}]

NoEstimate == [buy_value |-> 0, sell_value |-> 0, tax_amount |-> 0]

Tied(position) ==
    \E g, h \in position.holding : g # h /\ g.dts = h.dts

Init ==
    /\ positions = [i \in Impls |-> LoadedPosition]
    /\ estimates = [i \in Impls |-> NoEstimate]
    /\ outs = [i \in Impls |-> <<0, 0>>]
    /\ clock = 1
    /\ n = 0
    /\ tied = Tied(LoadedPosition)

(* The trade of an order, executed at the price it asked for.              *)
TradeOf(order, id) ==
    [id |-> id, type_is_sell |-> order.type_is_sell, qty |-> order.qty,
     price |-> RequestedPrice(order)]

(* The price asked for or of the market rises by a cent from trade to      *)
(* trade.                                                                  *)
Price(k) == BasePrice + k

(* The lists of holdings the implementations may read.                     *)
ListsRead(lifo) ==
    LET lists == [i \in Impls |-> HoldLists(positions[i], lifo)]
    IN  {list \in [Impls -> UNION {lists[i] : i \in Impls}] :
            \A i \in Impls : list[i] \in lists[i]}

(* One order and its Trade-Result in every database, some ticks after the  *)
(* one before.  Once time stamps are equal ORDER BY may choose, and the    *)
(* comparison ends.                                                        *)
RunTrade ==
    /\ n < MaxTrades
    /\ ~tied
    /\ n' = n + 1
    /\ clock' \in {clock + 1, clock + TicksPerSecond}
    /\ \E lifo \in BOOLEAN : \E list \in ListsRead(lifo) :
       \E sell \in BOOLEAN, qty \in 1..MaxQty, kind \in OrderKinds :
        LET order == [type_is_sell |-> sell, is_lifo |-> lifo, qty |-> qty,
                      type_is_market |-> kind.type_is_market,
                      type_is_margin |-> kind.type_is_margin,
                      tax_status |-> kind.tax_status,
                      market_price |-> IF kind.type_is_market THEN Price(n') ELSE BasePrice,
                      requested_price |-> IF kind.type_is_market THEN 0 ELSE Price(n')]
            trade == TradeOf(order, n')
            run == [i \in Impls |->
                       Frame2(positions[i], Frame1HsQty(positions[i]), trade, list[i],
                              StoredDts(i, clock'))]
        IN  /\ estimates' = [i \in Impls |-> TOF3(i, positions[i], order, list[i])]
            /\ positions' = [i \in Impls |-> run[i].position]
            /\ outs' = [i \in Impls |-> <<run[i].buy_value, run[i].sell_value>>]
    /\ tied' = \E i \in Impls : Tied(positions'[i])

Next == RunTrade

Spec == Init /\ [][Next]_vars

-----------------------------------------------------------------------------
(* Properties.                                                             *)

(* The client's estimated tax is not rounded.                              *)
InCents(estimate) == [estimate EXCEPT !.tax_amount = HalfUp(@)]

(* "The two must produce the same frame output": while time stamps tell    *)
(* the holdings apart, the implementations report the same estimates, the  *)
(* tax to the cent, and the same buy_value and sell_value.                 *)
SameFrameOutput ==
    \A i, j \in Compared :
        /\ outs[i] = outs[j]
        /\ InCents(estimates[i]) = InCents(estimates[j])

(* What Trade-Order Frame 3 tells the customer is what Trade-Result Frame  *)
(* 2 does when the trade is executed at that price and nothing came in     *)
(* between, in every implementation: the two walk through the holdings in  *)
(* the same order and split them alike, also through zero and back.        *)
EstimateComesTrue ==
    \A i \in Impls : <<estimates[i].buy_value, estimates[i].sell_value>> = outs[i]
=============================================================================
