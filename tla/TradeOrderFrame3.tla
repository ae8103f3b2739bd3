-------------------------- MODULE TradeOrderFrame3 ---------------------------
(***************************************************************************)
(* Frame 3 of Trade-Order: what an order would do to the position, at the  *)
(* requested price, before anything is written.  The frame walks through   *)
(* the same holdings as Frame 2 of Trade-Result, in code of its own, once  *)
(* in the client, once in plpgsql and once in C.                           *)
(*                                                                         *)
(* order is the input: type_is_sell and type_is_market (looked up by       *)
(* trade type), is_lifo, qty, market_price (of last_trade),                *)
(* requested_price, tax_status, type_is_margin.  Security, company,        *)
(* commission rate and charge are found and copied.  Prices are in cents   *)
(* and TaxRate in hundredths, so a tax is in hundredths of a cent.  The    *)
(* account holds one security.                                             *)
(***************************************************************************)
EXTENDS TradeResultFrame2

CONSTANTS
    TaxRate,        \* sum of the customer's tx_rate
    CaBal           \* ca_bal of the account

ASSUME AmountsAssumption == TaxRate \in Nat /\ CaBal \in Int

RequestedPrice(order) ==
    IF order.type_is_market THEN order.market_price ELSE order.requested_price

(* Mutant: the sign of a short holding used up is forgotten.               *)
Bug_EstimateOne(acc, h, order) ==
    LET have == Sign(order) * h.qty
        used == IF have > acc.needed THEN acc.needed ELSE h.qty
    IN  [needed |-> acc.needed - used,
         held   |-> acc.held + used * h.price,
         traded |-> acc.traded + used * RequestedPrice(order)]

(* The body of the loop.  A holding larger than needed is used in part, a  *)
(* smaller one whole; a short holding counts with its sign reversed.       *)
EstimateOne(acc, h, order) ==
    LET have == Sign(order) * h.qty
        used == IF have > acc.needed THEN acc.needed ELSE have
    IN  [needed |-> acc.needed - used,
         held   |-> acc.held + used * h.price,
         traded |-> acc.traded + used * RequestedPrice(order)]

Start(order) == [needed |-> order.qty, held |-> 0, traded |-> 0]

(* The loops: acc[i] is what the first i holdings of the list leave.  The  *)
(* client goes on until exactly nothing is needed, the stored functions    *)
(* while something is.                                                     *)
ClientEstimate(order, list) ==
    LET acc[i \in 0..Len(list)] ==
            IF i = 0 THEN Start(order)
            ELSE IF acc[i - 1].needed # 0 THEN EstimateOne(acc[i - 1], list[i], order)
            ELSE acc[i - 1]
    IN  acc[Len(list)]

PlpgsqlEstimate(order, list) ==
    LET acc[i \in 0..Len(list)] ==
            IF i = 0 THEN Start(order)
            ELSE IF acc[i - 1].needed > 0 THEN EstimateOne(acc[i - 1], list[i], order)
            ELSE acc[i - 1]
    IN  acc[Len(list)]

CEstimate(order, list) ==
    LET acc[i \in 0..Len(list)] ==
            IF i = 0 THEN Start(order)
            ELSE IF acc[i - 1].needed > 0 THEN EstimateOne(acc[i - 1], list[i], order)
            ELSE acc[i - 1]
    IN  acc[Len(list)]

BuyValue(acc, order) == IF order.type_is_sell THEN acc.held ELSE acc.traded
SellValue(acc, order) == IF order.type_is_sell THEN acc.traded ELSE acc.held

(* The tax on an estimated gain, before rounding.                          *)
Tax(acc, order) ==
    IF SellValue(acc, order) > BuyValue(acc, order) /\ order.tax_status \in {1, 2}
    THEN (SellValue(acc, order) - BuyValue(acc, order)) * TaxRate ELSE 0

(* To cents: NUMERIC(10,2) rounds halves up, "%8.2f" to even.              *)
HalfUp(x) == ((x + 50) \div 100) * 100
HalfEven(x) ==
    LET down == x \div 100
    IN  IF x % 100 = 50 THEN (down + (down % 2)) * 100 ELSE HalfUp(x)

(* sum(hs_qty * lt_price), NULL without holdings, and the balance.         *)
Assets(position, order) ==
    IF ~order.type_is_margin THEN 0
    ELSE IF position.hs = NoRow THEN CaBal
    ELSE position.hs * order.market_price + CaBal

StatusId(order) == IF order.type_is_market THEN "SBMT" ELSE "PNDG"

Output(acc, tax, position, order) ==
    [buy_value |-> BuyValue(acc, order), sell_value |-> SellValue(acc, order),
     tax_amount |-> tax, acct_assets |-> Assets(position, order),
     requested_price |-> RequestedPrice(order), status_id |-> StatusId(order)]

(* No summary row is hs_qty = 0, and the tax is returned as computed.      *)
ClientTOF3(position, order, list) ==
    LET hs_qty == Frame1HsQty(position)
        acc == IF Sign(order) * hs_qty > 0 THEN ClientEstimate(order, list) ELSE Start(order)
    IN  Output(acc, Tax(acc, order), position, order)

(* No summary row sets hs_qty to NULL: neither test of it is true.         *)
PlpgsqlTOF3(position, order, list) ==
    LET acc == IF position.hs # NoRow /\ Sign(order) * position.hs > 0
               THEN PlpgsqlEstimate(order, list) ELSE Start(order)
    IN  Output(acc, HalfUp(Tax(acc, order)), position, order)

CTOF3(position, order, list) ==
    LET hs_qty == Frame1HsQty(position)
        acc == IF Sign(order) * hs_qty > 0 THEN CEstimate(order, list) ELSE Start(order)
    IN  Output(acc, HalfEven(Tax(acc, order)), position, order)

TOF3(impl, position, order, list) ==
    CASE impl = "client"  -> ClientTOF3(position, order, list)
      [] impl = "plpgsql" -> PlpgsqlTOF3(position, order, list)
      [] impl = "c"       -> CTOF3(position, order, list)
=============================================================================
