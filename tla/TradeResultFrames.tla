-------------------------- MODULE TradeResultFrames --------------------------
(***************************************************************************)
(* Frames 3 to 6 of Trade-Result, in the client, in plpgsql and in C: the  *)
(* tax, the commission rate, the completion of the trade and of the        *)
(* broker's totals, and the settlement.  Frames 1 and 2, which work on the *)
(* holdings, are in TradeResultFrame2 and Holdings.                        *)
(*                                                                         *)
(* Money is counted in cents, rates in thousandths.  in is the input the   *)
(* harness has put together: trade_id, gain (sell_value - buy_value),      *)
(* trade_qty, trade_dts and value, what the shares are worth, negative for *)
(* a buy.                                                                  *)
(***************************************************************************)
EXTENDS FrameTables

CONSTANTS
    TaxRates,       \* the tx_rate of the customer: a sequence
    CommissionRate  \* rows of commission_rate: [from_qty, to_qty, rate]

ASSUME RatesAssumption ==
    TaxRates \in Seq(Nat) /\ \A row \in CommissionRate : row.rate \in Nat

SumOfRates ==
    LET sum[i \in 0..Len(TaxRates)] == IF i = 0 THEN 0 ELSE sum[i - 1] + TaxRates[i]
    IN  sum[Len(TaxRates)]

(* The tax before rounding falls on half a cent.                           *)
HalfCent(in) == (in.gain * SumOfRates) % 1000 = 500

(* floor(x + 0.5), as NUMERIC(10,2) rounds amounts that are not negative.  *)
RoundHalfUp(x) == (x + 500) \div 1000

(* rint(x): a half goes to the even neighbour.                             *)
RoundHalfEven(x) ==
    LET down == x \div 1000
    IN  IF x % 1000 = 500 THEN down + (down % 2) ELSE RoundHalfUp(x)

-----------------------------------------------------------------------------
(* Frame 3: the tax.  The harness calls it for a gain only.                *)

SetTax(db, in, tax) == [db EXCEPT !.tax[in.trade_id] = tax]

ClientTRF3(db, in) ==
    LET tax == IF TaxRates = <<>> THEN 0 ELSE RoundHalfUp(in.gain * SumOfRates)
    IN  [db |-> SetTax(db, in, tax), tax_amount |-> tax]

PlpgsqlTRF3(db, in) ==
    LET tax == RoundHalfUp(in.gain * SumOfRates)
    IN  [db |-> SetTax(db, in, tax), tax_amount |-> tax]

CTRF3(db, in) ==
    LET tax == IF TaxRates = <<>> THEN 0 ELSE RoundHalfEven(in.gain * SumOfRates)
    IN  [db |-> SetTax(db, in, tax), tax_amount |-> tax]

-----------------------------------------------------------------------------
(* Frame 4: the commission rate for this many shares; no row leaves the    *)
(* output 0.                                                               *)

CommRate(in) ==
    LET rows == {row \in CommissionRate : row.from_qty <= in.trade_qty
                                         /\ row.to_qty >= in.trade_qty}
    IN  IF rows = {} THEN 0 ELSE (CHOOSE row \in rows : TRUE).rate

ClientTRF4(in) == CommRate(in)
PlpgsqlTRF4(in) == CommRate(in)
CTRF4(in) == CommRate(in)

-----------------------------------------------------------------------------
(* Frame 5: the trade is complete.                                         *)

UpdateTrade(db, in, comm) ==
    [db EXCEPT !.comm[in.trade_id] = comm,
               !.dts[in.trade_id] = in.trade_dts,
               !.status[in.trade_id] = "CMPT"]

InsertHistory(db, in) == [db EXCEPT !.history[in.trade_id] = Append(@, "CMPT")]

UpdateBroker(db, comm) ==
    [db EXCEPT !.b_comm_total = @ + comm, !.b_num_trades = @ + 1]

ClientTRF5(db, in, comm) == UpdateBroker(InsertHistory(UpdateTrade(db, in, comm), in), comm)
PlpgsqlTRF5(db, in, comm) == UpdateBroker(InsertHistory(UpdateTrade(db, in, comm), in), comm)

CTRF5(db, in, comm) == UpdateBroker(InsertHistory(UpdateTrade(db, in, comm), in), comm)

-----------------------------------------------------------------------------
(* Frame 6: the settlement and, for a cash trade, the account's balance    *)
(* and the cash transaction.                                               *)

InsertSettlement(db, t, amount) ==
    [db EXCEPT !.settlement = Put(@, t, IF Trade[t].is_cash THEN "Cash Account" ELSE "Margin"),
               !.se_amt = Put(@, t, amount)]

UpdateBalance(db, t, amount) == [db EXCEPT !.ca_bal[Trade[t].acct] = @ + amount]

InsertCash(db, t) == [db EXCEPT !.cash = Put(@, t, "shares of")]

SettleTrade(db, in, amount) ==
    LET t == in.trade_id
        settled == InsertSettlement(db, t, amount)
        paid == IF Trade[t].is_cash
                THEN InsertCash(UpdateBalance(settled, t, amount), t) ELSE settled
    IN  [db |-> paid, acct_bal |-> paid.ca_bal[Trade[t].acct]]

(* Mutant: the balance takes the settlement of every trade.                *)
Bug_ClientTRF6(db, in, amount) ==
    LET t == in.trade_id
        settled == UpdateBalance(InsertSettlement(db, t, amount), t, amount)
        paid == IF Trade[t].is_cash THEN InsertCash(settled, t) ELSE settled
    IN  [db |-> paid, acct_bal |-> paid.ca_bal[Trade[t].acct]]

ClientTRF6(db, in, amount) == SettleTrade(db, in, amount)
PlpgsqlTRF6(db, in, amount) == SettleTrade(db, in, amount)

(* The balance is read with read_only = false: it is the new one.          *)
CTRF6(db, in, amount) == SettleTrade(db, in, amount)

-----------------------------------------------------------------------------
(* The harness (external): Frame 3 for a gain, Frame 4, Frame 5 with the   *)
(* commission, Frame 6 with the amount.                                    *)

HarnessComm(in, rate) == (rate * in.trade_qty) \div 10
HarnessAmount(in, comm, tax) == in.value - comm - tax

TradeResult(Frame3(_, _), Frame4(_), Frame5(_, _, _), Frame6(_, _, _), db, in) ==
    LET r3 == IF in.gain > 0 THEN Frame3(db, in) ELSE [db |-> db, tax_amount |-> 0]
        comm_rate == Frame4(in)
        comm == HarnessComm(in, comm_rate)
        r6 == Frame6(Frame5(r3.db, in, comm), in, HarnessAmount(in, comm, r3.tax_amount))
    IN  [ok |-> TRUE, db |-> r6.db, tax_amount |-> r3.tax_amount, comm_rate |-> comm_rate,
         acct_bal |-> r6.acct_bal]

ClientTR(db, in) == TradeResult(ClientTRF3, ClientTRF4, ClientTRF5, ClientTRF6, db, in)
PlpgsqlTR(db, in) == TradeResult(PlpgsqlTRF3, PlpgsqlTRF4, PlpgsqlTRF5, PlpgsqlTRF6, db, in)
CTR(db, in) == TradeResult(CTRF3, CTRF4, CTRF5, CTRF6, db, in)
=============================================================================
