-------------------------- MODULE TradeResultFrame2 --------------------------
(***************************************************************************)
(* Frame 2 of Trade-Result: what a completed trade does to the position of *)
(* an account in a security.  The frame exists three times, with the same  *)
(* logic: in the client (DBConnectionClientSide.cpp), as a plpgsql         *)
(* function (trade_result.sql) and as a C function (trade_result.c).  They *)
(* differ in the time stamp they give a new holding.                       *)
(*                                                                         *)
(* A position is a record: hs the holding_summary row (NoRow if absent),   *)
(* holding and history the rows of those tables.  Time is counted in       *)
(* ticks.  Money is exact: prices are integers.                            *)
(***************************************************************************)
EXTENDS Integers, Sequences, FiniteSets, SequencesExt

CONSTANTS
    NoRow,              \* no holding_summary row
    TicksPerSecond      \* resolution of the clock

ASSUME TicksAssumption == TicksPerSecond \in Nat \ {0}
ASSUME NoRowAssumption == NoRow \notin Int

(* SELECT now()::timestamp(0): rounded to the nearest second.              *)
RoundToSecond(now) ==
    ((now + TicksPerSecond \div 2) \div TicksPerSecond) * TicksPerSecond

(* What "tm_year - 1900, tm_mon - 1" of a struct tm, whose year is already *)
(* counted from 1900, does to a date: it lands some 3800 years earlier,    *)
(* before every other date in the database.                                *)
AncientOffset == 100000

(* Mutant: the plpgsql function converts the way the C function does.      *)
Bug_StoredDts(impl, now) ==
    IF impl = "client" THEN now ELSE RoundToSecond(now) - AncientOffset

(* h_dts of a holding created by a trade whose transaction began at now.   *)
StoredDts(impl, now) ==
    CASE impl = "client"  -> now
      [] impl = "plpgsql" -> RoundToSecond(now)
      [] impl = "c"       -> RoundToSecond(now) - AncientOffset

(* The rows of ORDER BY h_dts, DESC for LIFO and ASC for FIFO; rows with   *)
(* equal time stamps come in any order.                                    *)
HoldLists(position, is_lifo) ==
    {s \in SetToSeqs(position.holding) :
        \A i, j \in DOMAIN s : i < j =>
            IF is_lifo THEN s[i].dts >= s[j].dts ELSE s[i].dts <= s[j].dts}

(* hs_qty as Frame 1 returns it: 0 when there is no row.                   *)
Frame1HsQty(position) == IF position.hs = NoRow THEN 0 ELSE position.hs

(* A sale reduces long holdings, a purchase short ones.                    *)
Sign(trade) == IF trade.type_is_sell THEN 1 ELSE -1

HistoryRow(h, t, before, after) ==
    [hh_h_t_id |-> h, hh_t_id |-> t, before |-> before, after |-> after]

(* Mutants: the wrong quantity in the history; a whole lot's value for     *)
(* part of it.                                                             *)
Bug_AfterQty(acc, h, trade) ==
    LET have == Sign(trade) * h.qty
        some == have > acc.needed
        used == IF some THEN acc.needed ELSE have
        left == IF some THEN h.qty - Sign(trade) * acc.needed ELSE 0
    IN  IF acc.needed <= 0 THEN acc
        ELSE [acc EXCEPT !.needed = @ - used,
                         !.holding = (@ \ {h}) \cup
                             (IF some THEN {[h EXCEPT !.qty = left]} ELSE {}),
                         !.history = @ \cup {HistoryRow(h.id, trade.id, h.qty, 0)}]

Bug_WholeLot(acc, h, trade) ==
    LET have == Sign(trade) * h.qty
        some == have > acc.needed
        used == IF some THEN acc.needed ELSE have
        left == IF some THEN h.qty - Sign(trade) * acc.needed ELSE 0
    IN  IF acc.needed <= 0 THEN acc
        ELSE [needed  |-> acc.needed - used,
              holding |-> (acc.holding \ {h}) \cup
                              (IF some THEN {[h EXCEPT !.qty = left]} ELSE {}),
              history |-> acc.history \cup {HistoryRow(h.id, trade.id, h.qty, left)},
              held    |-> acc.held + have * h.price,
              traded  |-> acc.traded + used * trade.price]

(* One round of the loop over the holdings: part of a holding satisfies    *)
(* the trade, or the whole of it is used up.                               *)
LiquidateOne(acc, h, trade) ==
    LET have == Sign(trade) * h.qty
        some == have > acc.needed
        used == IF some THEN acc.needed ELSE have
        left == IF some THEN h.qty - Sign(trade) * acc.needed ELSE 0
    IN  IF acc.needed <= 0 THEN acc
        ELSE [needed  |-> acc.needed - used,
              holding |-> (acc.holding \ {h}) \cup
                              (IF some THEN {[h EXCEPT !.qty = left]} ELSE {}),
              history |-> acc.history \cup {HistoryRow(h.id, trade.id, h.qty, left)},
              held    |-> acc.held + used * h.price,
              traded  |-> acc.traded + used * trade.price]

(* Mutant: short positions are never covered.                              *)
Bug_Liquidate(position, hs_qty, trade, hold_list) ==
    LET acc[i \in 0..Len(hold_list)] ==
            IF i = 0
            THEN [needed |-> trade.qty, holding |-> position.holding,
                  history |-> position.history, held |-> 0, traded |-> 0]
            ELSE LiquidateOne(acc[i - 1], hold_list[i], trade)
    IN  acc[IF trade.type_is_sell /\ hs_qty > 0 THEN Len(hold_list) ELSE 0]

(* The loop, entered only when the summary says there is something to use: *)
(* acc[i] is what the first i holdings of the list leave.                  *)
Liquidate(position, hs_qty, trade, hold_list) ==
    LET acc[i \in 0..Len(hold_list)] ==
            IF i = 0
            THEN [needed |-> trade.qty, holding |-> position.holding,
                  history |-> position.history, held |-> 0, traded |-> 0]
            ELSE LiquidateOne(acc[i - 1], hold_list[i], trade)
    IN  acc[IF Sign(trade) * hs_qty > 0 THEN Len(hold_list) ELSE 0]

(* The summary row: inserted, updated, or left for the end of the frame.   *)
UpdateSummary(hs, hs_qty, trade) ==
    CASE hs_qty = 0 -> -Sign(trade) * trade.qty
      [] hs_qty # 0 /\ Sign(trade) * hs_qty # trade.qty ->
            IF hs = NoRow THEN NoRow ELSE hs_qty - Sign(trade) * trade.qty
      [] OTHER -> hs

(* The frame: new position, buy_value and sell_value.  What is still       *)
(* needed becomes a new holding named after the trade; otherwise a summary *)
(* that reached zero is deleted.                                           *)
Frame2(position, hs_qty, trade, hold_list, dts) ==
    LET hs == UpdateSummary(position.hs, hs_qty, trade)
        acc == Liquidate(position, hs_qty, trade, hold_list)
        rest == -Sign(trade) * acc.needed
        new == [id |-> trade.id, dts |-> dts, price |-> trade.price, qty |-> rest]
    IN  [position |->
            IF acc.needed > 0
            THEN [hs |-> hs, holding |-> acc.holding \cup {new},
                  history |-> acc.history \cup {HistoryRow(trade.id, trade.id, 0, rest)}]
            ELSE [hs |-> IF Sign(trade) * hs_qty = trade.qty THEN NoRow ELSE hs,
                  holding |-> acc.holding, history |-> acc.history],
         buy_value  |-> IF trade.type_is_sell THEN acc.held ELSE acc.traded,
         sell_value |-> IF trade.type_is_sell THEN acc.traded ELSE acc.held]
=============================================================================
