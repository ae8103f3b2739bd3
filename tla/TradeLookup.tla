----------------------------- MODULE TradeLookup -----------------------------
(***************************************************************************)
(* The frames of Trade-Lookup, in the client, in plpgsql and in C.  Frame  *)
(* 1 looks up given trades, Frame 2 those of an account, Frame 3 those in  *)
(* a security; Frame 4 lists the history of the holdings that the first    *)
(* trade of an account after a date took part in.  They change nothing.    *)
(***************************************************************************)
EXTENDS FrameTables

CONSTANTS HoldingHistory    \* the rows of holding_history: {<<hh_h_t_id, hh_t_id>>}

(* NULL is the id of no trade.                                             *)
ASSUME HoldingsAssumption ==
    Null \notin DOMAIN Trade /\ \A h \in HoldingHistory : h[2] # Null

-----------------------------------------------------------------------------
(* The client: a missing row leaves its group of trade_info as it was.     *)

ClientTLF1Trade(acc, t, i) ==
    LET a == IF Exists(t) THEN [acc EXCEPT !.nf = @ + 1] ELSE acc
        b == PutIf(Exists(t), a, "trade", i, TradeRow(a.db, t))
    IN  PutIf(Settled(b.db, t), b, "settlement", i, SettlementRow(b.db, t))

ClientTLF1More(acc, t, i) ==
    LET paid == Exists(t) /\ Trade[t].is_cash /\ Paid(acc.db, t)
        a == PutIf(paid, acc, "cash", i, CashRow(acc.db, t))
    IN  PutIf(Past(acc.db, t) # <<>>, a, "history", i, HistoryRows(acc.db, t))

ClientTLF1(db, in) ==
    LET Body(acc, i) ==
            ClientTLF1More(ClientTLF1Trade(acc, in.trade_id[i], i), in.trade_id[i], i)
    IN  ClientAnswer(ForEach(Body, Start(db, EmptyArray), Min({in.max_trades, MaxRows})))

ClientTLF2Row(acc, t, i) ==
    LET a == PutIf(TRUE, acc, "trade", i, TradeRow(acc.db, t))
        b == PutIf(Settled(a.db, t), a, "settlement", i, SettlementRow(a.db, t))
        c == PutIf(Trade[t].is_cash /\ Paid(b.db, t), b, "cash", i, CashRow(b.db, t))
    IN  PutIf(Past(acc.db, t) # <<>>, c, "history", i, HistoryRows(acc.db, t))

ClientTLF2(db, in) ==
    LET ts == OfAccount(db, in)
        n == Min({Len(ts), MaxRows})
    IN  ClientAnswer([ForEach(LAMBDA acc, i : ClientTLF2Row(acc, ts[i], i),
                              Start(db, EmptyArray), n) EXCEPT !.nf = n])

ClientTLF3Row(acc, t, i) ==
    LET a == PutIf(TRUE, acc, "trade", i, TradeRow(acc.db, t))
        b == PutIf(Settled(a.db, t), a, "settlement", i, SettlementRow(a.db, t))
        c == PutIf(Trade[t].is_cash /\ Paid(b.db, t), b, "cash", i, CashRow(b.db, t))
    IN  PutIf(Past(acc.db, t) # <<>>, c, "history", i, HistoryRows(acc.db, t))

ClientTLF3(db, in) ==
    LET ts == OfSymbol(db, in)
        n == Min({Len(ts), MaxRows})
    IN  ClientAnswer([ForEach(LAMBDA acc, i : ClientTLF3Row(acc, ts[i], i),
                              Start(db, EmptyArray), n) EXCEPT !.nf = n])

-----------------------------------------------------------------------------
(* plpgsql: elements at the position of the trade; a cash trade without a  *)
(* cash_transaction gets no element.                                       *)

PlpgsqlTLF1Trade(acc, t, i) ==
    LET a == IF Exists(t) THEN [acc EXCEPT !.nf = @ + 1] ELSE acc
        b == PutIf(Exists(t), a, "trade", i, TradeRow(a.db, t))
    IN  PutIf(Settled(b.db, t), b, "settlement", i, SettlementRow(b.db, t))

PlpgsqlTLF1More(acc, t, i) ==
    LET is_cash == Exists(t) /\ Trade[t].is_cash
        a == PutIf(is_cash => Paid(acc.db, t), acc, "cash", i,
                   IF is_cash THEN CashRow(acc.db, t) ELSE Null)
    IN  PutIf(TRUE, a, "history", i, HistoryRows(acc.db, t))

PlpgsqlTLF1(db, in) ==
    LET Body(acc, i) ==
            PlpgsqlTLF1More(PlpgsqlTLF1Trade(acc, in.trade_id[i], i), in.trade_id[i], i)
    IN  PlpgsqlRow(ForEach(Body, Start(db, EmptyArray), in.max_trades))

PlpgsqlTLF2Row(acc, t, i) ==
    LET a == PutIf(TRUE, acc, "trade", i, TradeRow(acc.db, t))
        b == PutIf(Settled(a.db, t), a, "settlement", i, SettlementRow(a.db, t))
        c == PutIf(Trade[t].is_cash => Paid(b.db, t), b, "cash", i,
                   IF Trade[t].is_cash THEN CashRow(b.db, t) ELSE Null)
    IN  PutIf(TRUE, c, "history", i, HistoryRows(acc.db, t))

PlpgsqlTLF2(db, in) ==
    LET ts == OfAccount(db, in)
    IN  PlpgsqlRow([ForEach(LAMBDA acc, i : PlpgsqlTLF2Row(acc, ts[i], i),
                               Start(db, EmptyArray), Len(ts)) EXCEPT !.nf = Len(ts)])

PlpgsqlTLF3Row(acc, t, i) ==
    LET a == PutIf(TRUE, acc, "trade", i, TradeRow(acc.db, t))
        b == PutIf(Settled(a.db, t), a, "settlement", i, SettlementRow(a.db, t))
        c == PutIf(Trade[t].is_cash => Paid(b.db, t), b, "cash", i,
                   IF Trade[t].is_cash THEN CashRow(b.db, t) ELSE Null)
    IN  PutIf(TRUE, c, "history", i, HistoryRows(acc.db, t))

PlpgsqlTLF3(db, in) ==
    LET ts == OfSymbol(db, in)
    IN  PlpgsqlRow([ForEach(LAMBDA acc, i : PlpgsqlTLF3Row(acc, ts[i], i),
                               Start(db, EmptyArray), Len(ts)) EXCEPT !.nf = Len(ts)])

-----------------------------------------------------------------------------
(* C: literals without placeholders for missing rows.                      *)

CTLF1Trades(in) == Min({in.max_trades, Len(in.trade_id)})

CTLF1Trade(acc, t) ==
    LET a == ContinueUnless(Exists(t), acc)
    IN  IF Going(a) THEN [AddIf(TRUE, a, "trade", TradeRow(a.db, t)) EXCEPT !.nf = @ + 1] ELSE a

CTLF1Settlement(acc, t) == AddIf(Settled(acc.db, t), acc, "settlement", SettlementRow(acc.db, t))

CTLF1Cash(acc, t) ==
    AddIf(Trade[t].is_cash => Paid(acc.db, t), acc, "cash",
          IF Trade[t].is_cash THEN CashRow(acc.db, t) ELSE Null)

CTLF1History(acc, t) == AddIf(TRUE, acc, "history", HistoryRows(acc.db, t))

CTLF1(db, in) ==
    LET Body(acc, i) ==
            LET t == in.trade_id[i]
            IN  CTLF1History(CTLF1Cash(CTLF1Settlement(CTLF1Trade(acc, t), t), t), t)
    IN  CRow(db, ForEach(Body, Start(db, <<>>), CTLF1Trades(in)))

CTLF2Trade(acc, t) == AddIf(TRUE, acc, "trade", TradeRow(acc.db, t))

CTLF2Settlement(acc, t) == AddIf(Settled(acc.db, t), acc, "settlement", SettlementRow(acc.db, t))

CTLF2Cash(acc, t) ==
    AddIf(Trade[t].is_cash => Paid(acc.db, t), acc, "cash",
          IF Trade[t].is_cash THEN CashRow(acc.db, t) ELSE Null)

CTLF2History(acc, t) == AddIf(TRUE, acc, "history", HistoryRows(acc.db, t))

CTLF2(db, in) ==
    LET ts == OfAccount(db, in)
        Body(acc, i) ==
            LET a == CTLF2Settlement(CTLF2Trade(acc, ts[i]), ts[i])
            IN  CTLF2History(CTLF2Cash(a, ts[i]), ts[i])
    IN  CRow(db, [ForEach(Body, Start(db, <<>>), Len(ts)) EXCEPT !.nf = Len(ts)])

CTLF3Trade(acc, t) == AddIf(TRUE, acc, "trade", TradeRow(acc.db, t))

CTLF3Settlement(acc, t) == AddIf(Settled(acc.db, t), acc, "settlement", SettlementRow(acc.db, t))

(* The cash_transaction is looked for whether or not the trade is a cash   *)
(* trade, and the arrays are padded when it is not.                        *)
CTLF3Cash(acc, t) ==
    LET a == AddIf(Paid(acc.db, t), acc, "cash", CashRow(acc.db, t))
    IN  AddIf(~Trade[t].is_cash, a, "cash", Null)

CTLF3History(acc, t) == AddIf(TRUE, acc, "history", HistoryRows(acc.db, t))

CTLF3(db, in) ==
    LET ts == OfSymbol(db, in)
        Body(acc, i) ==
            LET a == CTLF3Settlement(CTLF3Trade(acc, ts[i]), ts[i])
            IN  CTLF3History(CTLF3Cash(a, ts[i]), ts[i])
    IN  CRow(db, [ForEach(Body, Start(db, <<>>), Len(ts)) EXCEPT !.nf = Len(ts)])

-----------------------------------------------------------------------------
(* Frame 4.  The rows come in no order; there are at most 20 of them.      *)

FirstAfter(db, in) ==
    ByDts(db, {t \in DOMAIN Trade : Trade[t].acct = in.acct_id /\ db.dts[t] >= in.start_dts}, 1)

HistoryOfHoldings(t) ==
    {h \in HoldingHistory : \E g \in HoldingHistory : g[1] = h[1] /\ g[2] = t}

Answer4(db, ts, t, rows) ==
    [ok |-> TRUE, db |-> db, num_trades_found |-> Len(ts), trade_id |-> t,
     num_found |-> Cardinality(rows), rows |-> rows]

(* The client returns early when there is no trade.                        *)
ClientTLF4(db, in) ==
    LET ts == FirstAfter(db, in)
    IN  IF ts = <<>> THEN Answer4(db, ts, Unset, {})
        ELSE Answer4(db, ts, ts[1], HistoryOfHoldings(ts[1]))

(* plpgsql asks for the history of the trade NULL.                         *)
PlpgsqlTLF4(db, in) ==
    LET ts == FirstAfter(db, in)
        t == IF ts = <<>> THEN Null ELSE ts[1]
    IN  Answer4(db, ts, t, HistoryOfHoldings(t))

CTLF4(db, in) ==
    LET ts == FirstAfter(db, in)
    IN  Answer4(db, ts, IF ts = <<>> THEN Null ELSE ts[1],
                IF ts # <<>> THEN HistoryOfHoldings(ts[1]) ELSE {})
=============================================================================
