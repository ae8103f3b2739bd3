----------------------------- MODULE TradeUpdate -----------------------------
(***************************************************************************)
(* The frames of Trade-Update, in the client (Client...), in plpgsql       *)
(* (Plpgsql...) and in C (C...).  Frame 1 changes the executor's name of   *)
(* given trades, Frame 2 the cash type of settlements of an account, Frame *)
(* 3 the name of cash transactions in a security; each changes at most     *)
(* max_updates rows and answers with the trades it looked at.              *)
(*                                                                         *)
(* Every frame walks over its trades; the operators below are the parts of *)
(* the body of that loop, in order.                                        *)
(***************************************************************************)
EXTENDS FrameTables

(* t_exec_name: ' X ' is taken out, or put between the names.              *)
ToggleExecName(name) == IF name = "John X Doe" THEN "John Doe" ELSE "John X Doe"

(* Mutant: t_is_cash is not looked at.                                     *)
Bug_ToggleCashType(is_cash, type) == IF type = "Cash Account" THEN "Cash" ELSE "Cash Account"

(* se_cash_type, by t_is_cash.                                             *)
ToggleCashType(is_cash, type) ==
    IF is_cash
    THEN IF type = "Cash Account" THEN "Cash" ELSE "Cash Account"
    ELSE IF type = "Margin Account" THEN "Margin" ELSE "Margin Account"

(* ct_name: "<type> <quantity> shares of <name>", with a capital or not.   *)
ToggleCtName(name) == IF name = "shares of" THEN "Shares of" ELSE "shares of"

(* A row changed, and counted in num_updated.                              *)
SetExec(acc, t) ==
    [acc EXCEPT !.db.exec[t] = ToggleExecName(@), !.nf = @ + 1, !.nu = @ + 1]

SetCashType(acc, t) ==
    [acc EXCEPT !.db.settlement[t] = ToggleCashType(Trade[t].is_cash, @), !.nu = @ + 1]

SetCtName(acc, t) == [acc EXCEPT !.db.cash[t] = ToggleCtName(@), !.nu = @ + 1]

-----------------------------------------------------------------------------
(* The client.  A row that is missing ends the work on this trade.         *)

ClientTUF1Toggle(acc, t, in) ==
    LET a == ContinueUnless(acc.nu >= in.max_updates \/ Exists(t), acc)
    IN  IF Going(a) /\ a.nu < in.max_updates THEN SetExec(a, t) ELSE a

ClientTUF1Read(acc, t, i) ==
    LET a == ContinueUnless(Exists(t), acc)
        b == PutIf(TRUE, a, "trade", i, TradeRow(a.db, t))
        c == ContinueUnless(Settled(b.db, t), b)
    IN  PutIf(TRUE, c, "settlement", i, SettlementRow(c.db, t))

ClientTUF1ReadMore(acc, t, i) ==
    LET a == ContinueUnless(Trade[t].is_cash => Paid(acc.db, t), acc)
        b == PutIf(Trade[t].is_cash, a, "cash", i, CashRow(a.db, t))
    IN  PutIf(Past(acc.db, t) # <<>>, b, "history", i, HistoryRows(acc.db, t))

ClientTUF1(db, in) ==
    LET Body(acc, i) ==
            LET t == in.trade_id[i]
            IN  ClientTUF1ReadMore(ClientTUF1Read(ClientTUF1Toggle(acc, t, in), t, i), t, i)
    IN  ClientAnswer(ForEach(Body, Start(db, EmptyArray), Min({in.max_trades, MaxRows})))

(* Frame 2: the settlement is changed before it is read.                   *)
ClientTUF2Toggle(acc, t, i, in) ==
    LET a == PutIf(TRUE, acc, "trade", i, TradeRow(acc.db, t))
        b == ContinueUnless(a.nu >= in.max_updates \/ Settled(a.db, t), a)
    IN  IF Going(b) /\ b.nu < in.max_updates THEN SetCashType(b, t) ELSE b

ClientTUF2Read(acc, t, i) ==
    LET a == ContinueUnless(Settled(acc.db, t), acc)
        b == PutIf(TRUE, a, "settlement", i, SettlementRow(a.db, t))
        c == PutIf(Trade[t].is_cash /\ Paid(b.db, t), b, "cash", i, CashRow(b.db, t))
    IN  PutIf(Past(acc.db, t) # <<>>, c, "history", i, HistoryRows(acc.db, t))

ClientTUF2(db, in) ==
    LET ts == OfAccount(db, in)
        n == Min({Len(ts), MaxRows})
        Body(acc, i) == ClientTUF2Read(ClientTUF2Toggle(acc, ts[i], i, in), ts[i], i)
    IN  ClientAnswer([ForEach(Body, Start(db, EmptyArray), n) EXCEPT !.nf = n])

(* Frame 3: only cash trades are changed.                                  *)
ClientTUF3Read(acc, t, i) ==
    LET a == PutIf(TRUE, acc, "trade", i, TradeRow(acc.db, t))
        b == ContinueUnless(Settled(a.db, t), a)
    IN  PutIf(TRUE, b, "settlement", i, SettlementRow(b.db, t))

ClientTUF3Toggle(acc, t, in) ==
    LET change == Trade[t].is_cash /\ acc.nu < in.max_updates
        a == ContinueUnless(change => Paid(acc.db, t), acc)
    IN  IF Going(a) /\ change THEN SetCtName(a, t) ELSE a

ClientTUF3ReadMore(acc, t, i) ==
    LET a == PutIf(Trade[t].is_cash /\ Paid(acc.db, t), acc, "cash", i, CashRow(acc.db, t))
    IN  PutIf(Past(acc.db, t) # <<>>, a, "history", i, HistoryRows(acc.db, t))

ClientTUF3(db, in) ==
    LET ts == OfSymbol(db, in)
        n == Min({Len(ts), MaxRows})
        Body(acc, i) ==
            ClientTUF3ReadMore(ClientTUF3Toggle(ClientTUF3Read(acc, ts[i], i), ts[i], in), ts[i], i)
    IN  ClientAnswer([ForEach(Body, Start(db, EmptyArray), n) EXCEPT !.nf = n])

-----------------------------------------------------------------------------
(* plpgsql.  A SELECT INTO without a row, and an UPDATE of none, is no     *)
(* reason to stop; arrays are filled at the position of the trade.         *)

PlpgsqlTUF1Toggle(acc, t, in) ==
    IF acc.nu < in.max_updates /\ Exists(t) THEN SetExec(acc, t) ELSE acc

PlpgsqlTUF1Read(acc, t, i) ==
    LET a == PutIf(Exists(t), acc, "trade", i, TradeRow(acc.db, t))
        b == PutIf(Settled(a.db, t), a, "settlement", i, SettlementRow(a.db, t))
        paid == Exists(t) /\ Trade[t].is_cash /\ Paid(b.db, t)
        c == PutIf(TRUE, b, "cash", i, IF paid THEN CashRow(b.db, t) ELSE Null)
    IN  PutIf(TRUE, c, "history", i, HistoryRows(acc.db, t))

PlpgsqlTUF1(db, in) ==
    LET Body(acc, i) ==
            PlpgsqlTUF1Read(PlpgsqlTUF1Toggle(acc, in.trade_id[i], in), in.trade_id[i], i)
    IN  PlpgsqlRow(ForEach(Body, Start(db, EmptyArray), in.max_trades))

(* Mutant: a settlement that says Cash is left alone.                      *)
Bug_PlpgsqlTUF2Toggle(acc, t, i, in) ==
    LET a == PutIf(TRUE, acc, "trade", i, TradeRow(acc.db, t))
    IN  IF a.nu < in.max_updates /\ Settled(a.db, t) /\ a.db.settlement[t] # "Cash"
        THEN SetCashType(a, t) ELSE a

PlpgsqlTUF2Toggle(acc, t, i, in) ==
    LET a == PutIf(TRUE, acc, "trade", i, TradeRow(acc.db, t))
    IN  IF a.nu < in.max_updates /\ Settled(a.db, t) THEN SetCashType(a, t) ELSE a

PlpgsqlTUF2Read(acc, t, i) ==
    LET a == PutIf(Settled(acc.db, t), acc, "settlement", i, SettlementRow(acc.db, t))
        paid == Trade[t].is_cash /\ Paid(a.db, t)
        b == PutIf(TRUE, a, "cash", i, IF paid THEN CashRow(a.db, t) ELSE Null)
    IN  PutIf(TRUE, b, "history", i, HistoryRows(acc.db, t))

PlpgsqlTUF2(db, in) ==
    LET ts == OfAccount(db, in)
        Body(acc, i) == PlpgsqlTUF2Read(PlpgsqlTUF2Toggle(acc, ts[i], i, in), ts[i], i)
    IN  PlpgsqlRow([ForEach(Body, Start(db, EmptyArray), Len(ts)) EXCEPT !.nf = Len(ts)])

PlpgsqlTUF3Toggle(acc, t, i, in) ==
    LET a == PutIf(TRUE, acc, "trade", i, TradeRow(acc.db, t))
        b == PutIf(Settled(a.db, t), a, "settlement", i, SettlementRow(a.db, t))
    IN  IF Trade[t].is_cash /\ b.nu < in.max_updates /\ Paid(b.db, t)
        THEN SetCtName(b, t) ELSE b

PlpgsqlTUF3Read(acc, t, i) ==
    LET paid == Trade[t].is_cash /\ Paid(acc.db, t)
        a == PutIf(TRUE, acc, "cash", i, IF paid THEN CashRow(acc.db, t) ELSE Null)
    IN  PutIf(TRUE, a, "history", i, HistoryRows(acc.db, t))

PlpgsqlTUF3(db, in) ==
    LET ts == OfSymbol(db, in)
        Body(acc, i) == PlpgsqlTUF3Read(PlpgsqlTUF3Toggle(acc, ts[i], i, in), ts[i], i)
    IN  PlpgsqlRow([ForEach(Body, Start(db, EmptyArray), Len(ts)) EXCEPT !.nf = Len(ts)])
=============================================================================
