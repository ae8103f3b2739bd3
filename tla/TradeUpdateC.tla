---------------------------- MODULE TradeUpdateC -----------------------------
(***************************************************************************)
(* The frames of Trade-Update as C functions (trade_update.c).  They write *)
(* array literals, element after element, so an element that is left out   *)
(* moves the following ones up; most missing rows clear max_calls instead, *)
(* and the function then returns no row although its updates stay.         *)
(* Queries run with read_only = true see the tables as they were when the  *)
(* function was called (acc.snap), the others what it has changed (acc.db).*)
(***************************************************************************)
EXTENDS TradeUpdate

(* Frame 1: max_trades is cut to the length of the array of trade_id.      *)
CTUF1Trades(in) == Min({in.max_trades, Len(in.trade_id)})

CTUF1Toggle(acc, t, in) ==
    LET a == ContinueUnless(acc.nu >= in.max_updates \/ Exists(t), acc)
    IN  IF Going(a) /\ a.nu < in.max_updates
        THEN [a EXCEPT !.db.exec[t] = ToggleExecName(a.snap.exec[t]),
                       !.nf = @ + 1, !.nu = @ + 1]
        ELSE a

CTUF1Trade(acc, t) ==
    LET a == ContinueUnless(Exists(t), acc)
    IN  AddIf(TRUE, a, "trade", TradeRow(a.db, t))

CTUF1Settlement(acc, t) ==
    AddIf(Settled(acc.snap, t), acc, "settlement", SettlementRow(acc.snap, t))

(* Mutant: a trade that is not paid in cash gets no element.               *)
Bug_CTUF1Cash(acc, t) ==
    LET a == FailUnless(Trade[t].is_cash => Paid(acc.snap, t), acc)
    IN  AddIf(Trade[t].is_cash, a, "cash", CashRow(a.snap, t))

CTUF1Cash(acc, t) ==
    LET a == FailUnless(Trade[t].is_cash => Paid(acc.snap, t), acc)
    IN  AddIf(TRUE, a, "cash", IF Trade[t].is_cash THEN CashRow(a.snap, t) ELSE Null)

CTUF1History(acc, t) == AddIf(TRUE, acc, "history", HistoryRows(acc.snap, t))

CTUF1(db, in) ==
    LET Body(acc, i) ==
            LET t == in.trade_id[i]
                a == CTUF1Trade(CTUF1Toggle(acc, t, in), t)
            IN  CTUF1History(CTUF1Cash(CTUF1Settlement(a, t), t), t)
    IN  CRow(db, ForEach(Body, Start(db, <<>>), CTUF1Trades(in)))

-----------------------------------------------------------------------------
(* Frame 2: every missing row fails the frame.                             *)

CTUF2Trade(acc, t) == AddIf(TRUE, acc, "trade", TradeRow(acc.snap, t))

CTUF2Toggle(acc, t, in) ==
    LET a == FailUnless(acc.nu >= in.max_updates \/ Settled(acc.snap, t), acc)
    IN  IF Going(a) /\ a.nu < in.max_updates
        THEN [a EXCEPT !.db.settlement[t] =
                           ToggleCashType(Trade[t].is_cash, a.snap.settlement[t]),
                       !.nu = @ + 1]
        ELSE a

(* Mutant: the settlement is read with read_only = true.                   *)
Bug_CTUF2Settlement(acc, t) ==
    LET a == FailUnless(Settled(acc.snap, t), acc)
    IN  AddIf(TRUE, a, "settlement", SettlementRow(a.snap, t))

CTUF2Settlement(acc, t) ==
    LET a == FailUnless(Settled(acc.db, t), acc)
    IN  AddIf(TRUE, a, "settlement", SettlementRow(a.db, t))

CTUF2Cash(acc, t) ==
    LET a == FailUnless(Trade[t].is_cash => Paid(acc.snap, t), acc)
    IN  AddIf(TRUE, a, "cash", IF Trade[t].is_cash THEN CashRow(a.snap, t) ELSE Null)

CTUF2History(acc, t) ==
    AddIf(TRUE, FailUnless(Past(acc.snap, t) # <<>>, acc), "history", HistoryRows(acc.snap, t))

CTUF2(db, in) ==
    LET ts == OfAccount(db, in)
        Body(acc, i) ==
            LET a == CTUF2Settlement(CTUF2Toggle(CTUF2Trade(acc, ts[i]), ts[i], in), ts[i])
            IN  CTUF2History(CTUF2Cash(a, ts[i]), ts[i])
    IN  CRow(db, [ForEach(Body, Start(db, <<>>), Len(ts)) EXCEPT !.nf = Len(ts)])

-----------------------------------------------------------------------------
(* Frame 3: the comma before a settlement is written whether or not there  *)
(* is one.                                                                 *)

CTUF3Trade(acc, t) == AddIf(TRUE, acc, "trade", TradeRow(acc.snap, t))

CTUF3Settlement(acc, t) ==
    AddIf(TRUE, acc, "settlement",
          IF Settled(acc.snap, t) THEN SettlementRow(acc.snap, t) ELSE Hole)

(* Mutant: the limit on updates is off by one.                             *)
Bug_CTUF3Toggle(acc, t, in) ==
    LET change == Trade[t].is_cash /\ acc.nu <= in.max_updates
        a == FailUnless(change => Paid(acc.snap, t), acc)
    IN  IF Going(a) /\ change
        THEN [a EXCEPT !.db.cash[t] = ToggleCtName(a.snap.cash[t]), !.nu = @ + 1]
        ELSE a

CTUF3Toggle(acc, t, in) ==
    LET change == Trade[t].is_cash /\ acc.nu < in.max_updates
        a == FailUnless(change => Paid(acc.snap, t), acc)
    IN  IF Going(a) /\ change
        THEN [a EXCEPT !.db.cash[t] = ToggleCtName(a.snap.cash[t]), !.nu = @ + 1]
        ELSE a

CTUF3Cash(acc, t) ==
    LET a == FailUnless(Trade[t].is_cash => Paid(acc.db, t), acc)
    IN  AddIf(TRUE, a, "cash", IF Trade[t].is_cash THEN CashRow(a.db, t) ELSE Null)

CTUF3History(acc, t) ==
    AddIf(TRUE, FailUnless(Past(acc.snap, t) # <<>>, acc), "history", HistoryRows(acc.snap, t))

CTUF3(db, in) ==
    LET ts == OfSymbol(db, in)
        Body(acc, i) ==
            LET a == CTUF3Toggle(CTUF3Settlement(CTUF3Trade(acc, ts[i]), ts[i]), ts[i], in)
            IN  CTUF3History(CTUF3Cash(a, ts[i]), ts[i])
    IN  CRow(db, [ForEach(Body, Start(db, <<>>), Len(ts)) EXCEPT !.nf = Len(ts)])
=============================================================================
