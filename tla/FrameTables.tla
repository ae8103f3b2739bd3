----------------------------- MODULE FrameTables -----------------------------
(***************************************************************************)
(* What the frames of Trade-Lookup and Trade-Update share: the tables they *)
(* read, and the arrays in which the three implementations collect their   *)
(* answer.  How the row of a stored function reaches the output structure  *)
(* of the frame is in ServerSide.                                          *)
(*                                                                         *)
(* A frame answers with four groups of columns per trade: those of trade,  *)
(* settlement, cash_transaction and trade_history.  A group is one value:  *)
(* the identity of the trade, which stands for the columns no frame        *)
(* changes, and the column a frame can change.                             *)
(***************************************************************************)
EXTENDS Integers, Sequences, FiniteSets, SequencesExt, FiniteSetsExt, TLC

CONSTANTS
    Trade,      \* what no frame changes of trade: [t_id -> [acct, symb, is_cash, ...]]
    MaxRows,    \* TradeLookupMaxRows, TradeUpdateMaxRows: rows of trade_info
    Unset,      \* a group of trade_info as the caller cleared it
    Null,       \* NULL, or the 0 and '' put in the place of a missing row
    Hole        \* nothing between two commas of an array literal

ASSUME TablesAssumption ==
    /\ IsFiniteSet(DOMAIN Trade) /\ \A t \in DOMAIN Trade : Trade[t].is_cash \in BOOLEAN
    /\ MaxRows \in Nat \ {0}

Groups == {"trade", "settlement", "cash", "history"}

-----------------------------------------------------------------------------
(* The tables: db.exec, db.dts and db.status are columns of trade,         *)
(* db.history the th_st_id of trade_history in order; db.settlement        *)
(* (se_cash_type) and db.cash (ct_name) are partial, as a trade that is    *)
(* not complete has no row there yet.                                      *)

Exists(t) == t \in DOMAIN Trade
Settled(db, t) == t \in DOMAIN db.settlement
Paid(db, t) == t \in DOMAIN db.cash
Complete(db, t) == Exists(t) /\ Settled(db, t) /\ (Trade[t].is_cash <=> Paid(db, t))

TradeRow(db, t) == <<t, db.exec[t]>>
SettlementRow(db, t) == <<t, db.settlement[t]>>
CashRow(db, t) == <<t, db.cash[t]>>
Past(db, t) == IF Exists(t) THEN SubSeq(db.history[t], 1, Min({3, Len(db.history[t])})) ELSE <<>>
HistoryRows(db, t) == IF Past(db, t) = <<>> THEN Null ELSE <<t, Past(db, t)>>

(* ORDER BY t_dts ASC LIMIT n                                              *)
ByDts(db, S, n) ==
    LET s == CHOOSE s \in SetToSeqs(S) : \A i, j \in DOMAIN s :
                 i < j => db.dts[s[i]] <= db.dts[s[j]]
    IN  SubSeq(s, 1, Min({n, Len(s)}))

Between(db, t, in) == db.dts[t] >= in.start_dts /\ db.dts[t] <= in.end_dts

OfAccount(db, in) ==
    ByDts(db, {t \in DOMAIN Trade : Trade[t].acct = in.acct_id /\ Between(db, t, in)},
          in.max_trades)

OfSymbol(db, in) ==
    ByDts(db, {t \in DOMAIN Trade : Trade[t].symb = in.symbol /\ Between(db, t, in)},
          in.max_trades)

-----------------------------------------------------------------------------
(* A frame at work: its database, the arrays it fills, num_found and       *)
(* num_updated, and where its control is.                                  *)

Start(db, empty) ==
    [db |-> db,
     snap |-> db,       \* what the read_only queries of a C function see
     arr |-> [g \in Groups |-> empty], nf |-> 0, nu |-> 0,
     at |-> "body",     \* "next" once the body said continue for this trade
     max_calls |-> 1]   \* rows the C function returns; FAIL_FRAME_SET clears it

EmptyArray == [i \in {} |-> Null]

(* The next trade: continue ended the work on the one before only.         *)
Anew(acc) == [acc EXCEPT !.at = "body"]

(* The body of the loop over the trades, for trade after trade.            *)
ForEach(Body(_, _), start, n) ==
    LET acc[i \in 0..n] ==
            IF i = 0 THEN start ELSE Body(Anew(acc[i - 1]), i)
    IN  acc[n]

Going(acc) == acc.at = "body"

ContinueUnless(c, acc) ==
    IF Going(acc) /\ ~c THEN [acc EXCEPT !.at = "next"] ELSE acc

FailUnless(c, acc) ==
    IF Going(acc) /\ ~c THEN [acc EXCEPT !.at = "next", !.max_calls = 0] ELSE acc

(* A row or an element added to a partial function.                        *)
Put(f, x, v) == [y \in DOMAIN f \cup {x} |-> IF y = x THEN v ELSE f[y]]

(* trade_info[i], or element i of a plpgsql array.                         *)
PutIf(c, acc, g, i, v) ==
    IF Going(acc) /\ c THEN [acc EXCEPT !.arr[g] = Put(@, i, v)] ELSE acc

(* The next element of an array literal built with strncat.                *)
AddIf(c, acc, g, v) ==
    IF Going(acc) /\ c THEN [acc EXCEPT !.arr[g] = Append(@, v)] ELSE acc

-----------------------------------------------------------------------------
(* Answers.                                                                *)

(* trade_info as the client filled it.                                     *)
TradeInfo(arr) ==
    [i \in 1..MaxRows |-> [g \in Groups |->
        IF i \in DOMAIN arr[g] THEN arr[g][i] ELSE Unset]]

ClientAnswer(acc) ==
    [ok |-> TRUE, db |-> acc.db, num_found |-> acc.nf, num_updated |-> acc.nu,
     info |-> TradeInfo(acc.arr)]

(* A stored function answers with one row or with none, NoRow; ok is FALSE *)
(* when it raised an error, and the transaction is then rolled back.       *)
NoRow == [num_found |-> 0, num_updated |-> 0, cols |-> EmptyArray]

Row(acc, cols) == [num_found |-> acc.nf, num_updated |-> acc.nu, cols |-> cols]

PlpgsqlRow(acc) == [ok |-> TRUE, db |-> acc.db, row |-> Row(acc, acc.arr)]

(* Nothing between two commas is a malformed array literal, nothing        *)
(* between the braces an empty one.                                        *)
Malformed(list) == Len(list) > 1 /\ \E i \in DOMAIN list : list[i] = Hole

CRow(db, acc) ==
    LET lists == [g \in Groups |-> IF acc.arr[g] = <<Hole>> THEN <<>> ELSE acc.arr[g]]
    IN  CASE acc.max_calls = 0 -> [ok |-> TRUE, db |-> acc.db, row |-> NoRow]
          [] acc.max_calls # 0 /\ (\E g \in Groups : Malformed(acc.arr[g])) ->
                [ok |-> FALSE, db |-> db, row |-> NoRow]
          [] OTHER -> [ok |-> TRUE, db |-> acc.db, row |-> Row(acc, lists)]
=============================================================================
