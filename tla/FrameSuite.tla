----------------------------- MODULE FrameSuite ------------------------------
(***************************************************************************)
(* The comparison that tests/test_pgsql_transactions and                   *)
(* test_pgsql_storedprocs_c make: a frame is run in the client, in plpgsql *)
(* and in C, each from the same database, and the outputs are compared.    *)
(* Here it is made from every database that frames can lead to, whichever  *)
(* implementation ran them, and while some trades are not complete.        *)
(***************************************************************************)
EXTENDS ServerSide, TradeUpdateC, TradeLookup, TradeResultFrames, DataMaintenance

CONSTANTS
    Accounts,
    Symbols,
    Loaded,         \* trades complete in the loaded database
    FirstDts,       \* t_dts in the loaded database: [t_id -> Nat]
    Windows,        \* <<start, end>> of the time windows asked for
    IdLists,        \* lists of trade ids asked for
    MaxUpdates,     \* values of max_updates
    MaxTrades,      \* values of max_trades
    LoadedRows,     \* [table of Data-Maintenance -> [key -> rows]]
    NoKey,          \* a key no table has
    MaxAdded        \* bound: days or volumes added to a row

(* The ids of a list differ, as those that EGen generates do.              *)
ASSUME SuiteAssumption ==
    /\ Loaded \subseteq DOMAIN Trade
    /\ FirstDts \in [DOMAIN Trade -> Nat] /\ IsInjective(FirstDts)
    /\ \A t \in DOMAIN Trade : /\ Trade[t].acct \in Accounts /\ Trade[t].gain \in Int
                              /\ Trade[t].qty \in Nat /\ Trade[t].value \in Int
    /\ \A ids \in IdLists : Len(ids) \in 1..MaxRows /\ IsInjective(ids)
    /\ \A ids \in IdLists : ids \in Seq(Range(ids))
    /\ MaxUpdates \subseteq Nat /\ MaxTrades \subseteq 0..MaxRows

(* No row looks like what stands for a missing one.                        *)
ASSUME RowsAssumption ==
    /\ Null # Hole
    /\ \A t \in DOMAIN Trade, missing \in {Unset, Null, Hole} :
           /\ \A v \in {"John Doe", "John X Doe", "Cash", "Cash Account", "Margin",
                         "Margin Account", "shares of", "Shares of"} : <<t, v>> # missing
           /\ \A len \in 1..3 : \A past \in [1..len -> {"SBMT", "CMPT"}] : <<t, past>> # missing

(* Values of a table that Data-Maintenance knows: tax rates that exist,    *)
(* quarters that start on the first or all on the second, one time stamp   *)
(* per exchange, a watch list of the same length.                          *)
KnownRows(table, rows) ==
    LET OneOf(S) == \A k \in DOMAIN rows : rows[k] \in S
        AllIn(Sets) == \A k \in DOMAIN rows : \E S \in Sets :
                            \A r \in DOMAIN rows[k] : rows[k][r] \in S
    IN  CASE table = "ACCOUNT_PERMISSION" -> AllIn({{0, 1, 11, 1111}})
          [] table = "CUSTOMER_TAXRATE" ->
                OneOf({tx \in {"US", "CN"} \X (1..5) : tx # <<"CN", 5>>})
          [] table = "EXCHANGE" -> AllIn({{"plain"}, {"stamped"}})
          [] table = "FINANCIAL" -> AllIn({{1}, {2}})
          [] table = "WATCH_ITEM" -> \A k \in DOMAIN rows :
                /\ rows[k] \subseteq Securities
                /\ Cardinality(rows[k]) = Cardinality(LoadedRows["WATCH_ITEM"][k])
          [] OTHER -> TRUE

(* The loader writes such values, and no watch list without a symbol.      *)
ASSUME LoadedAssumption ==
    /\ IsFiniteSet(Securities) /\ Securities \subseteq Nat
    /\ \A table \in DOMAIN LoadedRows :
           LET rows == LoadedRows[table]
           IN  /\ rows = [k \in DOMAIN rows |-> rows[k]] /\ KnownRows(table, rows)
               /\ table = "WATCH_ITEM" => \A k \in DOMAIN rows : rows[k] # {}

Impls == {"client", "plpgsql", "c"}

VARIABLES
    db,     \* the database
    asked,  \* the frame whose answers are being compared, and its input
    out     \* the answer of each implementation, the database it leaves included

vars == <<db, asked, out>>

Trades == DOMAIN Trade

(* In a behaviour Data-Maintenance has one table, or none and the other    *)
(* frames theirs: no frame here reads what another maintains.              *)
LoadedTables(table) ==
    [exec |-> [t \in Trades |-> "John Doe"],
     dts |-> FirstDts,
     status |-> [t \in Trades |-> IF t \in Loaded THEN "CMPT" ELSE "SBMT"],
     history |-> [t \in Trades |-> IF t \in Loaded THEN <<"SBMT", "CMPT">> ELSE <<"SBMT">>],
     tax |-> [t \in Trades |-> 0],
     comm |-> [t \in Trades |-> 0],
     settlement |-> [t \in Loaded |-> IF Trade[t].is_cash THEN "Cash Account" ELSE "Margin"],
     se_amt |-> [t \in Loaded |-> 0],
     cash |-> [t \in {u \in Loaded : Trade[u].is_cash} |-> "shares of"],
     ca_bal |-> [a \in Accounts |-> 0],
     b_comm_total |-> 0,
     b_num_trades |-> Cardinality(Loaded),
     maint |-> [table |-> table, rows |-> LoadedRows[table]]]

Nothing == [frame |-> "none", in |-> <<>>]

Init ==
    /\ \E table \in DOMAIN LoadedRows : db = LoadedTables(table)
    /\ asked = Nothing
    /\ out = <<>>

-----------------------------------------------------------------------------
(* A frame in all implementations, each from the same database.            *)

Run(frame, in, answers) ==
    /\ asked = Nothing
    /\ (frame = "DM") = (db.maint.table # "none")
    /\ asked' = [frame |-> frame, in |-> in]
    /\ out' = answers
    /\ UNCHANGED db

All(client, plpgsql, c) == [i \in Impls |->
    CASE i = "client" -> client [] i = "plpgsql" -> plpgsql [] i = "c" -> c]

DoTradeUpdateFrame1 ==
    \E ids \in IdLists, u \in MaxUpdates :
        LET in == [trade_id |-> ids, max_trades |-> Len(ids), max_updates |-> u]
        IN  Run("TUF1", in, All(ClientTUF1(db, in), ServerTUF1(PlpgsqlTUF1(db, ServerInput(in))),
                               ServerTUF1(CTUF1(db, ServerInput(in)))))

DoTradeUpdateFrame2 ==
    \E a \in Accounts, w \in Windows, m \in MaxTrades, u \in MaxUpdates :
        LET in == [acct_id |-> a, start_dts |-> w[1], end_dts |-> w[2],
                   max_trades |-> m, max_updates |-> u]
        IN  Run("TUF2", in, All(ClientTUF2(db, in), ServerTUF2(PlpgsqlTUF2(db, in)),
                               ServerTUF2(CTUF2(db, in))))

DoTradeUpdateFrame3 ==
    \E s \in Symbols, w \in Windows, m \in MaxTrades, u \in MaxUpdates :
        LET in == [symbol |-> s, start_dts |-> w[1], end_dts |-> w[2],
                   max_trades |-> m, max_updates |-> u]
        IN  Run("TUF3", in, All(ClientTUF3(db, in), ServerTUF3(PlpgsqlTUF3(db, in)),
                               ServerTUF3(CTUF3(db, in))))

DoTradeLookupFrame1 ==
    \E ids \in IdLists :
        LET in == [trade_id |-> ids, max_trades |-> Len(ids)]
        IN  Run("TLF1", in, All(ClientTLF1(db, in), ServerTLF1(PlpgsqlTLF1(db, ServerInput(in))),
                               ServerTLF1(CTLF1(db, ServerInput(in)))))

DoTradeLookupFrame2 ==
    \E a \in Accounts, w \in Windows, m \in MaxTrades :
        LET in == [acct_id |-> a, start_dts |-> w[1], end_dts |-> w[2], max_trades |-> m]
        IN  Run("TLF2", in, All(ClientTLF2(db, in), ServerTLF2(PlpgsqlTLF2(db, in)),
                               ServerTLF2(CTLF2(db, in))))

DoTradeLookupFrame3 ==
    \E s \in Symbols, w \in Windows, m \in MaxTrades :
        LET in == [symbol |-> s, start_dts |-> w[1], end_dts |-> w[2], max_trades |-> m]
        IN  Run("TLF3", in, All(ClientTLF3(db, in), ServerTLF3(PlpgsqlTLF3(db, in)),
                               ServerTLF3(CTLF3(db, in))))

DoTradeLookupFrame4 ==
    \E a \in Accounts, w \in Windows :
        LET in == [acct_id |-> a, start_dts |-> w[1]]
        IN  Run("TLF4", in, All(ClientTLF4(db, in), ServerTLF4(PlpgsqlTLF4(db, in)),
                               ServerTLF4(CTLF4(db, in))))

(* Frames 3 to 6 of the Trade-Result of a trade that is not complete yet.  *)
DoTradeResult ==
    \E t \in {u \in Trades : db.status[u] = "SBMT"} :
        LET in == [trade_id |-> t, gain |-> Trade[t].gain, trade_qty |-> Trade[t].qty,
                   value |-> Trade[t].value,
                   trade_dts |-> Max({db.dts[u] : u \in Trades}) + 1]
        IN  Run("TR", in, All(ClientTR(db, in), PlpgsqlTR(db, in), CTR(db, in)))

AddingTables == {"DAILY_MARKET", "NEWS_ITEM", "SECURITY"}

DoDataMaintenanceFrame1 ==
    \E key \in DOMAIN db.maint.rows \cup {NoKey} :
        LET in == [table_name |-> db.maint.table, key |-> key]
        IN  /\ in.table_name \in AddingTables /\ key # NoKey => db.maint.rows[key] < MaxAdded
            /\ Run("DM", in, All(ClientDMF1(db, in), ServerDMF1(db, PlpgsqlDMF1(db, in)),
                                ServerDMF1(db, CDMF1(db, in))))

(* The answers have been compared: the suite goes on from the database one *)
(* of the implementations has left.                                        *)
NextFrame ==
    /\ asked # Nothing
    /\ \E i \in Impls : db' = out[i].db
    /\ asked' = Nothing
    /\ out' = <<>>

Next ==
    \/ NextFrame
    \/ DoTradeUpdateFrame1 \/ DoTradeUpdateFrame2 \/ DoTradeUpdateFrame3
    \/ DoTradeLookupFrame1 \/ DoTradeLookupFrame2 \/ DoTradeLookupFrame3
    \/ DoTradeLookupFrame4 \/ DoTradeResult \/ DoDataMaintenanceFrame1

Spec == Init /\ [][Next]_vars

-----------------------------------------------------------------------------
(* Properties.                                                             *)

UpdateFrames == {"TUF1", "TUF2", "TUF3"}
ListFrames == UpdateFrames \cup {"TLF1", "TLF2", "TLF3"}

(* The trades the frame looked at, in the order of its rows.               *)
LookedAt ==
    CASE asked.frame \in {"TUF1", "TLF1"} -> asked.in.trade_id
      [] asked.frame \in {"TUF2", "TLF2"} -> OfAccount(db, asked.in)
      [] asked.frame \in {"TUF3", "TLF3"} -> OfSymbol(db, asked.in)
      [] OTHER -> <<>>

AllComplete == \A k \in DOMAIN LookedAt : Complete(db, LookedAt[k])

(* What the implementations may be asked for and must then agree on:       *)
(* complete trades; a tax that does not fall on half a cent, which C       *)
(* rounds to even and the others up; rows to maintain, which the client    *)
(* and plpgsql do not miss and C does.                                     *)
Comparable ==
    /\ AllComplete
    /\ asked.frame = "TR" => ~HalfCent(asked.in)
    /\ asked.frame = "DM" =>
            asked.in.table_name \in Maintained /\ ~NothingFound(db, asked.in)

(* What the frame prints: of trade_info only num_found rows.               *)
Printed(a) ==
    CASE asked.frame \in ListFrames ->
            <<a.ok, a.num_found, a.num_updated, SubSeq(a.info, 1, a.num_found)>>
      [] asked.frame = "TLF4" -> <<a.num_trades_found, a.trade_id, a.num_found, a.rows>>
      [] asked.frame = "TR" -> <<a.tax_amount, a.comm_rate, a.acct_bal>>
      [] asked.frame = "DM" -> a.ok

(* However often it is maintained, a table keeps values the frame knows.   *)
MaintainedOK == KnownRows(db.maint.table, db.maint.rows)

(* Types: the tables keep their shape, and num_found its limit.            *)
TypeOK ==
    /\ MaintainedOK
    /\ db.exec \in [Trades -> {"John Doe", "John X Doe"}]
    /\ DOMAIN db.settlement = DOMAIN db.se_amt
    /\ \A t \in DOMAIN db.settlement : db.settlement[t] \in
            IF Trade[t].is_cash THEN {"Cash", "Cash Account"} ELSE {"Margin", "Margin Account"}
    /\ \A t \in DOMAIN db.cash : db.cash[t] \in {"shares of", "Shares of"}
    /\ asked.frame \in ListFrames => \A i \in Impls : out[i].num_found \in 0..MaxRows

(* "The two implementations must produce the same frame output"            *)
(* (tests/test_pgsql_transactions): client, plpgsql and C print the same.  *)
SameFrameOutput ==
    asked # Nothing /\ Comparable => \A i, j \in Impls : Printed(out[i]) = Printed(out[j])

(* They also leave the same tables behind, which the tests do not compare; *)
(* Data-Maintenance does even where only C says that it failed.            *)
SameTables ==
    asked # Nothing /\ (Comparable \/ asked.frame = "DM") => \A i, j \in Impls : out[i].db = out[j].db

StoredRow(tables, g, t) ==
    CASE g = "trade" -> TradeRow(tables, t)
      [] g = "settlement" -> SettlementRow(tables, t)
      [] g = "cash" -> CashRow(tables, t)
      [] g = "history" -> HistoryRows(tables, t)

(* Row k of an answer is about the k-th trade, in every group of columns,  *)
(* with what the tables hold when the frame is done: no value of another   *)
(* trade, none from before the update.  For C, whose lists have no         *)
(* placeholders, of complete trades only.                                  *)
RowsDescribeTrades ==
    asked.frame \in ListFrames =>
        \A i \in Impls : (i = "c" => AllComplete) =>
            \A k \in 1..out[i].num_found, g \in Groups :
                LET group == out[i].info[k][g]
                IN  group # Unset =>
                        /\ group[1] = LookedAt[k]
                        /\ group = StoredRow(out[i].db, g, LookedAt[k])

Changes(old, new) ==
      Cardinality({t \in Trades : old.exec[t] # new.exec[t]})
    + Cardinality({t \in DOMAIN old.settlement : old.settlement[t] # new.settlement[t]})
    + Cardinality({t \in DOMAIN old.cash : old.cash[t] # new.cash[t]})

(* num_updated is the number of rows Trade-Update changed, at most         *)
(* max_updates, and a change is never undone by the same frame.            *)
CountsAreHonest ==
    asked.frame \in UpdateFrames =>
        \A i \in Impls : (i = "c" => AllComplete) =>
            /\ Changes(db, out[i].db) = out[i].num_updated
            /\ out[i].num_updated <= asked.in.max_updates

(* What the frames of Trade-Result have spread over the tables agrees: the *)
(* balance is the sum of the cash settlements, the broker's totals those   *)
(* of the complete trades, and a trade is complete exactly when its        *)
(* history says so and it has been settled.                                *)
MoneyAddsUp ==
    LET complete == {t \in Trades : db.status[t] = "CMPT"}
        CashOf(a) == {t \in DOMAIN db.cash : Trade[t].acct = a}
    IN  /\ \A a \in Accounts : db.ca_bal[a] = MapThenSumSet(LAMBDA t : db.se_amt[t], CashOf(a))
        /\ db.b_comm_total = MapThenSumSet(LAMBDA t : db.comm[t], complete)
        /\ db.b_num_trades = Cardinality(complete)
        /\ \A t \in Trades : t \in complete <=> Last(db.history[t]) = "CMPT"
        /\ \A t \in Trades : t \in complete <=> Complete(db, t)
=============================================================================
