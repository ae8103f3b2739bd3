----------------------------- MODULE TradeLife ------------------------------
(***************************************************************************)
(* The life of a trade in the database: Trade-Order creates it and sends   *)
(* it to the market, or leaves it pending as a limit order; Market-Feed    *)
(* triggers limit orders; Trade-Result completes a trade; Trade-Cleanup,   *)
(* which every driver runs before its customers, cancels what an earlier   *)
(* test left unfinished; stop_processes in scripts/dbt5-run.in kills       *)
(* everything and a new test may follow.                                   *)
(*                                                                         *)
(* PostgreSQL is external.  A transaction's writes become visible at its   *)
(* COMMIT; a row written by an open transaction makes other writers wait;  *)
(* under REPEATABLE READ (Market-Feed) and SERIALIZABLE (Trade-Result) a   *)
(* row changed since the snapshot cannot be written, under READ COMMITTED  *)
(* (Trade-Cleanup) it can.  A transaction may fail at any statement, also  *)
(* as the victim of a deadlock.                                            *)
(*                                                                         *)
(* All trades are on one security, account and broker.                     *)
(***************************************************************************)
EXTENDS Naturals, FiniteSets, FiniteSetsExt

CONSTANTS
    MaxTrades,      \* bound: trades ordered
    Types,          \* trade types offered
    Prices,         \* prices bid and quoted
    Feeds,          \* workers that run Market-Feeds
    Drivers,        \* driver processes of a test
    MaxEntries,     \* bound: ticker entries
    MaxRuns,        \* bound: tests, one after the other
    iMaxRetries     \* 10 in DBT5Consts.h

ASSUME TradesAssumption == MaxTrades \in Nat
ASSUME TypesAssumption == Types \subseteq {"market", "TLB", "TLS", "TSL"}
ASSUME PricesAssumption == Prices \subseteq Nat /\ Prices # {}
ASSUME FiniteAssumption == IsFiniteSet(Feeds) /\ IsFiniteSet(Drivers)
ASSUME BoundsAssumption == {MaxEntries, MaxRuns, iMaxRetries} \subseteq Nat

Trades == 1..MaxTrades

Status == {"PNDG", "SBMT", "CMPT", "CNCL"}

VARIABLES
    \* the database, as committed
    trade,          \* t_st_id of each trade, "none" when there is no row
    ver,            \* number of committed changes to each trade row
    kind, bid,      \* trade type and requested price
    request,        \* trades with a row in trade_request
    history,        \* trade_history: trade and status
    settled,        \* settlement rows and balance changes made for each trade
    b_num_trades,
    ltVer,          \* number of committed changes to the last_trade row
    seq_trade_id,   \* last value handed out, committed or not
    \* Trade-Order, one per trade
    order,          \* "new", "open", "committed", "sent", "over"
    born,           \* the test in which each trade was ordered
    \* the market
    market,         \* trades the Market Exchange has and has not answered
    sent,           \* number of times each trade was sent to be processed
    \* Trade-Result, one per trade
    result,         \* "none", "arrived", "read", "wrote", "done", "over"
    rver,           \* version of the trade row in its snapshot
    nRetries,
    \* Market-Feed, one ticker entry at a time
    feed,           \* "idle", "begun", "rows", "sending"
    quote,
    snap,           \* what the entry's transaction sees
    todo, done,     \* limit orders to trigger, and triggered
    entries,
    \* drivers and their Trade-Cleanup
    driver,         \* "off", "clean", "requests", "deleted", "submitted", "run"
    list,           \* rows of the last SELECT not yet handled
    wrote,          \* history rows written; the trades were canceled
    deleted,        \* trade_request rows deleted
    tidy,           \* Trade-Cleanup succeeded
    run             \* number of this test

dbVars == <<trade, ver, kind, bid, request, history, settled, b_num_trades, ltVer, seq_trade_id>>
orderVars == <<order, born>>
marketVars == <<market, sent>>
resultVars == <<result, rver, nRetries>>
feedVars == <<feed, quote, snap, todo, done, entries>>
driverVars == <<driver, list, wrote, deleted, tidy, run>>

vars == <<dbVars, orderVars, marketVars, resultVars, feedVars, driverVars>>

NoSnapshot == [request |-> {}, ver |-> [t \in Trades |-> 0], lt |-> 0]

(* Trades loaded with the database are completed and older than            *)
(* start_trade_id: no transaction here touches them.                       *)
Init ==
    /\ trade = [t \in Trades |-> "none"]
    /\ ver = [t \in Trades |-> 0]
    /\ kind = [t \in Trades |-> "market"]
    /\ bid = [t \in Trades |-> 0]
    /\ request = {}
    /\ history = {}
    /\ settled = [t \in Trades |-> 0]
    /\ b_num_trades = 0
    /\ ltVer = 0
    /\ seq_trade_id = 0
    /\ order = [t \in Trades |-> "new"]
    /\ born = [t \in Trades |-> 0]
    /\ market = {}
    /\ sent = [t \in Trades |-> 0]
    /\ result = [t \in Trades |-> "none"]
    /\ rver = [t \in Trades |-> 0]
    /\ nRetries = [t \in Trades |-> 0]
    /\ feed = [f \in Feeds |-> "idle"]
    /\ quote = [f \in Feeds |-> 0]
    /\ snap = [f \in Feeds |-> NoSnapshot]
    /\ todo = [f \in Feeds |-> {}]
    /\ done = [f \in Feeds |-> {}]
    /\ entries = 0
    /\ driver = [d \in Drivers |-> "off"]
    /\ list = [d \in Drivers |-> {}]
    /\ wrote = [d \in Drivers |-> {}]
    /\ deleted = [d \in Drivers |-> {}]
    /\ tidy = [d \in Drivers |-> FALSE]
    /\ run = 1

Canceled(d) == {t \in Trades : <<t, "CNCL">> \in wrote[d]}

(* Trade rows written by an open Trade-Result, Market-Feed or              *)
(* Trade-Cleanup.                                                          *)
ByResult(t) == result[t] = "wrote"
ByFeed(t) == \E f \in Feeds : feed[f] = "rows" /\ t \in done[f]
ByCleanup(d, t) == t \in Canceled(d) \cup deleted[d]

Locked(t) == ByResult(t) \/ ByFeed(t) \/ \E d \in Drivers : ByCleanup(d, t)
LockedFor(d, t) == ByResult(t) \/ ByFeed(t) \/ \E e \in Drivers \ {d} : ByCleanup(e, t)

-----------------------------------------------------------------------------
(* Trade-Order.                                                            *)

Submitted(t) == kind[t] = "market"

(* Mutant: customers do not wait for Trade-Cleanup.                        *)
Bug_OrderFrames(t) ==
    /\ \E d \in Drivers : driver[d] # "off"
    /\ t = seq_trade_id + 1
    /\ seq_trade_id' = t
    /\ \E k \in Types, p \in Prices :
        /\ kind' = [kind EXCEPT ![t] = k]
        /\ bid' = [bid EXCEPT ![t] = IF k = "market" THEN 0 ELSE p]
    /\ order' = [order EXCEPT ![t] = "open"]
    /\ born' = [born EXCEPT ![t] = run]
    /\ UNCHANGED <<trade, ver, request, history, settled, b_num_trades, ltVer,
                   marketVars, resultVars, feedVars, driverVars>>

(* Frames 1 to 4.  The id comes from a sequence, which a rollback does not *)
(* set back; the rows are not visible yet.  A Trade-Order that fails       *)
(* before Frame 4 leaves nothing and is not modelled.                      *)
OrderFrames(t) ==
    /\ \E d \in Drivers : driver[d] = "run"
    /\ t = seq_trade_id + 1
    /\ seq_trade_id' = t
    /\ \E k \in Types, p \in Prices :
        /\ kind' = [kind EXCEPT ![t] = k]
        /\ bid' = [bid EXCEPT ![t] = IF k = "market" THEN 0 ELSE p]
    /\ order' = [order EXCEPT ![t] = "open"]
    /\ born' = [born EXCEPT ![t] = run]
    /\ UNCHANGED <<trade, ver, request, history, settled, b_num_trades, ltVer,
                   marketVars, resultVars, feedVars, driverVars>>

(* Frame 5, or a failed statement or COMMIT.  A retry is a new order.      *)
OrderRollsBack(t) ==
    /\ order[t] = "open"
    /\ order' = [order EXCEPT ![t] = "over"]
    /\ UNCHANGED <<dbVars, born, marketVars, resultVars, feedVars, driverVars>>

(* Frame 6: the rows Frame 4 inserted.                                     *)
OrderCommits(t) ==
    /\ order[t] = "open"
    /\ LET st == IF Submitted(t) THEN "SBMT" ELSE "PNDG"
       IN  /\ trade' = [trade EXCEPT ![t] = st]
           /\ history' = history \cup {<<t, st>>}
    /\ request' = IF Submitted(t) THEN request ELSE request \cup {t}
    /\ ver' = [ver EXCEPT ![t] = 1]
    /\ order' = [order EXCEPT ![t] = "committed"]
    /\ UNCHANGED <<kind, bid, settled, b_num_trades, ltVer, seq_trade_id, born,
                   marketVars, resultVars, feedVars, driverVars>>

(* SendToMarket for one trade: it arrives, or the send fails a second time *)
(* after reconnecting, or the connection breaks with the trade in it.      *)
SendToMarket(t) ==
    \/ /\ market' = market \cup {t}
       /\ sent' = [sent EXCEPT ![t] = @ + 1]
    \/ UNCHANGED marketVars

(* The harness sends market orders to be processed; a limit order only     *)
(* tells the market to watch for its price.                                *)
OrderSends(t) ==
    /\ order[t] = "committed"
    /\ IF Submitted(t) THEN SendToMarket(t) ELSE UNCHANGED marketVars
    /\ order' = [order EXCEPT ![t] = "sent"]
    /\ UNCHANGED <<dbVars, born, resultVars, feedVars, driverVars>>

-----------------------------------------------------------------------------
(* Market-Feed.  Each of the 20 entries is a transaction of its own; a     *)
(* retry of the whole feed is a sequence of further entries.               *)

(* MFF1Q2.                                                                 *)
Triggers(t, price) ==
    \/ kind[t] = "TSL" /\ bid[t] >= price
    \/ kind[t] = "TLS" /\ bid[t] <= price
    \/ kind[t] = "TLB" /\ bid[t] >= price

(* The Market Exchange has something to report once it has received a      *)
(* trade.  BEGIN, and the snapshot that the first statement takes.         *)
FeedBegins(f) ==
    /\ feed[f] = "idle"
    /\ \E t \in Trades : born[t] = run /\ order[t] = "sent"
    /\ entries < MaxEntries
    /\ entries' = entries + 1
    /\ \E p \in Prices : quote' = [quote EXCEPT ![f] = p]
    /\ snap' = [snap EXCEPT ![f] = [request |-> request, ver |-> ver, lt |-> ltVer]]
    /\ feed' = [feed EXCEPT ![f] = "begun"]
    /\ UNCHANGED <<dbVars, orderVars, marketVars, resultVars, todo, done, driverVars>>

(* UPDATE last_trade, then the SELECT of the limit orders to trigger.      *)
FeedUpdatesLastTrade(f) ==
    /\ feed[f] = "begun"
    /\ \A g \in Feeds : feed[g] # "rows"
    /\ snap[f].lt = ltVer
    /\ todo' = [todo EXCEPT ![f] = {t \in snap[f].request : Triggers(t, quote[f])}]
    /\ feed' = [feed EXCEPT ![f] = "rows"]
    /\ UNCHANGED <<dbVars, orderVars, marketVars, resultVars, quote, snap, done, entries, driverVars>>

(* Mutant: READ COMMITTED.                                                 *)
Bug_FeedTriggers(f, t) ==
    /\ feed[f] = "rows"
    /\ t \in todo[f]
    /\ ~Locked(t)
    /\ todo' = [todo EXCEPT ![f] = @ \ {t}]
    /\ done' = [done EXCEPT ![f] = @ \cup {t}]
    /\ UNCHANGED <<dbVars, orderVars, marketVars, resultVars, feed, quote, snap, entries, driverVars>>

(* UPDATE trade, DELETE FROM trade_request and INSERT INTO trade_history   *)
(* for one limit order.                                                    *)
FeedTriggers(f, t) ==
    /\ feed[f] = "rows"
    /\ t \in todo[f]
    /\ ~Locked(t)
    /\ snap[f].ver[t] = ver[t] /\ t \in request
    /\ todo' = [todo EXCEPT ![f] = @ \ {t}]
    /\ done' = [done EXCEPT ![f] = @ \cup {t}]
    /\ UNCHANGED <<dbVars, orderVars, marketVars, resultVars, feed, quote, snap, entries, driverVars>>

(* Mutant: a triggered limit order keeps its row in trade_request.         *)
Bug_FeedCommits(f) ==
    /\ feed[f] = "rows"
    /\ todo[f] = {}
    /\ trade' = [t \in Trades |-> IF t \in done[f] THEN "SBMT" ELSE trade[t]]
    /\ ver' = [t \in Trades |-> IF t \in done[f] THEN ver[t] + 1 ELSE ver[t]]
    /\ history' = history \cup (done[f] \X {"SBMT"})
    /\ ltVer' = ltVer + 1
    /\ snap' = [snap EXCEPT ![f] = NoSnapshot]
    /\ quote' = [quote EXCEPT ![f] = 0]
    /\ feed' = [feed EXCEPT ![f] = "sending"]
    /\ UNCHANGED <<kind, bid, request, settled, b_num_trades, seq_trade_id, orderVars, marketVars,
                   resultVars, todo, done, entries, driverVars>>

FeedCommits(f) ==
    /\ feed[f] = "rows"
    /\ todo[f] = {}
    /\ trade' = [t \in Trades |-> IF t \in done[f] THEN "SBMT" ELSE trade[t]]
    /\ ver' = [t \in Trades |-> IF t \in done[f] THEN ver[t] + 1 ELSE ver[t]]
    /\ request' = request \ done[f]
    /\ history' = history \cup (done[f] \X {"SBMT"})
    /\ ltVer' = ltVer + 1
    /\ snap' = [snap EXCEPT ![f] = NoSnapshot]
    /\ quote' = [quote EXCEPT ![f] = 0]
    /\ feed' = [feed EXCEPT ![f] = "sending"]
    /\ UNCHANGED <<kind, bid, settled, b_num_trades, seq_trade_id, orderVars, marketVars,
                   resultVars, todo, done, entries, driverVars>>

(* After COMMIT the triggered orders go to the market one by one; a send   *)
(* that fails is only reported.                                            *)
FeedSends(f, t) ==
    /\ feed[f] = "sending"
    /\ t \in done[f]
    /\ SendToMarket(t)
    /\ done' = [done EXCEPT ![f] = @ \ {t}]
    /\ UNCHANGED <<dbVars, orderVars, resultVars, feed, quote, snap, todo, entries, driverVars>>

FeedEnds(f) ==
    /\ feed[f] = "sending"
    /\ done[f] = {}
    /\ feed' = [feed EXCEPT ![f] = "idle"]
    /\ UNCHANGED <<dbVars, orderVars, marketVars, resultVars, quote, snap, todo, done, entries, driverVars>>

(* A statement or the COMMIT fails.                                        *)
FeedAborts(f) ==
    /\ feed[f] \in {"begun", "rows"}
    /\ feed' = [feed EXCEPT ![f] = "idle"]
    /\ quote' = [quote EXCEPT ![f] = 0]
    /\ snap' = [snap EXCEPT ![f] = NoSnapshot]
    /\ todo' = [todo EXCEPT ![f] = {}]
    /\ done' = [done EXCEPT ![f] = {}]
    /\ UNCHANGED <<dbVars, orderVars, marketVars, resultVars, entries, driverVars>>

-----------------------------------------------------------------------------
(* The market and Trade-Result.                                            *)

(* The market has executed a trade and its Trade-Result reaches a worker,  *)
(* or the request fails and is not repeated.                               *)
MarketExecutes(t) ==
    /\ t \in market
    /\ result[t] \in {"none", "done", "over"}
    /\ market' = market \ {t}
    /\ result' = [result EXCEPT ![t] = "arrived"]
    /\ UNCHANGED <<dbVars, orderVars, sent, rver, nRetries, feedVars, driverVars>>

ResultLost(t) ==
    /\ t \in market
    /\ result[t] \in {"none", "done", "over"}
    /\ market' = market \ {t}
    /\ result' = [result EXCEPT ![t] = "over"]
    /\ UNCHANGED <<dbVars, orderVars, sent, rver, nRetries, feedVars, driverVars>>

(* Frame 1 reads the trade, without looking at its status.                 *)
ResultReads(t) ==
    /\ result[t] = "arrived"
    /\ trade[t] # "none"
    /\ rver' = [rver EXCEPT ![t] = ver[t]]
    /\ result' = [result EXCEPT ![t] = "read"]
    /\ UNCHANGED <<dbVars, orderVars, marketVars, nRetries, feedVars, driverVars>>

(* Primary keys of trade_history, settlement and cash_transaction.         *)
DuplicateKey(t) == <<t, "CMPT">> \in history \/ settled[t] > 0

(* Frames 3, 5 and 6: the trade row, its history, the broker, settlement,  *)
(* the balance and cash_transaction.                                       *)
ResultWrites(t) ==
    /\ result[t] = "read"
    /\ ~Locked(t)
    /\ rver[t] = ver[t]
    /\ ~DuplicateKey(t)
    /\ result' = [result EXCEPT ![t] = "wrote"]
    /\ UNCHANGED <<dbVars, orderVars, marketVars, rver, nRetries, feedVars, driverVars>>

(* The transaction is over, and with it what it had read.                  *)
EndResult(t) ==
    /\ rver' = [rver EXCEPT ![t] = 0]
    /\ nRetries' = [nRetries EXCEPT ![t] = 0]

(* Mutant: COMMIT before Frame 6, which may then fail.                     *)
Bug_ResultCommits(t) ==
    /\ result[t] = "wrote"
    /\ trade' = [trade EXCEPT ![t] = "CMPT"]
    /\ ver' = [ver EXCEPT ![t] = @ + 1]
    /\ history' = history \cup {<<t, "CMPT">>}
    /\ b_num_trades' = b_num_trades + 1
    /\ \/ settled' = [settled EXCEPT ![t] = @ + 1]
       \/ UNCHANGED settled
    /\ result' = [result EXCEPT ![t] = "done"]
    /\ EndResult(t)
    /\ UNCHANGED <<kind, bid, request, ltVer, seq_trade_id, orderVars, marketVars,
                   feedVars, driverVars>>

ResultCommits(t) ==
    /\ result[t] = "wrote"
    /\ trade' = [trade EXCEPT ![t] = "CMPT"]
    /\ ver' = [ver EXCEPT ![t] = @ + 1]
    /\ history' = history \cup {<<t, "CMPT">>}
    /\ b_num_trades' = b_num_trades + 1
    /\ settled' = [settled EXCEPT ![t] = @ + 1]
    /\ result' = [result EXCEPT ![t] = "done"]
    /\ EndResult(t)
    /\ UNCHANGED <<kind, bid, request, ltVer, seq_trade_id, orderVars, marketVars,
                   feedVars, driverVars>>

(* Mutants: no limit; not counted.                                         *)
Bug_ResultRetries(t) ==
    /\ result[t] \in {"read", "wrote"}
    /\ nRetries' = [nRetries EXCEPT ![t] = @ + 1]
    /\ rver' = [rver EXCEPT ![t] = 0]
    /\ result' = [result EXCEPT ![t] = "arrived"]
    /\ UNCHANGED <<dbVars, orderVars, marketVars, feedVars, driverVars>>

Bug_ResultRetriesUncounted(t) ==
    /\ result[t] \in {"read", "wrote"}
    /\ rver' = [rver EXCEPT ![t] = 0]
    /\ result' = [result EXCEPT ![t] = "arrived"]
    /\ UNCHANGED <<dbVars, orderVars, marketVars, nRetries, feedVars, driverVars>>

(* 40001 or 40P01, on this trade or on the rows of account and broker: run *)
(* again from Frame 1.                                                     *)
ResultRetries(t) ==
    /\ result[t] \in {"read", "wrote"}
    /\ nRetries[t] < iMaxRetries
    /\ nRetries' = [nRetries EXCEPT ![t] = @ + 1]
    /\ rver' = [rver EXCEPT ![t] = 0]
    /\ result' = [result EXCEPT ![t] = "arrived"]
    /\ UNCHANGED <<dbVars, orderVars, marketVars, feedVars, driverVars>>

(* Any other error, a check of the harness, or the retries are used up:    *)
(* rolled back, and nobody sends the Trade-Result again.                   *)
ResultFails(t) ==
    /\ result[t] \in {"arrived", "read", "wrote"}
    /\ result' = [result EXCEPT ![t] = "over"]
    /\ EndResult(t)
    /\ UNCHANGED <<dbVars, orderVars, marketVars, feedVars, driverVars>>

-----------------------------------------------------------------------------
(* Drivers and Trade-Cleanup.                                              *)

(* A driver process starts and asks for Trade-Cleanup first.               *)
DriverStarts(d) ==
    /\ driver[d] = "off"
    /\ driver' = [driver EXCEPT ![d] = "clean"]
    /\ UNCHANGED <<dbVars, orderVars, marketVars, resultVars, feedVars, list, wrote, deleted, tidy, run>>

(* Mutant: pending orders are not canceled.                                *)
Bug_CleanupSelectsRequests(d) ==
    /\ driver[d] = "clean"
    /\ list' = [list EXCEPT ![d] = {}]
    /\ driver' = [driver EXCEPT ![d] = "requests"]
    /\ UNCHANGED <<dbVars, orderVars, marketVars, resultVars, feedVars, wrote, deleted, tidy, run>>

(* TCF1Q1.                                                                 *)
CleanupSelectsRequests(d) ==
    /\ driver[d] = "clean"
    /\ list' = [list EXCEPT ![d] = request]
    /\ driver' = [driver EXCEPT ![d] = "requests"]
    /\ UNCHANGED <<dbVars, orderVars, marketVars, resultVars, feedVars, wrote, deleted, tidy, run>>

(* Mutant: without TCF1Q2.                                                 *)
Bug_CleanupCancelsPending(d) ==
    /\ driver[d] = "requests"
    /\ list[d] # {}
    /\ LET t == Min(list[d])
       IN  /\ ~LockedFor(d, t)
           /\ wrote' = [wrote EXCEPT ![d] = @ \cup {<<t, "CNCL">>}]
           /\ list' = [list EXCEPT ![d] = @ \ {t}]
    /\ UNCHANGED <<dbVars, orderVars, marketVars, resultVars, feedVars, driver, deleted, tidy, run>>

(* TCF1Q2 to TCF1Q4 for the next row, in the order of t_id.  The status    *)
(* of the trade is not looked at again.                                    *)
CleanupCancelsPending(d) ==
    /\ driver[d] = "requests"
    /\ list[d] # {}
    /\ LET t == Min(list[d])
       IN  /\ ~LockedFor(d, t)
           /\ wrote' = [wrote EXCEPT ![d] = @ \cup {<<t, "SBMT">>, <<t, "CNCL">>}]
           /\ list' = [list EXCEPT ![d] = @ \ {t}]
    /\ UNCHANGED <<dbVars, orderVars, marketVars, resultVars, feedVars, driver, deleted, tidy, run>>

(* Mutant: without TCF1Q5.                                                 *)
Bug_CleanupDeletesRequests(d) ==
    /\ driver[d] = "requests"
    /\ list[d] = {}
    /\ driver' = [driver EXCEPT ![d] = "deleted"]
    /\ UNCHANGED <<dbVars, orderVars, marketVars, resultVars, feedVars, list, wrote, deleted, tidy, run>>

(* TCF1Q5: every row there is, after waiting for those another             *)
(* transaction has deleted or is deleting.                                 *)
CleanupDeletesRequests(d) ==
    /\ driver[d] = "requests"
    /\ list[d] = {}
    /\ \A t \in request : ~ByFeed(t) /\ \A e \in Drivers \ {d} : t \notin deleted[e]
    /\ deleted' = [deleted EXCEPT ![d] = request]
    /\ driver' = [driver EXCEPT ![d] = "deleted"]
    /\ UNCHANGED <<dbVars, orderVars, marketVars, resultVars, feedVars, list, wrote, tidy, run>>

(* Mutant: submitted trades are left alone.                                *)
Bug_CleanupSelectsSubmitted(d) ==
    /\ driver[d] = "deleted"
    /\ list' = [list EXCEPT ![d] = {}]
    /\ driver' = [driver EXCEPT ![d] = "submitted"]
    /\ UNCHANGED <<dbVars, orderVars, marketVars, resultVars, feedVars, wrote, deleted, tidy, run>>

(* TCF1Q6.                                                                 *)
CleanupSelectsSubmitted(d) ==
    /\ driver[d] = "deleted"
    /\ list' = [list EXCEPT ![d] = {t \in Trades : trade[t] = "SBMT"} \ Canceled(d)]
    /\ driver' = [driver EXCEPT ![d] = "submitted"]
    /\ UNCHANGED <<dbVars, orderVars, marketVars, resultVars, feedVars, wrote, deleted, tidy, run>>

(* TCF1Q7 and TCF1Q8, in no particular order.                              *)
CleanupCancelsSubmitted(d, t) ==
    /\ driver[d] = "submitted"
    /\ t \in list[d]
    /\ ~LockedFor(d, t)
    /\ wrote' = [wrote EXCEPT ![d] = @ \cup {<<t, "CNCL">>}]
    /\ list' = [list EXCEPT ![d] = @ \ {t}]
    /\ UNCHANGED <<dbVars, orderVars, marketVars, resultVars, feedVars, driver, deleted, tidy, run>>

CleanupCommits(d) ==
    /\ driver[d] = "submitted"
    /\ list[d] = {}
    /\ trade' = [t \in Trades |-> IF t \in Canceled(d) THEN "CNCL" ELSE trade[t]]
    /\ ver' = [t \in Trades |-> IF t \in Canceled(d) THEN ver[t] + 1 ELSE ver[t]]
    /\ history' = history \cup wrote[d]
    /\ request' = request \ deleted[d]
    /\ wrote' = [wrote EXCEPT ![d] = {}]
    /\ deleted' = [deleted EXCEPT ![d] = {}]
    /\ driver' = [driver EXCEPT ![d] = "run"]
    /\ tidy' = [tidy EXCEPT ![d] = TRUE]
    /\ UNCHANGED <<kind, bid, settled, b_num_trades, ltVer, seq_trade_id, orderVars, marketVars,
                   resultVars, feedVars, list, run>>

(* An error: rolled back, and either run again or given up.  runTest() of  *)
(* the driver does not look at the outcome and starts its customers.       *)
CleanupFails(d) ==
    /\ driver[d] \in {"clean", "requests", "deleted", "submitted"}
    /\ driver' \in {[driver EXCEPT ![d] = "clean"], [driver EXCEPT ![d] = "run"]}
    /\ list' = [list EXCEPT ![d] = {}]
    /\ wrote' = [wrote EXCEPT ![d] = {}]
    /\ deleted' = [deleted EXCEPT ![d] = {}]
    /\ UNCHANGED <<dbVars, orderVars, marketVars, resultVars, feedVars, tidy, run>>

(* Mutant: the Market Exchange is not stopped.                             *)
Bug_KillAll ==
    /\ run < MaxRuns
    /\ run' = run + 1
    /\ order' = [t \in Trades |-> IF order[t] \in {"open", "committed"} THEN "over" ELSE order[t]]
    /\ result' = [t \in Trades |->
                   IF result[t] \in {"arrived", "read", "wrote"} THEN "over" ELSE result[t]]
    /\ feed' = [f \in Feeds |-> "idle"]
    /\ quote' = [f \in Feeds |-> 0]
    /\ snap' = [f \in Feeds |-> NoSnapshot]
    /\ todo' = [f \in Feeds |-> {}]
    /\ done' = [f \in Feeds |-> {}]
    /\ driver' = [d \in Drivers |-> "off"]
    /\ list' = [d \in Drivers |-> {}]
    /\ wrote' = [d \in Drivers |-> {}]
    /\ deleted' = [d \in Drivers |-> {}]
    /\ tidy' = [d \in Drivers |-> FALSE]
    /\ rver' = [t \in Trades |-> 0]
    /\ nRetries' = [t \in Trades |-> 0]
    /\ UNCHANGED <<dbVars, born, market, sent, entries>>

(* stop_processes: kill -9 of drivers, Market Exchange and Brokerage       *)
(* House.  Open transactions are rolled back, what the market and the      *)
(* workers had in memory is gone, and another test begins.                 *)
KillAll ==
    /\ run < MaxRuns
    /\ run' = run + 1
    /\ order' = [t \in Trades |-> IF order[t] \in {"open", "committed"} THEN "over" ELSE order[t]]
    /\ market' = {}
    /\ result' = [t \in Trades |->
                   IF result[t] \in {"arrived", "read", "wrote"} \/ t \in market THEN "over" ELSE result[t]]
    /\ feed' = [f \in Feeds |-> "idle"]
    /\ quote' = [f \in Feeds |-> 0]
    /\ snap' = [f \in Feeds |-> NoSnapshot]
    /\ todo' = [f \in Feeds |-> {}]
    /\ done' = [f \in Feeds |-> {}]
    /\ driver' = [d \in Drivers |-> "off"]
    /\ list' = [d \in Drivers |-> {}]
    /\ wrote' = [d \in Drivers |-> {}]
    /\ deleted' = [d \in Drivers |-> {}]
    /\ tidy' = [d \in Drivers |-> FALSE]
    /\ rver' = [t \in Trades |-> 0]
    /\ nRetries' = [t \in Trades |-> 0]
    /\ UNCHANGED <<dbVars, born, sent, entries>>

-----------------------------------------------------------------------------
Order(t) == OrderFrames(t) \/ OrderRollsBack(t) \/ OrderCommits(t) \/ OrderSends(t)

Feed(f) ==
    \/ FeedBegins(f) \/ FeedUpdatesLastTrade(f) \/ FeedCommits(f) \/ FeedEnds(f) \/ FeedAborts(f)
    \/ \E t \in Trades : FeedTriggers(f, t) \/ FeedSends(f, t)

Result(t) ==
    \/ MarketExecutes(t) \/ ResultLost(t) \/ ResultReads(t) \/ ResultWrites(t)
    \/ ResultCommits(t) \/ ResultRetries(t) \/ ResultFails(t)

Cleanup(d) ==
    \/ CleanupSelectsRequests(d) \/ CleanupCancelsPending(d) \/ CleanupDeletesRequests(d)
    \/ CleanupSelectsSubmitted(d) \/ CleanupCommits(d) \/ CleanupFails(d)
    \/ \E t \in Trades : CleanupCancelsSubmitted(d, t)

Next ==
    \/ \E t \in Trades : Order(t) \/ Result(t)
    \/ \E f \in Feeds : Feed(f)
    \/ \E d \in Drivers : DriverStarts(d) \/ Cleanup(d)
    \/ KillAll

(* A Trade-Result that waits for a row lock need not go on.                *)
FairResult(t) == Result(t) /\ ~(result[t] = "read" /\ Locked(t))

(* Workers are scheduled and statements return, so transactions that have  *)
(* begun end.  PostgreSQL queues those that wait for a row: a Trade-Result *)
(* whose row becomes free again and again gets it (strong fairness).       *)
Fairness ==
    /\ \A t \in Trades : SF_vars(FairResult(t))
    /\ \A f \in Feeds : WF_vars(feed[f] # "idle" /\ Feed(f))
    /\ \A d \in Drivers : WF_vars(Cleanup(d))

Spec == Init /\ [][Next]_vars /\ Fairness

-----------------------------------------------------------------------------
(* Properties.                                                             *)

(* Types of the tables and of the transactions' locals.                    *)
TypeOK ==
    /\ trade \in [Trades -> Status \cup {"none"}]
    /\ ver \in [Trades -> Nat]
    /\ kind \in [Trades -> {"market", "TLB", "TLS", "TSL"}]
    /\ bid \in [Trades -> Nat]
    /\ request \subseteq Trades
    /\ history \subseteq Trades \X Status
    /\ settled \in [Trades -> Nat]
    /\ {b_num_trades, ltVer, entries, run} \subseteq Nat
    /\ seq_trade_id \in 0..MaxTrades
    /\ order \in [Trades -> {"new", "open", "committed", "sent", "over"}]
    /\ born \in [Trades -> Nat]
    /\ market \subseteq Trades
    /\ sent \in [Trades -> Nat]
    /\ result \in [Trades -> {"none", "arrived", "read", "wrote", "done", "over"}]
    /\ rver \in [Trades -> Nat]
    /\ nRetries \in [Trades -> 0..iMaxRetries]
    /\ feed \in [Feeds -> {"idle", "begun", "rows", "sending"}]
    /\ quote \in [Feeds -> Nat]
    /\ snap \in [Feeds -> [request : SUBSET Trades, ver : [Trades -> Nat], lt : Nat]]
    /\ todo \in [Feeds -> SUBSET Trades]
    /\ done \in [Feeds -> SUBSET Trades]
    /\ driver \in [Drivers -> {"off", "clean", "requests", "deleted", "submitted", "run"}]
    /\ list \in [Drivers -> SUBSET Trades]
    /\ wrote \in [Drivers -> SUBSET (Trades \X Status)]
    /\ deleted \in [Drivers -> SUBSET Trades]
    /\ tidy \in [Drivers -> BOOLEAN]

(* A trade moves money exactly when it completes, once, whatever is        *)
(* retried, canceled or killed: the settlement, the broker's count and the *)
(* completed row in the history agree.                                     *)
SettledOnce ==
    /\ \A t \in Trades : settled[t] = IF <<t, "CMPT">> \in history THEN 1 ELSE 0
    /\ b_num_trades = Cardinality({t \in Trades : settled[t] = 1})

(* The market processes a trade at most once, and only one the database    *)
(* has as submitted: concurrent and repeated Market-Feeds do not trigger   *)
(* a limit order twice, and nothing is sent before its COMMIT.             *)
SentOnce ==
    \A t \in Trades :
        /\ sent[t] <= 1
        /\ sent[t] = 1 => <<t, "SBMT">> \in history

(* A limit order waits to be triggered only while it is pending.           *)
RequestsArePending == \A t \in request : trade[t] = "PNDG"

(* The history holds the status of every trade and how it came to it.      *)
HistoryTellsStatus ==
    \A t \in Trades :
        /\ trade[t] # "none" => <<t, trade[t]>> \in history
        /\ trade[t] \in {"CMPT", "CNCL"} => <<t, "SBMT">> \in history
        /\ kind[t] # "market" /\ trade[t] # "none" => <<t, "PNDG">> \in history

(* With one driver: every pending order can still be triggered.            *)
PendingHaveRequests == \A t \in Trades : trade[t] = "PNDG" => t \in request

(* With one driver: seen from the committed tables, the transactions of    *)
(* all sessions, their conflicts, retries, failures and kills are one of   *)
(* the few atomic steps of TradeContract or nothing.  In particular a      *)
(* final status is final, no order completes that was not submitted, and   *)
(* Trade-Cleanup cancels all that is unfinished and nothing else.          *)
Contract == INSTANCE TradeContract WITH
                status <- trade, money <- settled, brokerTrades <- b_num_trades

ImplementsContract == Contract!Spec

(* With one driver: after a Trade-Cleanup that succeeded nothing of an     *)
(* earlier, killed test is unfinished.                                     *)
CleanStart ==
    \A d \in Drivers, t \in Trades :
        tidy[d] /\ trade[t] # "none" /\ born[t] < run => trade[t] \in {"CMPT", "CNCL"}

(* Trade-Cleanup runs before the test, so no trade is canceled in the test *)
(* that ordered it.                                                        *)
TestTradesNotCanceled ==
    \A t \in Trades : born[t] = run => trade[t] # "CNCL"

(* Limit orders that are canceled, and trades that are completed, are not  *)
(* submitted again, although a Market-Feed chooses them from a snapshot    *)
(* taken before it writes them.                                            *)
NotSubmittedAgain ==
    [][\A t \in Trades : trade[t] \in {"CMPT", "CNCL"} => trade'[t] # "SBMT"]_vars

(* The Trade-Result of every trade the market has comes to an end: neither *)
(* the row locks of other transactions nor conflicts hold it up forever.   *)
ResultsEnd ==
    \A t \in Trades :
        (t \in market \/ result[t] \in {"arrived", "read", "wrote"})
            ~> (result[t] \in {"done", "over"})
=============================================================================
