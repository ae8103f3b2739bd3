-------------------------- MODULE TradeLife_proofs --------------------------
(***************************************************************************)
(* Proofs about TradeLife, for any number of trades, Market-Feeds and      *)
(* tests, in three parts: what the life of a trade keeps true although     *)
(* several drivers clean up while others already run (SafeInv); that a     *)
(* trade moves money exactly when it completes, and once (SettleInv); and, *)
(* for one driver, that the committed tables behave as TradeContract says  *)
(* (OneInv).                                                               *)
(***************************************************************************)
EXTENDS TradeLife, SetTheorems

-----------------------------------------------------------------------------
(* Any number of drivers.  None of the properties is inductive.  SafeInv   *)
(* adds what the transactions rely on without saying it: who may still     *)
(* send a trade, and which rows an open transaction has locked against the *)
(* others.                                                                 *)

(* Trade-Order: the sequence hands out every id once, and until its COMMIT *)
(* a trade has no row; a market order is submitted by that COMMIT and sent *)
(* after it.                                                               *)
OrderInv ==
    \A t \in Trades :
        /\ t > seq_trade_id => order[t] = "new"
        /\ order[t] \in {"new", "open"} => trade[t] = "none"
        /\ order[t] \in {"committed", "sent"} => trade[t] # "none"
        /\ trade[t] = "none" => t \notin request /\ sent[t] = 0
        /\ order[t] = "committed" /\ kind[t] = "market" =>
               sent[t] = 0 /\ <<t, "SBMT">> \in history

(* A row of trade_request belongs to a limit order that is pending and     *)
(* that the market has not been told to process.                           *)
RequestInv ==
    \A t \in request : trade[t] = "PNDG" /\ kind[t] # "market" /\ sent[t] = 0

(* There is no Trade-Result for a trade that was not sent.                 *)
MarketInv ==
    \A t \in Trades : sent[t] = 0 => t \notin market /\ result[t] = "none"

(* Market-Feed: the row lock on last_trade lets one entry at a time change *)
(* limit orders, and what it has changed stays as it found it until COMMIT;*)
(* after COMMIT it alone sends them.                                       *)
FeedInv ==
    /\ \A f \in Feeds : feed[f] \in {"idle", "begun"} => done[f] = {}
    /\ \A f, g \in Feeds : feed[f] = "rows" /\ feed[g] = "rows" => f = g
    /\ \A f \in Feeds : feed[f] = "rows" =>
         \A t \in done[f] : t \in request /\ \A d \in Drivers : t \notin deleted[d]
    /\ \A f \in Feeds : feed[f] = "sending" =>
         \A t \in done[f] : /\ trade[t] # "none" /\ t \notin request
                            /\ kind[t] # "market" /\ sent[t] = 0
                            /\ <<t, "SBMT">> \in history
    /\ \A f, g \in Feeds : feed[f] = "sending" /\ feed[g] = "sending" /\ f # g =>
         \A t \in done[f] : t \notin done[g]

(* Trade-Cleanup: what it cancels has a row and has been submitted, and no *)
(* longer waits in trade_request once it commits.                          *)
CleanupInv ==
    \A d \in Drivers, t \in Trades :
        /\ <<t, "CNCL">> \in wrote[d] =>
               trade[t] # "none" /\ <<t, "SBMT">> \in wrote[d] \cup history
        /\ <<t, "CNCL">> \in wrote[d] /\ driver[d] \in {"deleted", "submitted"} =>
               t \notin request \/ t \in deleted[d]
        /\ driver[d] = "requests" /\ t \in list[d] => trade[t] # "none"
        /\ driver[d] = "submitted" /\ t \in list[d] =>
               trade[t] # "none" /\ t \notin request /\ <<t, "SBMT">> \in history

SafeInv ==
    /\ TypeOK /\ OrderInv /\ RequestInv /\ MarketInv /\ FeedInv /\ CleanupInv
    /\ SentOnce /\ HistoryTellsStatus
-----------------------------------------------------------------------------
(* Type correctness.                                                       *)

(* TypeOK, split by the owner of the variables.                            *)
DbOK ==
    /\ trade \in [Trades -> Status \cup {"none"}]
    /\ ver \in [Trades -> Nat]
    /\ kind \in [Trades -> {"market", "TLB", "TLS", "TSL"}]
    /\ bid \in [Trades -> Nat]
    /\ request \subseteq Trades
    /\ history \subseteq Trades \X Status
    /\ settled \in [Trades -> Nat]
    /\ b_num_trades \in Nat
    /\ ltVer \in Nat
    /\ seq_trade_id \in 0..MaxTrades

OrderOK ==
    /\ order \in [Trades -> {"new", "open", "committed", "sent", "over"}]
    /\ born \in [Trades -> Nat]

MarketOK == market \subseteq Trades /\ sent \in [Trades -> Nat]

ResultOK ==
    /\ result \in [Trades -> {"none", "arrived", "read", "wrote", "done", "over"}]
    /\ rver \in [Trades -> Nat]
    /\ nRetries \in [Trades -> 0..iMaxRetries]

FeedOK ==
    /\ feed \in [Feeds -> {"idle", "begun", "rows", "sending"}]
    /\ quote \in [Feeds -> Nat]
    /\ snap \in [Feeds -> [request : SUBSET Trades, ver : [Trades -> Nat], lt : Nat]]
    /\ todo \in [Feeds -> SUBSET Trades]
    /\ done \in [Feeds -> SUBSET Trades]
    /\ entries \in Nat

DriverOK ==
    /\ driver \in [Drivers -> {"off", "clean", "requests", "deleted", "submitted", "run"}]
    /\ list \in [Drivers -> SUBSET Trades]
    /\ wrote \in [Drivers -> SUBSET (Trades \X Status)]
    /\ deleted \in [Drivers -> SUBSET Trades]
    /\ tidy \in [Drivers -> BOOLEAN]
    /\ run \in Nat

(* The parts make up the whole, in a state and in the next one.            *)
LEMMA TypeParts ==
    TypeOK <=> DbOK /\ OrderOK /\ MarketOK /\ ResultOK /\ FeedOK /\ DriverOK
BY DEF TypeOK, DbOK, OrderOK, MarketOK, ResultOK, FeedOK, DriverOK

(* The same for the primed variables.                                      *)
LEMMA TypePartsNext ==
    DbOK' /\ OrderOK' /\ MarketOK' /\ ResultOK' /\ FeedOK' /\ DriverOK' => TypeOK'
BY DEF TypeOK, DbOK, OrderOK, MarketOK, ResultOK, FeedOK, DriverOK

(* A step that leaves a group of variables alone leaves its types alone.   *)
LEMMA TypeFrame ==
    ASSUME TypeOK
    PROVE  /\ UNCHANGED dbVars => DbOK'
           /\ UNCHANGED orderVars => OrderOK'
           /\ UNCHANGED marketVars => MarketOK'
           /\ UNCHANGED resultVars => ResultOK'
           /\ UNCHANGED feedVars => FeedOK'
           /\ UNCHANGED driverVars => DriverOK'
<1> USE TypeParts
<1>1. UNCHANGED dbVars => DbOK'
    BY DEF dbVars, DbOK
<1>2. UNCHANGED orderVars => OrderOK'
    BY DEF orderVars, OrderOK
<1>3. UNCHANGED marketVars => MarketOK'
    BY DEF marketVars, MarketOK
<1>4. UNCHANGED resultVars => ResultOK'
    BY DEF resultVars, ResultOK
<1>5. UNCHANGED feedVars => FeedOK'
    BY DEF feedVars, FeedOK
<1>6. UNCHANGED driverVars => DriverOK'
    BY DEF driverVars, DriverOK
<1> QED BY <1>1, <1>2, <1>3, <1>4, <1>5, <1>6

(* The initial state has the types.                                        *)
LEMMA InitTypeOK == Init => TypeOK
<1> SUFFICES ASSUME Init PROVE TypeOK
    OBVIOUS
<1> USE DEF Init
<1>1. DbOK
    BY TradesAssumption DEF DbOK, Status
<1>2. OrderOK /\ MarketOK /\ ResultOK
    BY BoundsAssumption DEF OrderOK, MarketOK, ResultOK
<1>3. FeedOK
    BY DEF FeedOK, NoSnapshot
<1>4. DriverOK
    BY DEF DriverOK
<1> QED BY <1>1, <1>2, <1>3, <1>4, TypeParts

(* Every step keeps the types.  A step of a transaction changes the groups *)
(* named under it and, by TypeFrame, no other.                             *)
LEMMA TypeStep == TypeOK /\ [Next]_vars => TypeOK'
<1> SUFFICES ASSUME TypeOK, [Next]_vars PROVE TypeOK'
    OBVIOUS
<1> USE TypeParts, TypePartsNext
<1>1. ASSUME NEW t \in Trades, OrderFrames(t) PROVE TypeOK'
    <2>1. DbOK'
        <3>1. PICK k \in Types, p \in Prices :
                /\ kind' = [kind EXCEPT ![t] = k]
                /\ bid' = [bid EXCEPT ![t] = IF k = "market" THEN 0 ELSE p]
            BY <1>1 DEF OrderFrames
        <3>2. kind' \in [Trades -> {"market", "TLB", "TLS", "TSL"}] /\ bid' \in [Trades -> Nat]
            BY <3>1, TypesAssumption, PricesAssumption DEF DbOK
        <3>3. seq_trade_id' \in 0..MaxTrades
            BY <1>1, TradesAssumption DEF OrderFrames, Trades
        <3> QED BY <1>1, <3>2, <3>3 DEF OrderFrames, DbOK
    <2>2. OrderOK'
        BY <1>1 DEF OrderFrames, OrderOK, DriverOK
    <2> QED BY <1>1, <2>1, <2>2, TypeFrame DEF OrderFrames
<1>2. ASSUME NEW t \in Trades, OrderRollsBack(t) PROVE TypeOK'
    <2>1. OrderOK'
        BY <1>2 DEF OrderRollsBack, OrderOK
    <2> QED BY <1>2, <2>1, TypeFrame DEF OrderRollsBack
<1>3. ASSUME NEW t \in Trades, OrderCommits(t) PROVE TypeOK'
    <2>1. DbOK'
        BY <1>3 DEF OrderCommits, Submitted, DbOK, Status
    <2>2. OrderOK'
        BY <1>3 DEF OrderCommits, Submitted, OrderOK
    <2> QED BY <1>3, <2>1, <2>2, TypeFrame DEF OrderCommits
<1>4. ASSUME NEW t \in Trades, OrderSends(t) PROVE TypeOK'
    <2>1. MarketOK'
        BY <1>4 DEF OrderSends, SendToMarket, Submitted, MarketOK, marketVars
    <2>2. OrderOK'
        BY <1>4 DEF OrderSends, SendToMarket, Submitted, OrderOK
    <2> QED BY <1>4, <2>1, <2>2, TypeFrame DEF OrderSends
<1>5. ASSUME NEW t \in Trades, MarketExecutes(t) PROVE TypeOK'
    <2>1. MarketOK'
        BY <1>5 DEF MarketExecutes, MarketOK
    <2>2. ResultOK'
        BY <1>5 DEF MarketExecutes, ResultOK
    <2> QED BY <1>5, <2>1, <2>2, TypeFrame DEF MarketExecutes
<1>6. ASSUME NEW t \in Trades, ResultLost(t) PROVE TypeOK'
    <2>1. MarketOK'
        BY <1>6 DEF ResultLost, MarketOK
    <2>2. ResultOK'
        BY <1>6 DEF ResultLost, ResultOK
    <2> QED BY <1>6, <2>1, <2>2, TypeFrame DEF ResultLost
<1>7. ASSUME NEW t \in Trades, ResultReads(t) PROVE TypeOK'
    <2>1. ResultOK'
        BY <1>7 DEF ResultReads, ResultOK, DbOK
    <2> QED BY <1>7, <2>1, TypeFrame DEF ResultReads
<1>8. ASSUME NEW t \in Trades, ResultWrites(t) PROVE TypeOK'
    <2>1. ResultOK'
        BY <1>8 DEF ResultWrites, ResultOK
    <2> QED BY <1>8, <2>1, TypeFrame DEF ResultWrites
<1>9. ASSUME NEW t \in Trades, ResultCommits(t) PROVE TypeOK'
    <2>1. DbOK'
        BY <1>9, BoundsAssumption DEF ResultCommits, EndResult, DbOK, Status
    <2>2. ResultOK'
        BY <1>9, BoundsAssumption DEF ResultCommits, EndResult, ResultOK
    <2> QED BY <1>9, <2>1, <2>2, TypeFrame DEF ResultCommits
<1>10. ASSUME NEW t \in Trades, ResultRetries(t) PROVE TypeOK'
    <2>1. ResultOK'
        BY <1>10, BoundsAssumption DEF ResultRetries, ResultOK
    <2> QED BY <1>10, <2>1, TypeFrame DEF ResultRetries
<1>11. ASSUME NEW t \in Trades, ResultFails(t) PROVE TypeOK'
    <2>1. ResultOK'
        BY <1>11, BoundsAssumption DEF ResultFails, EndResult, ResultOK
    <2> QED BY <1>11, <2>1, TypeFrame DEF ResultFails
<1>12. ASSUME NEW f \in Feeds, FeedBegins(f) PROVE TypeOK'
    <2>1. FeedOK'
        BY <1>12, PricesAssumption DEF FeedBegins, FeedOK, DbOK
    <2> QED BY <1>12, <2>1, TypeFrame DEF FeedBegins
<1>13. ASSUME NEW f \in Feeds, FeedUpdatesLastTrade(f) PROVE TypeOK'
    <2>1. FeedOK'
        BY <1>13 DEF FeedUpdatesLastTrade, FeedOK
    <2> QED BY <1>13, <2>1, TypeFrame DEF FeedUpdatesLastTrade
<1>14. ASSUME NEW f \in Feeds, NEW t \in Trades, FeedTriggers(f, t) PROVE TypeOK'
    <2>1. FeedOK'
        BY <1>14 DEF FeedTriggers, FeedOK
    <2> QED BY <1>14, <2>1, TypeFrame DEF FeedTriggers
<1>15. ASSUME NEW f \in Feeds, FeedCommits(f) PROVE TypeOK'
    <2>1. DbOK'
        BY <1>15 DEF FeedCommits, NoSnapshot, DbOK, FeedOK, Status
    <2>2. FeedOK'
        BY <1>15 DEF FeedCommits, NoSnapshot, FeedOK
    <2> QED BY <1>15, <2>1, <2>2, TypeFrame DEF FeedCommits
<1>16. ASSUME NEW f \in Feeds, NEW t \in Trades, FeedSends(f, t) PROVE TypeOK'
    <2>1. MarketOK'
        BY <1>16 DEF FeedSends, SendToMarket, MarketOK, marketVars, FeedOK
    <2>2. FeedOK'
        BY <1>16 DEF FeedSends, SendToMarket, FeedOK
    <2> QED BY <1>16, <2>1, <2>2, TypeFrame DEF FeedSends
<1>17. ASSUME NEW f \in Feeds, FeedEnds(f) PROVE TypeOK'
    <2>1. FeedOK'
        BY <1>17 DEF FeedEnds, FeedOK
    <2> QED BY <1>17, <2>1, TypeFrame DEF FeedEnds
<1>18. ASSUME NEW f \in Feeds, FeedAborts(f) PROVE TypeOK'
    <2>1. FeedOK'
        BY <1>18 DEF FeedAborts, NoSnapshot, FeedOK
    <2> QED BY <1>18, <2>1, TypeFrame DEF FeedAborts
<1>19. ASSUME NEW d \in Drivers, DriverStarts(d) PROVE TypeOK'
    <2>1. DriverOK'
        BY <1>19 DEF DriverStarts, DriverOK, Status
    <2> QED BY <1>19, <2>1, TypeFrame DEF DriverStarts
<1>20. ASSUME NEW d \in Drivers, CleanupSelectsRequests(d) PROVE TypeOK'
    <2>1. DriverOK'
        BY <1>20 DEF CleanupSelectsRequests, DriverOK, DbOK, Status
    <2> QED BY <1>20, <2>1, TypeFrame DEF CleanupSelectsRequests
<1>21. ASSUME NEW d \in Drivers, CleanupCancelsPending(d) PROVE TypeOK'
    <2>1. DriverOK'
        BY <1>21, MinOfNaturals DEF CleanupCancelsPending, DriverOK, Trades, Status
    <2> QED BY <1>21, <2>1, TypeFrame DEF CleanupCancelsPending
<1>22. ASSUME NEW d \in Drivers, CleanupDeletesRequests(d) PROVE TypeOK'
    <2>1. DriverOK'
        BY <1>22 DEF CleanupDeletesRequests, DriverOK, DbOK, Status
    <2> QED BY <1>22, <2>1, TypeFrame DEF CleanupDeletesRequests
<1>23. ASSUME NEW d \in Drivers, CleanupSelectsSubmitted(d) PROVE TypeOK'
    <2>1. DriverOK'
        BY <1>23 DEF CleanupSelectsSubmitted, DriverOK, Status
    <2> QED BY <1>23, <2>1, TypeFrame DEF CleanupSelectsSubmitted
<1>24. ASSUME NEW d \in Drivers, NEW t \in Trades, CleanupCancelsSubmitted(d, t) PROVE TypeOK'
    <2>1. DriverOK'
        BY <1>24 DEF CleanupCancelsSubmitted, DriverOK, Status
    <2> QED BY <1>24, <2>1, TypeFrame DEF CleanupCancelsSubmitted
<1>25. ASSUME NEW d \in Drivers, CleanupCommits(d) PROVE TypeOK'
    <2>1. DbOK'
        BY <1>25 DEF CleanupCommits, DbOK, DriverOK, Canceled, Status
    <2>2. DriverOK'
        BY <1>25 DEF CleanupCommits, DriverOK, Status
    <2> QED BY <1>25, <2>1, <2>2, TypeFrame DEF CleanupCommits
<1>26. ASSUME NEW d \in Drivers, CleanupFails(d) PROVE TypeOK'
    <2>1. DriverOK'
        BY <1>26 DEF CleanupFails, DriverOK, Status
    <2> QED BY <1>26, <2>1, TypeFrame DEF CleanupFails
<1>27. CASE KillAll
    <2>1. OrderOK'
        BY <1>27, BoundsAssumption DEF KillAll, NoSnapshot, OrderOK
    <2>2. MarketOK'
        BY <1>27, BoundsAssumption DEF KillAll, NoSnapshot, MarketOK
    <2>3. ResultOK'
        BY <1>27, BoundsAssumption DEF KillAll, NoSnapshot, ResultOK
    <2>4. FeedOK'
        BY <1>27, BoundsAssumption DEF KillAll, NoSnapshot, FeedOK
    <2>5. DriverOK'
        BY <1>27, BoundsAssumption DEF KillAll, NoSnapshot, DriverOK, Status
    <2> QED BY <1>27, <2>1, <2>2, <2>3, <2>4, <2>5, TypeFrame DEF KillAll
<1>28. CASE UNCHANGED vars
    BY <1>28, TypeFrame DEF vars
<1> QED
    BY <1>1, <1>2, <1>3, <1>4, <1>5, <1>6, <1>7, <1>8, <1>9, <1>10, <1>11, <1>12, <1>13, <1>14,
       <1>15, <1>16, <1>17, <1>18, <1>19, <1>20, <1>21, <1>22, <1>23, <1>24, <1>25, <1>26, <1>27,
       <1>28
       DEF Next, Order, Feed, Result, Cleanup
-----------------------------------------------------------------------------
(* What the invariant says of the trades that a step is about to change.   *)

(* The next id of the sequence belongs to no trade yet.                    *)
LEMMA NewTrade ==
    ASSUME SafeInv, NEW t \in Trades, OrderFrames(t)
    PROVE  /\ order[t] = "new" /\ trade[t] = "none" /\ t \notin request /\ sent[t] = 0
           /\ \A u \in Trades : u > seq_trade_id' => u # t /\ order[u] = "new"
           /\ \A u \in Trades : u # t => kind'[u] = kind[u]
<1>1. t > seq_trade_id /\ \A u \in Trades : u > seq_trade_id' => u # t /\ u > seq_trade_id
    BY TradesAssumption, TypeParts DEF OrderFrames, Trades, SafeInv, DbOK
<1>2. PICK k \in Types : kind' = [kind EXCEPT ![t] = k]
    BY DEF OrderFrames
<1>3. \A u \in Trades : u # t => kind'[u] = kind[u]
    BY <1>2, TypeParts DEF SafeInv, DbOK
<1> QED BY <1>1, <1>3 DEF SafeInv, OrderInv

(* A Trade-Result exists only for a trade that was submitted and sent.     *)
LEMMA ResultOfSent ==
    ASSUME SafeInv, NEW t \in Trades, result[t] # "none"
    PROVE  sent[t] # 0 /\ trade[t] # "none" /\ t \notin request /\ <<t, "SBMT">> \in history
<1>1. sent[t] # 0 /\ sent[t] \in Nat
    BY TypeParts DEF SafeInv, MarketInv, MarketOK
<1>2. sent[t] <= 1
    BY DEF SafeInv, SentOnce
<1>3. sent[t] = 1
    BY <1>1, <1>2
<1> QED BY <1>1, <1>3 DEF SafeInv, SentOnce, OrderInv, RequestInv

(* What an entry has triggered and not committed is still pending.         *)
LEMMA TriggeredIsPending ==
    ASSUME SafeInv, NEW f \in Feeds, feed[f] = "rows", NEW t \in done[f]
    PROVE  /\ t \in Trades /\ t \in request
           /\ trade[t] = "PNDG" /\ kind[t] # "market" /\ sent[t] = 0
           /\ \A d \in Drivers : t \notin deleted[d]
<1>1. t \in request /\ \A d \in Drivers : t \notin deleted[d]
    BY DEF SafeInv, FeedInv
<1> QED BY <1>1, TypeParts DEF SafeInv, RequestInv, DbOK


(* What an entry has committed and not sent is submitted and unsent.       *)
LEMMA CommittedIsUnsent ==
    ASSUME SafeInv, NEW f \in Feeds, feed[f] = "sending", NEW t \in done[f]
    PROVE  /\ t \in Trades /\ t \notin request
           /\ trade[t] # "none" /\ kind[t] # "market" /\ sent[t] = 0
           /\ <<t, "SBMT">> \in history
BY TypeParts DEF SafeInv, FeedInv, FeedOK

(* A market order that its harness has not sent yet.                       *)
LEMMA OrderedIsUnsent ==
    ASSUME SafeInv, NEW t \in Trades, order[t] = "committed", kind[t] = "market"
    PROVE  sent[t] = 0 /\ trade[t] # "none" /\ <<t, "SBMT">> \in history
BY DEF SafeInv, OrderInv

(* The first and only send of a submitted trade.                           *)
LEMMA OneSend ==
    ASSUME SafeInv, NEW t \in Trades, sent[t] = 0, <<t, "SBMT">> \in history,
           sent' = [sent EXCEPT ![t] = @ + 1], history' = history
    PROVE  SentOnce'
<1>1. sent \in [Trades -> Nat]
    BY TypeParts DEF SafeInv, MarketOK
<1>2. sent'[t] = 1 /\ \A u \in Trades \ {t} : sent'[u] = sent[u]
    BY <1>1
<1>3. ASSUME NEW u \in Trades PROVE sent'[u] <= 1 /\ (sent'[u] = 1 => <<u, "SBMT">> \in history)
    <2>1. CASE u = t
        BY <1>2, <2>1
    <2>2. CASE u # t
        BY <1>2, <2>2 DEF SafeInv, SentOnce
    <2> QED BY <2>1, <2>2
<1> QED BY <1>3 DEF SentOnce

(* Trade-Order: only OrderCommits gives a trade its row, and no other      *)
(* transaction takes a row away.                                           *)
LEMMA OrderStep == SafeInv /\ [Next]_vars => OrderInv'
<1> SUFFICES ASSUME SafeInv, [Next]_vars PROVE OrderInv'
    OBVIOUS
<1> USE TypeParts DEF SafeInv, OrderInv, DbOK, OrderOK, MarketOK, dbVars, orderVars, marketVars,
    resultVars, feedVars, driverVars
<1>1. ASSUME NEW t \in Trades, OrderFrames(t) PROVE OrderInv'
    <2>1. UNCHANGED <<trade, request, history, sent, feedVars, driverVars>>
        BY <1>1 DEF OrderFrames
    <2>2. order' = [order EXCEPT ![t] = "open"]
        BY <1>1 DEF OrderFrames
    <2> QED BY <1>1, <2>1, <2>2, NewTrade
<1>2. ASSUME NEW t \in Trades, OrderRollsBack(t) PROVE OrderInv'
    BY <1>2 DEF OrderRollsBack
<1>3. ASSUME NEW t \in Trades, OrderCommits(t) PROVE OrderInv'
    BY <1>3 DEF OrderCommits, Submitted
<1>4. ASSUME NEW t \in Trades, OrderSends(t) PROVE OrderInv'
    BY <1>4 DEF OrderSends, SendToMarket, Submitted
<1>5. ASSUME NEW t \in Trades, MarketExecutes(t) PROVE OrderInv'
    BY <1>5 DEF MarketExecutes
<1>6. ASSUME NEW t \in Trades, ResultLost(t) PROVE OrderInv'
    BY <1>6 DEF ResultLost
<1>7. ASSUME NEW t \in Trades, ResultReads(t) PROVE OrderInv'
    BY <1>7 DEF ResultReads
<1>8. ASSUME NEW t \in Trades, ResultWrites(t) PROVE OrderInv'
    BY <1>8 DEF ResultWrites
<1>9. ASSUME NEW t \in Trades, ResultCommits(t) PROVE OrderInv'
    BY <1>9, ResultOfSent DEF ResultCommits
<1>10. ASSUME NEW t \in Trades, ResultRetries(t) PROVE OrderInv'
    BY <1>10 DEF ResultRetries
<1>11. ASSUME NEW t \in Trades, ResultFails(t) PROVE OrderInv'
    BY <1>11 DEF ResultFails, EndResult
<1>12. ASSUME NEW f \in Feeds, FeedBegins(f) PROVE OrderInv'
    BY <1>12 DEF FeedBegins
<1>13. ASSUME NEW f \in Feeds, FeedUpdatesLastTrade(f) PROVE OrderInv'
    BY <1>13 DEF FeedUpdatesLastTrade
<1>14. ASSUME NEW f \in Feeds, NEW t \in Trades, FeedTriggers(f, t) PROVE OrderInv'
    BY <1>14 DEF FeedTriggers
<1>15. ASSUME NEW f \in Feeds, FeedCommits(f) PROVE OrderInv'
    BY <1>15, TriggeredIsPending DEF FeedCommits, RequestInv
<1>16. ASSUME NEW f \in Feeds, NEW t \in Trades, FeedSends(f, t) PROVE OrderInv'
    BY <1>16, CommittedIsUnsent DEF FeedSends, SendToMarket
<1>17. ASSUME NEW f \in Feeds, FeedEnds(f) PROVE OrderInv'
    BY <1>17 DEF FeedEnds
<1>18. ASSUME NEW f \in Feeds, FeedAborts(f) PROVE OrderInv'
    BY <1>18 DEF FeedAborts
<1>19. ASSUME NEW d \in Drivers, DriverStarts(d) PROVE OrderInv'
    BY <1>19 DEF DriverStarts
<1>20. ASSUME NEW d \in Drivers, CleanupSelectsRequests(d) PROVE OrderInv'
    BY <1>20 DEF CleanupSelectsRequests
<1>21. ASSUME NEW d \in Drivers, CleanupCancelsPending(d) PROVE OrderInv'
    BY <1>21 DEF CleanupCancelsPending
<1>22. ASSUME NEW d \in Drivers, CleanupDeletesRequests(d) PROVE OrderInv'
    BY <1>22 DEF CleanupDeletesRequests
<1>23. ASSUME NEW d \in Drivers, CleanupSelectsSubmitted(d) PROVE OrderInv'
    BY <1>23 DEF CleanupSelectsSubmitted
<1>24. ASSUME NEW d \in Drivers, NEW t \in Trades, CleanupCancelsSubmitted(d, t) PROVE OrderInv'
    BY <1>24 DEF CleanupCancelsSubmitted
<1>25. ASSUME NEW d \in Drivers, CleanupCommits(d) PROVE OrderInv'
    BY <1>25 DEF CleanupCommits, CleanupInv, Canceled
<1>26. ASSUME NEW d \in Drivers, CleanupFails(d) PROVE OrderInv'
    BY <1>26 DEF CleanupFails
<1>27. CASE KillAll
    BY <1>27 DEF KillAll
<1>28. CASE UNCHANGED vars
    BY <1>28 DEF vars
<1> QED
    BY <1>1, <1>2, <1>3, <1>4, <1>5, <1>6, <1>7, <1>8, <1>9, <1>10, <1>11, <1>12, <1>13, <1>14,
       <1>15, <1>16, <1>17, <1>18, <1>19, <1>20, <1>21, <1>22, <1>23, <1>24, <1>25, <1>26, <1>27,
       <1>28
       DEF Next, Order, Feed, Result, Cleanup

(* trade_request: only Trade-Order inserts a row; whoever changes the      *)
(* trade's status deletes it in the same transaction.                      *)
LEMMA RequestStep == SafeInv /\ [Next]_vars => RequestInv'
<1> SUFFICES ASSUME SafeInv, [Next]_vars PROVE RequestInv'
    OBVIOUS
<1> USE TypeParts DEF SafeInv, RequestInv, DbOK, OrderOK, MarketOK, dbVars, orderVars,
    marketVars, resultVars, feedVars, driverVars
<1>1. ASSUME NEW t \in Trades, OrderFrames(t) PROVE RequestInv'
    BY <1>1, NewTrade DEF OrderFrames
<1>2. ASSUME NEW t \in Trades, OrderRollsBack(t) PROVE RequestInv'
    BY <1>2 DEF OrderRollsBack
<1>3. ASSUME NEW t \in Trades, OrderCommits(t) PROVE RequestInv'
    BY <1>3 DEF OrderCommits, Submitted, OrderInv
<1>4. ASSUME NEW t \in Trades, OrderSends(t) PROVE RequestInv'
    BY <1>4 DEF OrderSends, SendToMarket, Submitted
<1>5. ASSUME NEW t \in Trades, MarketExecutes(t) PROVE RequestInv'
    BY <1>5 DEF MarketExecutes
<1>6. ASSUME NEW t \in Trades, ResultLost(t) PROVE RequestInv'
    BY <1>6 DEF ResultLost
<1>7. ASSUME NEW t \in Trades, ResultReads(t) PROVE RequestInv'
    BY <1>7 DEF ResultReads
<1>8. ASSUME NEW t \in Trades, ResultWrites(t) PROVE RequestInv'
    BY <1>8 DEF ResultWrites
<1>9. ASSUME NEW t \in Trades, ResultCommits(t) PROVE RequestInv'
    BY <1>9, ResultOfSent DEF ResultCommits
<1>10. ASSUME NEW t \in Trades, ResultRetries(t) PROVE RequestInv'
    BY <1>10 DEF ResultRetries
<1>11. ASSUME NEW t \in Trades, ResultFails(t) PROVE RequestInv'
    BY <1>11 DEF ResultFails, EndResult
<1>12. ASSUME NEW f \in Feeds, FeedBegins(f) PROVE RequestInv'
    BY <1>12 DEF FeedBegins
<1>13. ASSUME NEW f \in Feeds, FeedUpdatesLastTrade(f) PROVE RequestInv'
    BY <1>13 DEF FeedUpdatesLastTrade
<1>14. ASSUME NEW f \in Feeds, NEW t \in Trades, FeedTriggers(f, t) PROVE RequestInv'
    BY <1>14 DEF FeedTriggers
<1>15. ASSUME NEW f \in Feeds, FeedCommits(f) PROVE RequestInv'
    BY <1>15 DEF FeedCommits
<1>16. ASSUME NEW f \in Feeds, NEW t \in Trades, FeedSends(f, t) PROVE RequestInv'
    BY <1>16, CommittedIsUnsent DEF FeedSends, SendToMarket
<1>17. ASSUME NEW f \in Feeds, FeedEnds(f) PROVE RequestInv'
    BY <1>17 DEF FeedEnds
<1>18. ASSUME NEW f \in Feeds, FeedAborts(f) PROVE RequestInv'
    BY <1>18 DEF FeedAborts
<1>19. ASSUME NEW d \in Drivers, DriverStarts(d) PROVE RequestInv'
    BY <1>19 DEF DriverStarts
<1>20. ASSUME NEW d \in Drivers, CleanupSelectsRequests(d) PROVE RequestInv'
    BY <1>20 DEF CleanupSelectsRequests
<1>21. ASSUME NEW d \in Drivers, CleanupCancelsPending(d) PROVE RequestInv'
    BY <1>21 DEF CleanupCancelsPending
<1>22. ASSUME NEW d \in Drivers, CleanupDeletesRequests(d) PROVE RequestInv'
    BY <1>22 DEF CleanupDeletesRequests
<1>23. ASSUME NEW d \in Drivers, CleanupSelectsSubmitted(d) PROVE RequestInv'
    BY <1>23 DEF CleanupSelectsSubmitted
<1>24. ASSUME NEW d \in Drivers, NEW t \in Trades, CleanupCancelsSubmitted(d, t) PROVE RequestInv'
    BY <1>24 DEF CleanupCancelsSubmitted
<1>25. ASSUME NEW d \in Drivers, CleanupCommits(d) PROVE RequestInv'
    BY <1>25 DEF CleanupCommits, CleanupInv, Canceled
<1>26. ASSUME NEW d \in Drivers, CleanupFails(d) PROVE RequestInv'
    BY <1>26 DEF CleanupFails
<1>27. CASE KillAll
    BY <1>27 DEF KillAll
<1>28. CASE UNCHANGED vars
    BY <1>28 DEF vars
<1> QED
    BY <1>1, <1>2, <1>3, <1>4, <1>5, <1>6, <1>7, <1>8, <1>9, <1>10, <1>11, <1>12, <1>13, <1>14,
       <1>15, <1>16, <1>17, <1>18, <1>19, <1>20, <1>21, <1>22, <1>23, <1>24, <1>25, <1>26, <1>27,
       <1>28
       DEF Next, Order, Feed, Result, Cleanup

(* The market answers only what it was sent; a kill loses what it had, and *)
(* forgets nothing that was sent.                                          *)
LEMMA MarketStep == SafeInv /\ [Next]_vars => MarketInv'
<1> SUFFICES ASSUME SafeInv, [Next]_vars PROVE MarketInv'
    OBVIOUS
<1> USE TypeParts DEF SafeInv, MarketInv, MarketOK, ResultOK, dbVars, orderVars, marketVars,
    resultVars, feedVars, driverVars
<1>1. ASSUME NEW t \in Trades, OrderFrames(t) PROVE MarketInv'
    BY <1>1 DEF OrderFrames
<1>2. ASSUME NEW t \in Trades, OrderRollsBack(t) PROVE MarketInv'
    BY <1>2 DEF OrderRollsBack
<1>3. ASSUME NEW t \in Trades, OrderCommits(t) PROVE MarketInv'
    BY <1>3 DEF OrderCommits, Submitted
<1>4. ASSUME NEW t \in Trades, OrderSends(t) PROVE MarketInv'
    BY <1>4 DEF OrderSends, SendToMarket, Submitted
<1>5. ASSUME NEW t \in Trades, MarketExecutes(t) PROVE MarketInv'
    BY <1>5 DEF MarketExecutes
<1>6. ASSUME NEW t \in Trades, ResultLost(t) PROVE MarketInv'
    BY <1>6 DEF ResultLost
<1>7. ASSUME NEW t \in Trades, ResultReads(t) PROVE MarketInv'
    BY <1>7 DEF ResultReads
<1>8. ASSUME NEW t \in Trades, ResultWrites(t) PROVE MarketInv'
    BY <1>8 DEF ResultWrites
<1>9. ASSUME NEW t \in Trades, ResultCommits(t) PROVE MarketInv'
    BY <1>9 DEF ResultCommits, EndResult
<1>10. ASSUME NEW t \in Trades, ResultRetries(t) PROVE MarketInv'
    BY <1>10 DEF ResultRetries
<1>11. ASSUME NEW t \in Trades, ResultFails(t) PROVE MarketInv'
    BY <1>11 DEF ResultFails, EndResult
<1>12. ASSUME NEW f \in Feeds, FeedBegins(f) PROVE MarketInv'
    BY <1>12 DEF FeedBegins
<1>13. ASSUME NEW f \in Feeds, FeedUpdatesLastTrade(f) PROVE MarketInv'
    BY <1>13 DEF FeedUpdatesLastTrade
<1>14. ASSUME NEW f \in Feeds, NEW t \in Trades, FeedTriggers(f, t) PROVE MarketInv'
    BY <1>14 DEF FeedTriggers
<1>15. ASSUME NEW f \in Feeds, FeedCommits(f) PROVE MarketInv'
    BY <1>15 DEF FeedCommits
<1>16. ASSUME NEW f \in Feeds, NEW t \in Trades, FeedSends(f, t) PROVE MarketInv'
    BY <1>16 DEF FeedSends, SendToMarket
<1>17. ASSUME NEW f \in Feeds, FeedEnds(f) PROVE MarketInv'
    BY <1>17 DEF FeedEnds
<1>18. ASSUME NEW f \in Feeds, FeedAborts(f) PROVE MarketInv'
    BY <1>18 DEF FeedAborts
<1>19. ASSUME NEW d \in Drivers, DriverStarts(d) PROVE MarketInv'
    BY <1>19 DEF DriverStarts
<1>20. ASSUME NEW d \in Drivers, CleanupSelectsRequests(d) PROVE MarketInv'
    BY <1>20 DEF CleanupSelectsRequests
<1>21. ASSUME NEW d \in Drivers, CleanupCancelsPending(d) PROVE MarketInv'
    BY <1>21 DEF CleanupCancelsPending
<1>22. ASSUME NEW d \in Drivers, CleanupDeletesRequests(d) PROVE MarketInv'
    BY <1>22 DEF CleanupDeletesRequests
<1>23. ASSUME NEW d \in Drivers, CleanupSelectsSubmitted(d) PROVE MarketInv'
    BY <1>23 DEF CleanupSelectsSubmitted
<1>24. ASSUME NEW d \in Drivers, NEW t \in Trades, CleanupCancelsSubmitted(d, t) PROVE MarketInv'
    BY <1>24 DEF CleanupCancelsSubmitted
<1>25. ASSUME NEW d \in Drivers, CleanupCommits(d) PROVE MarketInv'
    BY <1>25 DEF CleanupCommits
<1>26. ASSUME NEW d \in Drivers, CleanupFails(d) PROVE MarketInv'
    BY <1>26 DEF CleanupFails
<1>27. CASE KillAll
    BY <1>27 DEF KillAll
<1>28. CASE UNCHANGED vars
    BY <1>28 DEF vars
<1> QED
    BY <1>1, <1>2, <1>3, <1>4, <1>5, <1>6, <1>7, <1>8, <1>9, <1>10, <1>11, <1>12, <1>13, <1>14,
       <1>15, <1>16, <1>17, <1>18, <1>19, <1>20, <1>21, <1>22, <1>23, <1>24, <1>25, <1>26, <1>27,
       <1>28
       DEF Next, Order, Feed, Result, Cleanup

(* Market-Feed: FeedTriggers locks what it changes, so no Trade-Cleanup    *)
(* deletes the request under it; FeedCommits hands the orders on to be     *)
(* sent once.                                                              *)
LEMMA FeedStep == SafeInv /\ [Next]_vars => FeedInv'
<1> SUFFICES ASSUME SafeInv, [Next]_vars PROVE FeedInv'
    OBVIOUS
<1> USE TypeParts DEF SafeInv, FeedInv, DbOK, MarketOK, FeedOK, DriverOK, dbVars, orderVars,
    marketVars, resultVars, feedVars, driverVars
<1>1. ASSUME NEW t \in Trades, OrderFrames(t) PROVE FeedInv'
    <2>1. UNCHANGED <<trade, request, history, sent, feedVars, driverVars>>
        BY <1>1 DEF OrderFrames
    <2>2. order' = [order EXCEPT ![t] = "open"]
        BY <1>1 DEF OrderFrames
    <2> QED BY <1>1, <2>1, <2>2, NewTrade
<1>2. ASSUME NEW t \in Trades, OrderRollsBack(t) PROVE FeedInv'
    BY <1>2 DEF OrderRollsBack
<1>3. ASSUME NEW t \in Trades, OrderCommits(t) PROVE FeedInv'
    BY <1>3 DEF OrderCommits, Submitted, OrderInv
<1>4. ASSUME NEW t \in Trades, OrderSends(t) PROVE FeedInv'
    BY <1>4 DEF OrderSends, SendToMarket, Submitted
<1>5. ASSUME NEW t \in Trades, MarketExecutes(t) PROVE FeedInv'
    BY <1>5 DEF MarketExecutes
<1>6. ASSUME NEW t \in Trades, ResultLost(t) PROVE FeedInv'
    BY <1>6 DEF ResultLost
<1>7. ASSUME NEW t \in Trades, ResultReads(t) PROVE FeedInv'
    BY <1>7 DEF ResultReads
<1>8. ASSUME NEW t \in Trades, ResultWrites(t) PROVE FeedInv'
    BY <1>8 DEF ResultWrites
<1>9. ASSUME NEW t \in Trades, ResultCommits(t) PROVE FeedInv'
    BY <1>9 DEF ResultCommits, EndResult
<1>10. ASSUME NEW t \in Trades, ResultRetries(t) PROVE FeedInv'
    BY <1>10 DEF ResultRetries
<1>11. ASSUME NEW t \in Trades, ResultFails(t) PROVE FeedInv'
    BY <1>11 DEF ResultFails, EndResult
<1>12. ASSUME NEW f \in Feeds, FeedBegins(f) PROVE FeedInv'
    BY <1>12 DEF FeedBegins
<1>13. ASSUME NEW f \in Feeds, FeedUpdatesLastTrade(f) PROVE FeedInv'
    BY <1>13 DEF FeedUpdatesLastTrade
<1>14. ASSUME NEW f \in Feeds, NEW t \in Trades, FeedTriggers(f, t) PROVE FeedInv'
    BY <1>14 DEF FeedTriggers, Locked, ByCleanup
<1>15. ASSUME NEW f \in Feeds, FeedCommits(f) PROVE FeedInv'
    <2>1. /\ feed' = [feed EXCEPT ![f] = "sending"] /\ feed[f] = "rows"
          /\ request' = request \ done[f]
          /\ history' = history \cup (done[f] \X {"SBMT"})
          /\ UNCHANGED <<kind, sent, done, deleted>>
          /\ \A u \in Trades : trade[u] # "none" => trade'[u] # "none"
          /\ \A u \in done[f] : trade'[u] = "SBMT"
        BY <1>15, TriggeredIsPending DEF FeedCommits
    <2>2. \A g \in Feeds : feed'[g] = "rows" => FALSE
        BY <2>1
    <2>3. ASSUME NEW g \in Feeds, feed'[g] = "sending", NEW u \in done'[g]
          PROVE  /\ trade'[u] # "none" /\ u \notin request'
                 /\ kind'[u] # "market" /\ sent'[u] = 0
                 /\ <<u, "SBMT">> \in history'
        <3>1. CASE g = f
            BY <2>1, <2>3, <3>1, TriggeredIsPending
        <3>2. CASE g # f
            BY <2>1, <2>3, <3>2, CommittedIsUnsent
        <3> QED BY <3>1, <3>2
    <2>4. ASSUME NEW g \in Feeds, NEW h \in Feeds, feed'[g] = "sending", feed'[h] = "sending",
                 g # h, NEW u \in done'[g]
          PROVE  u \notin done'[h]
        <3>1. \A u1 \in done[f] : u1 \in request
            BY <2>1
        <3>2. \A g1 \in Feeds \ {f} : feed'[g1] = "sending" => feed[g1] = "sending"
            BY <2>1
        <3> QED BY <2>1, <2>4, <3>1, <3>2
    <2>5. \A g \in Feeds : feed'[g] \in {"idle", "begun"} => done'[g] = {}
        BY <2>1
    <2> QED BY <2>2, <2>3, <2>4, <2>5
<1>16. ASSUME NEW f \in Feeds, NEW t \in Trades, FeedSends(f, t) PROVE FeedInv'
    BY <1>16 DEF FeedSends, SendToMarket
<1>17. ASSUME NEW f \in Feeds, FeedEnds(f) PROVE FeedInv'
    BY <1>17 DEF FeedEnds
<1>18. ASSUME NEW f \in Feeds, FeedAborts(f) PROVE FeedInv'
    BY <1>18 DEF FeedAborts
<1>19. ASSUME NEW d \in Drivers, DriverStarts(d) PROVE FeedInv'
    BY <1>19 DEF DriverStarts
<1>20. ASSUME NEW d \in Drivers, CleanupSelectsRequests(d) PROVE FeedInv'
    BY <1>20 DEF CleanupSelectsRequests
<1>21. ASSUME NEW d \in Drivers, CleanupCancelsPending(d) PROVE FeedInv'
    BY <1>21 DEF CleanupCancelsPending
<1>22. ASSUME NEW d \in Drivers, CleanupDeletesRequests(d) PROVE FeedInv'
    BY <1>22 DEF CleanupDeletesRequests, ByFeed
<1>23. ASSUME NEW d \in Drivers, CleanupSelectsSubmitted(d) PROVE FeedInv'
    BY <1>23 DEF CleanupSelectsSubmitted
<1>24. ASSUME NEW d \in Drivers, NEW t \in Trades, CleanupCancelsSubmitted(d, t) PROVE FeedInv'
    BY <1>24 DEF CleanupCancelsSubmitted
<1>25. ASSUME NEW d \in Drivers, CleanupCommits(d) PROVE FeedInv'
    BY <1>25 DEF CleanupCommits
<1>26. ASSUME NEW d \in Drivers, CleanupFails(d) PROVE FeedInv'
    BY <1>26 DEF CleanupFails
<1>27. CASE KillAll
    BY <1>27 DEF KillAll
<1>28. CASE UNCHANGED vars
    BY <1>28 DEF vars
<1> QED
    BY <1>1, <1>2, <1>3, <1>4, <1>5, <1>6, <1>7, <1>8, <1>9, <1>10, <1>11, <1>12, <1>13, <1>14,
       <1>15, <1>16, <1>17, <1>18, <1>19, <1>20, <1>21, <1>22, <1>23, <1>24, <1>25, <1>26, <1>27,
       <1>28
       DEF Next, Order, Feed, Result, Cleanup

(* Trade-Cleanup: the rows it selected were committed, and committed rows  *)
(* stay.                                                                   *)
LEMMA CleanupStep == SafeInv /\ [Next]_vars => CleanupInv'
<1> SUFFICES ASSUME SafeInv, [Next]_vars PROVE CleanupInv'
    OBVIOUS
<1> USE TypeParts DEF SafeInv, CleanupInv, DbOK, OrderOK, DriverOK, dbVars, orderVars,
    marketVars, resultVars, feedVars, driverVars
<1>1. ASSUME NEW t \in Trades, OrderFrames(t) PROVE CleanupInv'
    BY <1>1 DEF OrderFrames
<1>2. ASSUME NEW t \in Trades, OrderRollsBack(t) PROVE CleanupInv'
    BY <1>2 DEF OrderRollsBack
<1>3. ASSUME NEW t \in Trades, OrderCommits(t) PROVE CleanupInv'
    BY <1>3 DEF OrderCommits, Submitted, OrderInv
<1>4. ASSUME NEW t \in Trades, OrderSends(t) PROVE CleanupInv'
    BY <1>4 DEF OrderSends, SendToMarket, Submitted
<1>5. ASSUME NEW t \in Trades, MarketExecutes(t) PROVE CleanupInv'
    BY <1>5 DEF MarketExecutes
<1>6. ASSUME NEW t \in Trades, ResultLost(t) PROVE CleanupInv'
    BY <1>6 DEF ResultLost
<1>7. ASSUME NEW t \in Trades, ResultReads(t) PROVE CleanupInv'
    BY <1>7 DEF ResultReads
<1>8. ASSUME NEW t \in Trades, ResultWrites(t) PROVE CleanupInv'
    BY <1>8 DEF ResultWrites
<1>9. ASSUME NEW t \in Trades, ResultCommits(t) PROVE CleanupInv'
    BY <1>9 DEF ResultCommits, EndResult
<1>10. ASSUME NEW t \in Trades, ResultRetries(t) PROVE CleanupInv'
    BY <1>10 DEF ResultRetries
<1>11. ASSUME NEW t \in Trades, ResultFails(t) PROVE CleanupInv'
    BY <1>11 DEF ResultFails, EndResult
<1>12. ASSUME NEW f \in Feeds, FeedBegins(f) PROVE CleanupInv'
    BY <1>12 DEF FeedBegins
<1>13. ASSUME NEW f \in Feeds, FeedUpdatesLastTrade(f) PROVE CleanupInv'
    BY <1>13 DEF FeedUpdatesLastTrade
<1>14. ASSUME NEW f \in Feeds, NEW t \in Trades, FeedTriggers(f, t) PROVE CleanupInv'
    BY <1>14 DEF FeedTriggers
<1>15. ASSUME NEW f \in Feeds, FeedCommits(f) PROVE CleanupInv'
    BY <1>15 DEF FeedCommits
<1>16. ASSUME NEW f \in Feeds, NEW t \in Trades, FeedSends(f, t) PROVE CleanupInv'
    BY <1>16 DEF FeedSends, SendToMarket
<1>17. ASSUME NEW f \in Feeds, FeedEnds(f) PROVE CleanupInv'
    BY <1>17 DEF FeedEnds
<1>18. ASSUME NEW f \in Feeds, FeedAborts(f) PROVE CleanupInv'
    BY <1>18 DEF FeedAborts
<1>19. ASSUME NEW d \in Drivers, DriverStarts(d) PROVE CleanupInv'
    BY <1>19 DEF DriverStarts
<1>20. ASSUME NEW d \in Drivers, CleanupSelectsRequests(d) PROVE CleanupInv'
    BY <1>20 DEF CleanupSelectsRequests, RequestInv
<1>21. ASSUME NEW d \in Drivers, CleanupCancelsPending(d) PROVE CleanupInv'
    <2> DEFINE u == Min(list[d])
    <2>1. u \in list[d] /\ u \in Trades
        <3>1. list[d] \subseteq Nat /\ list[d] \subseteq Trades /\ list[d] # {}
            BY <1>21 DEF CleanupCancelsPending, Trades
        <3> QED BY <3>1, MinOfNaturals
    <2>2. /\ wrote' = [wrote EXCEPT ![d] = @ \cup {<<u, "SBMT">>, <<u, "CNCL">>}]
          /\ list' = [list EXCEPT ![d] = @ \ {u}]
          /\ driver[d] = "requests"
        BY <1>21 DEF CleanupCancelsPending
    <2> HIDE DEF u
    <2>3. ASSUME NEW e \in Drivers, NEW v \in Trades
          PROVE  /\ <<v, "SBMT">> \in wrote[e] => <<v, "SBMT">> \in wrote'[e]
                 /\ <<v, "CNCL">> \in wrote'[e] =>
                        \/ <<v, "CNCL">> \in wrote[e]
                        \/ v = u /\ e = d /\ <<v, "SBMT">> \in wrote'[e]
                 /\ list'[e] \subseteq list[e]
        BY <2>2
    <2>4. UNCHANGED <<trade, request, history, driver, deleted>>
        BY <1>21 DEF CleanupCancelsPending
    <2> QED BY <2>1, <2>2, <2>3, <2>4
<1>22. ASSUME NEW d \in Drivers, CleanupDeletesRequests(d) PROVE CleanupInv'
    BY <1>22 DEF CleanupDeletesRequests
<1>23. ASSUME NEW d \in Drivers, CleanupSelectsSubmitted(d) PROVE CleanupInv'
    BY <1>23 DEF CleanupSelectsSubmitted, RequestInv, HistoryTellsStatus, Canceled
<1>24. ASSUME NEW d \in Drivers, NEW t \in Trades, CleanupCancelsSubmitted(d, t) PROVE CleanupInv'
    BY <1>24 DEF CleanupCancelsSubmitted
<1>25. ASSUME NEW d \in Drivers, CleanupCommits(d) PROVE CleanupInv'
    BY <1>25 DEF CleanupCommits
<1>26. ASSUME NEW d \in Drivers, CleanupFails(d) PROVE CleanupInv'
    BY <1>26 DEF CleanupFails
<1>27. CASE KillAll
    BY <1>27 DEF KillAll
<1>28. CASE UNCHANGED vars
    BY <1>28 DEF vars
<1> QED
    BY <1>1, <1>2, <1>3, <1>4, <1>5, <1>6, <1>7, <1>8, <1>9, <1>10, <1>11, <1>12, <1>13, <1>14,
       <1>15, <1>16, <1>17, <1>18, <1>19, <1>20, <1>21, <1>22, <1>23, <1>24, <1>25, <1>26, <1>27,
       <1>28
       DEF Next, Order, Feed, Result, Cleanup

(* The only two places that send are entered with a trade that was not     *)
(* sent.                                                                   *)
LEMMA SentStep == SafeInv /\ [Next]_vars => SentOnce'
<1> SUFFICES ASSUME SafeInv, [Next]_vars PROVE SentOnce'
    OBVIOUS
<1> USE TypeParts DEF SafeInv, SentOnce, DbOK, MarketOK, dbVars, orderVars, marketVars,
    resultVars, feedVars, driverVars
<1>1. ASSUME NEW t \in Trades, OrderFrames(t) PROVE SentOnce'
    BY <1>1 DEF OrderFrames
<1>2. ASSUME NEW t \in Trades, OrderRollsBack(t) PROVE SentOnce'
    BY <1>2 DEF OrderRollsBack
<1>3. ASSUME NEW t \in Trades, OrderCommits(t) PROVE SentOnce'
    BY <1>3 DEF OrderCommits, Submitted
<1>4. ASSUME NEW t \in Trades, OrderSends(t) PROVE SentOnce'
    <2>1. CASE Submitted(t) /\ sent' = [sent EXCEPT ![t] = @ + 1]
        <3>1. sent[t] = 0 /\ <<t, "SBMT">> \in history
            BY <1>4, <2>1, OrderedIsUnsent DEF OrderSends, Submitted
        <3> QED BY <1>4, <2>1, <3>1, OneSend DEF OrderSends
    <2>2. CASE UNCHANGED sent
        BY <1>4, <2>2 DEF OrderSends
    <2> QED BY <1>4, <2>1, <2>2 DEF OrderSends, SendToMarket
<1>5. ASSUME NEW t \in Trades, MarketExecutes(t) PROVE SentOnce'
    BY <1>5 DEF MarketExecutes
<1>6. ASSUME NEW t \in Trades, ResultLost(t) PROVE SentOnce'
    BY <1>6 DEF ResultLost
<1>7. ASSUME NEW t \in Trades, ResultReads(t) PROVE SentOnce'
    BY <1>7 DEF ResultReads
<1>8. ASSUME NEW t \in Trades, ResultWrites(t) PROVE SentOnce'
    BY <1>8 DEF ResultWrites
<1>9. ASSUME NEW t \in Trades, ResultCommits(t) PROVE SentOnce'
    BY <1>9 DEF ResultCommits, EndResult
<1>10. ASSUME NEW t \in Trades, ResultRetries(t) PROVE SentOnce'
    BY <1>10 DEF ResultRetries
<1>11. ASSUME NEW t \in Trades, ResultFails(t) PROVE SentOnce'
    BY <1>11 DEF ResultFails, EndResult
<1>12. ASSUME NEW f \in Feeds, FeedBegins(f) PROVE SentOnce'
    BY <1>12 DEF FeedBegins
<1>13. ASSUME NEW f \in Feeds, FeedUpdatesLastTrade(f) PROVE SentOnce'
    BY <1>13 DEF FeedUpdatesLastTrade
<1>14. ASSUME NEW f \in Feeds, NEW t \in Trades, FeedTriggers(f, t) PROVE SentOnce'
    BY <1>14 DEF FeedTriggers
<1>15. ASSUME NEW f \in Feeds, FeedCommits(f) PROVE SentOnce'
    BY <1>15 DEF FeedCommits
<1>16. ASSUME NEW f \in Feeds, NEW t \in Trades, FeedSends(f, t) PROVE SentOnce'
    <2>1. CASE sent' = [sent EXCEPT ![t] = @ + 1]
        <3>1. sent[t] = 0 /\ <<t, "SBMT">> \in history
            BY <1>16, CommittedIsUnsent DEF FeedSends
        <3> QED BY <1>16, <2>1, <3>1, OneSend DEF FeedSends
    <2>2. CASE UNCHANGED sent
        BY <1>16, <2>2 DEF FeedSends
    <2> QED BY <1>16, <2>1, <2>2 DEF FeedSends, SendToMarket
<1>17. ASSUME NEW f \in Feeds, FeedEnds(f) PROVE SentOnce'
    BY <1>17 DEF FeedEnds
<1>18. ASSUME NEW f \in Feeds, FeedAborts(f) PROVE SentOnce'
    BY <1>18 DEF FeedAborts
<1>19. ASSUME NEW d \in Drivers, DriverStarts(d) PROVE SentOnce'
    BY <1>19 DEF DriverStarts
<1>20. ASSUME NEW d \in Drivers, CleanupSelectsRequests(d) PROVE SentOnce'
    BY <1>20 DEF CleanupSelectsRequests
<1>21. ASSUME NEW d \in Drivers, CleanupCancelsPending(d) PROVE SentOnce'
    BY <1>21 DEF CleanupCancelsPending
<1>22. ASSUME NEW d \in Drivers, CleanupDeletesRequests(d) PROVE SentOnce'
    BY <1>22 DEF CleanupDeletesRequests
<1>23. ASSUME NEW d \in Drivers, CleanupSelectsSubmitted(d) PROVE SentOnce'
    BY <1>23 DEF CleanupSelectsSubmitted
<1>24. ASSUME NEW d \in Drivers, NEW t \in Trades, CleanupCancelsSubmitted(d, t) PROVE SentOnce'
    BY <1>24 DEF CleanupCancelsSubmitted
<1>25. ASSUME NEW d \in Drivers, CleanupCommits(d) PROVE SentOnce'
    BY <1>25 DEF CleanupCommits
<1>26. ASSUME NEW d \in Drivers, CleanupFails(d) PROVE SentOnce'
    BY <1>26 DEF CleanupFails
<1>27. CASE KillAll
    BY <1>27 DEF KillAll
<1>28. CASE UNCHANGED vars
    BY <1>28 DEF vars
<1> QED
    BY <1>1, <1>2, <1>3, <1>4, <1>5, <1>6, <1>7, <1>8, <1>9, <1>10, <1>11, <1>12, <1>13, <1>14,
       <1>15, <1>16, <1>17, <1>18, <1>19, <1>20, <1>21, <1>22, <1>23, <1>24, <1>25, <1>26, <1>27,
       <1>28
       DEF Next, Order, Feed, Result, Cleanup

(* The transaction that changes a status inserts the row of trade_history  *)
(* that tells it.                                                          *)
LEMMA HistoryStep == SafeInv /\ [Next]_vars => HistoryTellsStatus'
<1> SUFFICES ASSUME SafeInv, [Next]_vars PROVE HistoryTellsStatus'
    OBVIOUS
<1> USE TypeParts DEF SafeInv, HistoryTellsStatus, DbOK, OrderOK, dbVars, orderVars, marketVars,
    resultVars, feedVars, driverVars
<1>1. ASSUME NEW t \in Trades, OrderFrames(t) PROVE HistoryTellsStatus'
    BY <1>1, NewTrade DEF OrderFrames
<1>2. ASSUME NEW t \in Trades, OrderRollsBack(t) PROVE HistoryTellsStatus'
    BY <1>2 DEF OrderRollsBack
<1>3. ASSUME NEW t \in Trades, OrderCommits(t) PROVE HistoryTellsStatus'
    BY <1>3 DEF OrderCommits, Submitted
<1>4. ASSUME NEW t \in Trades, OrderSends(t) PROVE HistoryTellsStatus'
    BY <1>4 DEF OrderSends, SendToMarket, Submitted
<1>5. ASSUME NEW t \in Trades, MarketExecutes(t) PROVE HistoryTellsStatus'
    BY <1>5 DEF MarketExecutes
<1>6. ASSUME NEW t \in Trades, ResultLost(t) PROVE HistoryTellsStatus'
    BY <1>6 DEF ResultLost
<1>7. ASSUME NEW t \in Trades, ResultReads(t) PROVE HistoryTellsStatus'
    BY <1>7 DEF ResultReads
<1>8. ASSUME NEW t \in Trades, ResultWrites(t) PROVE HistoryTellsStatus'
    BY <1>8 DEF ResultWrites
<1>9. ASSUME NEW t \in Trades, ResultCommits(t) PROVE HistoryTellsStatus'
    BY <1>9, ResultOfSent DEF ResultCommits
<1>10. ASSUME NEW t \in Trades, ResultRetries(t) PROVE HistoryTellsStatus'
    BY <1>10 DEF ResultRetries
<1>11. ASSUME NEW t \in Trades, ResultFails(t) PROVE HistoryTellsStatus'
    BY <1>11 DEF ResultFails, EndResult
<1>12. ASSUME NEW f \in Feeds, FeedBegins(f) PROVE HistoryTellsStatus'
    BY <1>12 DEF FeedBegins
<1>13. ASSUME NEW f \in Feeds, FeedUpdatesLastTrade(f) PROVE HistoryTellsStatus'
    BY <1>13 DEF FeedUpdatesLastTrade
<1>14. ASSUME NEW f \in Feeds, NEW t \in Trades, FeedTriggers(f, t) PROVE HistoryTellsStatus'
    BY <1>14 DEF FeedTriggers
<1>15. ASSUME NEW f \in Feeds, FeedCommits(f) PROVE HistoryTellsStatus'
    BY <1>15, TriggeredIsPending DEF FeedCommits
<1>16. ASSUME NEW f \in Feeds, NEW t \in Trades, FeedSends(f, t) PROVE HistoryTellsStatus'
    BY <1>16 DEF FeedSends, SendToMarket
<1>17. ASSUME NEW f \in Feeds, FeedEnds(f) PROVE HistoryTellsStatus'
    BY <1>17 DEF FeedEnds
<1>18. ASSUME NEW f \in Feeds, FeedAborts(f) PROVE HistoryTellsStatus'
    BY <1>18 DEF FeedAborts
<1>19. ASSUME NEW d \in Drivers, DriverStarts(d) PROVE HistoryTellsStatus'
    BY <1>19 DEF DriverStarts
<1>20. ASSUME NEW d \in Drivers, CleanupSelectsRequests(d) PROVE HistoryTellsStatus'
    BY <1>20 DEF CleanupSelectsRequests
<1>21. ASSUME NEW d \in Drivers, CleanupCancelsPending(d) PROVE HistoryTellsStatus'
    BY <1>21 DEF CleanupCancelsPending
<1>22. ASSUME NEW d \in Drivers, CleanupDeletesRequests(d) PROVE HistoryTellsStatus'
    BY <1>22 DEF CleanupDeletesRequests
<1>23. ASSUME NEW d \in Drivers, CleanupSelectsSubmitted(d) PROVE HistoryTellsStatus'
    BY <1>23 DEF CleanupSelectsSubmitted
<1>24. ASSUME NEW d \in Drivers, NEW t \in Trades, CleanupCancelsSubmitted(d, t) PROVE HistoryTellsStatus'
    BY <1>24 DEF CleanupCancelsSubmitted
<1>25. ASSUME NEW d \in Drivers, CleanupCommits(d) PROVE HistoryTellsStatus'
    BY <1>25 DEF CleanupCommits, CleanupInv, Canceled
<1>26. ASSUME NEW d \in Drivers, CleanupFails(d) PROVE HistoryTellsStatus'
    BY <1>26 DEF CleanupFails
<1>27. CASE KillAll
    BY <1>27 DEF KillAll
<1>28. CASE UNCHANGED vars
    BY <1>28 DEF vars
<1> QED
    BY <1>1, <1>2, <1>3, <1>4, <1>5, <1>6, <1>7, <1>8, <1>9, <1>10, <1>11, <1>12, <1>13, <1>14,
       <1>15, <1>16, <1>17, <1>18, <1>19, <1>20, <1>21, <1>22, <1>23, <1>24, <1>25, <1>26, <1>27,
       <1>28
       DEF Next, Order, Feed, Result, Cleanup

-----------------------------------------------------------------------------
(* The four transactions that change a trade, its history or its money, at *)
(* their COMMIT.                                                           *)
LEMMA TableWriters ==
    ASSUME [Next]_vars
    PROVE  \/ UNCHANGED <<trade, history, settled, b_num_trades>>
           \/ \E t \in Trades : OrderCommits(t) \/ ResultCommits(t)
           \/ \E f \in Feeds : FeedCommits(f)
           \/ \E d \in Drivers : CleanupCommits(d)
<1> USE DEF dbVars
<1>1. ASSUME NEW t \in Trades, Order(t), ~OrderCommits(t)
      PROVE  UNCHANGED <<trade, history, settled, b_num_trades>>
    BY <1>1 DEF Order, OrderFrames, OrderRollsBack, OrderSends
<1>2. ASSUME NEW t \in Trades, Result(t), ~ResultCommits(t)
      PROVE  UNCHANGED <<trade, history, settled, b_num_trades>>
    BY <1>2 DEF Result, MarketExecutes, ResultLost, ResultReads, ResultWrites,
                ResultRetries, ResultFails
<1>3. ASSUME NEW f \in Feeds, Feed(f), ~FeedCommits(f)
      PROVE  UNCHANGED <<trade, history, settled, b_num_trades>>
    BY <1>3 DEF Feed, FeedBegins, FeedUpdatesLastTrade, FeedTriggers, FeedSends,
                FeedEnds, FeedAborts
<1>4. ASSUME NEW d \in Drivers, DriverStarts(d) \/ Cleanup(d), ~CleanupCommits(d)
      PROVE  UNCHANGED <<trade, history, settled, b_num_trades>>
    BY <1>4 DEF DriverStarts, Cleanup, CleanupSelectsRequests, CleanupCancelsPending,
                CleanupDeletesRequests, CleanupSelectsSubmitted, CleanupCancelsSubmitted,
                CleanupFails
<1>5. CASE KillAll \/ UNCHANGED vars
    BY <1>5 DEF KillAll, vars
<1> QED BY <1>1, <1>2, <1>3, <1>4, <1>5 DEF Next

(* What is completed or canceled is not made submitted by any of them.     *)
LEMMA NoResubmission ==
    ASSUME SafeInv, [Next]_vars, NEW t \in Trades, trade[t] \in {"CMPT", "CNCL"}
    PROVE  trade'[t] # "SBMT"
<1> USE TypeParts DEF SafeInv, DbOK
<1>1. ASSUME NEW u \in Trades, OrderCommits(u) PROVE trade'[t] # "SBMT"
    <2>1. trade[u] = "none"
        BY <1>1 DEF OrderCommits, OrderInv
    <2> QED BY <1>1, <2>1 DEF OrderCommits
<1>2. ASSUME NEW u \in Trades, ResultCommits(u) PROVE trade'[t] # "SBMT"
    BY <1>2 DEF ResultCommits
<1>3. ASSUME NEW f \in Feeds, FeedCommits(f) PROVE trade'[t] # "SBMT"
    BY <1>3, TriggeredIsPending DEF FeedCommits
<1>4. ASSUME NEW d \in Drivers, CleanupCommits(d) PROVE trade'[t] # "SBMT"
    BY <1>4 DEF CleanupCommits
<1> QED BY <1>1, <1>2, <1>3, <1>4, TableWriters

(* The initial state has no trades.                                        *)
LEMMA InitSafeInv == Init => SafeInv
<1> SUFFICES ASSUME Init PROVE SafeInv
    OBVIOUS
<1>1. TypeOK
    BY InitTypeOK
<1>2. OrderInv /\ RequestInv /\ MarketInv /\ SentOnce /\ HistoryTellsStatus
    BY DEF Init, OrderInv, RequestInv, MarketInv, SentOnce, HistoryTellsStatus
<1>3. FeedInv /\ CleanupInv
    BY DEF Init, FeedInv, CleanupInv
<1> QED BY <1>1, <1>2, <1>3 DEF SafeInv

(* The invariant is inductive.                                             *)
LEMMA SafeStep == SafeInv /\ [Next]_vars => SafeInv'
BY TypeStep, OrderStep, RequestStep, MarketStep, FeedStep, CleanupStep, SentStep, HistoryStep
   DEF SafeInv

(* The inductive invariant holds in every state of the system.             *)
THEOREM SafeInvariant == Spec => []SafeInv
BY InitSafeInv, SafeStep, PTL DEF Spec

(* Tables and locals keep their types, and a Trade-Result never counts     *)
(* more than iMaxRetries retries.                                          *)
THEOREM TypesAreKept == Spec => []TypeOK
<1>1. SafeInv => TypeOK
    BY DEF SafeInv
<1> QED BY <1>1, SafeInvariant, PTL

(* SendToMarket sends a trade to be processed at most once, and only when  *)
(* its submission is committed: concurrent and repeated Market-Feeds,      *)
(* killed tests and several Trade-Cleanups included.                       *)
THEOREM MarketProcessesOnce == Spec => []SentOnce
<1>1. SafeInv => SentOnce
    BY DEF SafeInv
<1> QED BY <1>1, SafeInvariant, PTL

(* A limit order has a row in trade_request only while it is pending: no   *)
(* order that was triggered, completed or canceled can be triggered again. *)
THEOREM WaitingIsPending == Spec => []RequestsArePending
<1>1. SafeInv => RequestsArePending
    BY DEF SafeInv, RequestInv, RequestsArePending
<1> QED BY <1>1, SafeInvariant, PTL

(* Trade-Order, Market-Feed, Trade-Result and Trade-Cleanup together keep  *)
(* trade_history complete: the current status of every trade is in it, a   *)
(* completed or canceled trade was submitted, and a limit order was        *)
(* pending.                                                                *)
THEOREM HistoryIsComplete == Spec => []HistoryTellsStatus
<1>1. SafeInv => HistoryTellsStatus
    BY DEF SafeInv
<1> QED BY <1>1, SafeInvariant, PTL

(* Market-Feed chooses limit orders from a snapshot that is older than its *)
(* writes; even so no step makes a completed or canceled trade submitted   *)
(* again.                                                                  *)
THEOREM FinalIsNotSubmitted == Spec => NotSubmittedAgain
<1>1. SafeInv /\ [Next]_vars =>
        [\A t \in Trades : trade[t] \in {"CMPT", "CNCL"} => trade'[t] # "SBMT"]_vars
    BY NoResubmission
<1> QED BY <1>1, SafeInvariant, PTL DEF Spec, NotSubmittedAgain

-----------------------------------------------------------------------------
(* Settlement: a trade moves money exactly when it completes, and once.    *)

(* What the proof needs to know of the values of the variables.            *)
Shape ==
    /\ settled \in [Trades -> Nat]
    /\ b_num_trades \in Nat
    /\ result \in [Trades -> {"none", "arrived", "read", "wrote", "done", "over"}]
    /\ wrote = [d \in Drivers |-> wrote[d]]
    /\ \A d \in Drivers, t \in Trades : <<t, "CMPT">> \notin wrote[d]

(* A Trade-Result that passed the keys' check still would: only it can     *)
(* settle its trade.                                                       *)
WroteFresh == \A t \in Trades : result[t] = "wrote" => settled[t] = 0

Paid == {t \in Trades : settled[t] = 1}

SettleInv == Shape /\ WroteFresh /\ SettledOnce

(* The initial state has no settlement and no history.                     *)
LEMMA InitSettleInv == Init => SettleInv
<1> SUFFICES ASSUME Init PROVE SettleInv
    OBVIOUS
<1>1. Shape /\ WroteFresh
    BY DEF Init, Shape, WroteFresh
<1>2. \A t \in Trades : settled[t] = IF <<t, "CMPT">> \in history THEN 1 ELSE 0
    BY DEF Init
<1>3. {t \in Trades : settled[t] = 1} = {}
    BY DEF Init
<1>4. b_num_trades = Cardinality({t \in Trades : settled[t] = 1})
    BY <1>3, FS_EmptySet DEF Init
<1> QED BY <1>1, <1>2, <1>4 DEF SettleInv, SettledOnce

(* Nothing that leaves the settlements, the completed rows and the broker  *)
(* alone, and makes no Trade-Result write, can break the invariant.        *)
LEMMA Frame ==
    ASSUME SettleInv, Shape', UNCHANGED <<settled, b_num_trades>>,
           \A t \in Trades : <<t, "CMPT">> \in history' <=> <<t, "CMPT">> \in history,
           \A t \in Trades : result'[t] = "wrote" => result[t] = "wrote"
    PROVE  SettleInv'
BY DEF SettleInv, WroteFresh, SettledOnce

(* Frame 5 and 6 of a Trade-Result: one more settlement, one more trade    *)
(* for the broker, one more completed row.                                 *)
LEMMA CommitKeeps ==
    ASSUME NEW t \in Trades, SettleInv, ResultCommits(t)
    PROVE  SettleInv'
<1>0. settled[t] = 0 /\ settled \in [Trades -> Nat] /\ b_num_trades \in Nat
    BY DEF SettleInv, Shape, WroteFresh, ResultCommits
<1>1. Shape'
    BY DEF SettleInv, Shape, ResultCommits, driverVars
<1>2. WroteFresh'
    BY <1>0 DEF SettleInv, Shape, WroteFresh, ResultCommits
<1>3. ASSUME NEW u \in Trades
      PROVE  settled'[u] = IF <<u, "CMPT">> \in history' THEN 1 ELSE 0
    <2>1. CASE u = t
        BY <1>0, <2>1 DEF ResultCommits
    <2>2. CASE u # t
        <3>1. settled'[u] = settled[u] /\ history' = history \cup {<<t, "CMPT">>}
            BY <1>0, <2>2 DEF ResultCommits
        <3>2. <<u, "CMPT">> # <<t, "CMPT">>
            BY <2>2
        <3> QED BY <3>1, <3>2 DEF SettleInv, SettledOnce
    <2> QED BY <2>1, <2>2
<1>4. Paid' = Paid \cup {t} /\ t \notin Paid
    BY <1>0 DEF Paid, ResultCommits
<1>5. IsFiniteSet(Paid)
    <2>1. IsFiniteSet(Trades)
        BY TradesAssumption, FS_Interval DEF Trades
    <2> QED BY <2>1, FS_Subset DEF Paid
<1>6. Cardinality(Paid') = Cardinality(Paid) + 1
    BY <1>4, <1>5, FS_AddElement
<1>7. b_num_trades' = Cardinality(Paid')
    BY <1>6 DEF SettleInv, SettledOnce, Paid, ResultCommits
<1> QED BY <1>1, <1>2, <1>3, <1>7 DEF SettleInv, SettledOnce, Paid

(* Frame 1 to 5 of a Trade-Result change nothing that is committed; the    *)
(* keys' check is what makes the writer fresh.                             *)
LEMMA WritesKeeps ==
    ASSUME NEW t \in Trades, SettleInv, ResultWrites(t)
    PROVE  SettleInv'
<1>1. Shape'
    BY DEF SettleInv, Shape, ResultWrites, dbVars, driverVars
<1>2. WroteFresh'
    BY DEF SettleInv, Shape, WroteFresh, ResultWrites, DuplicateKey, dbVars
<1>3. SettledOnce'
    BY DEF SettleInv, SettledOnce, ResultWrites, dbVars
<1> QED BY <1>1, <1>2, <1>3 DEF SettleInv

(* The remaining steps of a Trade-Result do not write.                     *)
LEMMA ResultKeeps ==
    ASSUME NEW t \in Trades, SettleInv, Result(t)
    PROVE  SettleInv'
<1> USE DEF SettleInv, Shape, dbVars, driverVars
<1>1. CASE MarketExecutes(t)
    BY <1>1, Frame DEF MarketExecutes
<1>2. CASE ResultLost(t)
    BY <1>2, Frame DEF ResultLost
<1>3. CASE ResultReads(t)
    BY <1>3, Frame DEF ResultReads
<1>4. CASE ResultWrites(t)
    BY <1>4, WritesKeeps
<1>5. CASE ResultCommits(t)
    BY <1>5, CommitKeeps
<1>6. CASE ResultRetries(t)
    BY <1>6, Frame DEF ResultRetries
<1>7. CASE ResultFails(t)
    BY <1>7, Frame DEF ResultFails
<1> QED BY <1>1, <1>2, <1>3, <1>4, <1>5, <1>6, <1>7 DEF Result

(* Trade-Order inserts submitted and pending rows only.                    *)
LEMMA OrderKeeps ==
    ASSUME NEW t \in Trades, SettleInv, Order(t)
    PROVE  SettleInv'
<1> USE DEF SettleInv, Shape, dbVars, resultVars, driverVars
<1>1. CASE OrderFrames(t)
    BY <1>1, Frame DEF OrderFrames
<1>2. CASE OrderRollsBack(t)
    BY <1>2, Frame DEF OrderRollsBack
<1>3. CASE OrderCommits(t)
    <2>1. \A u \in Trades : <<u, "CMPT">> \in history' <=> <<u, "CMPT">> \in history
        BY <1>3 DEF OrderCommits
    <2> QED BY <1>3, <2>1, Frame DEF OrderCommits
<1>4. CASE OrderSends(t)
    BY <1>4, Frame DEF OrderSends
<1> QED BY <1>1, <1>2, <1>3, <1>4 DEF Order

(* Market-Feed inserts submitted rows only.                                *)
LEMMA FeedKeeps ==
    ASSUME NEW f \in Feeds, SettleInv, Feed(f)
    PROVE  SettleInv'
<1> USE DEF SettleInv, Shape, dbVars, resultVars, driverVars
<1>1. CASE FeedBegins(f)
    BY <1>1, Frame DEF FeedBegins
<1>2. CASE FeedUpdatesLastTrade(f)
    BY <1>2, Frame DEF FeedUpdatesLastTrade
<1>3. CASE FeedCommits(f)
    <2>1. \A u \in Trades : <<u, "CMPT">> \in history' <=> <<u, "CMPT">> \in history
        BY <1>3 DEF FeedCommits
    <2> QED BY <1>3, <2>1, Frame DEF FeedCommits
<1>4. CASE FeedEnds(f)
    BY <1>4, Frame DEF FeedEnds
<1>5. CASE FeedAborts(f)
    BY <1>5, Frame DEF FeedAborts
<1>6. ASSUME NEW t \in Trades, FeedTriggers(f, t) \/ FeedSends(f, t)
      PROVE  SettleInv'
    BY <1>6, Frame DEF FeedTriggers, FeedSends
<1> QED BY <1>1, <1>2, <1>3, <1>4, <1>5, <1>6 DEF Feed

(* Trade-Cleanup inserts submitted and canceled rows only.                 *)
LEMMA CleanupKeeps ==
    ASSUME NEW d \in Drivers, SettleInv, Cleanup(d)
    PROVE  SettleInv'
<1> USE DEF SettleInv, Shape, dbVars, resultVars
<1>1. CASE CleanupSelectsRequests(d)
    BY <1>1, Frame DEF CleanupSelectsRequests
<1>2. CASE CleanupCancelsPending(d)
    <2>1. PICK t : wrote' = [wrote EXCEPT ![d] = @ \cup {<<t, "SBMT">>, <<t, "CNCL">>}]
        BY <1>2 DEF CleanupCancelsPending
    <2>2. ASSUME NEW e \in Drivers, NEW u \in Trades
          PROVE  <<u, "CMPT">> \notin wrote'[e]
        <3>1. <<u, "CMPT">> \notin wrote[e] /\ wrote'[e] \subseteq wrote[e] \cup {<<t, "SBMT">>, <<t, "CNCL">>}
            BY <2>1
        <3>2. <<u, "CMPT">> # <<t, "SBMT">> /\ <<u, "CMPT">> # <<t, "CNCL">>
            OBVIOUS
        <3> QED BY <3>1, <3>2
    <2>3. Shape'
        BY <1>2, <2>1, <2>2 DEF CleanupCancelsPending
    <2> QED BY <1>2, <2>3, Frame DEF CleanupCancelsPending
<1>3. CASE CleanupDeletesRequests(d)
    BY <1>3, Frame DEF CleanupDeletesRequests
<1>4. CASE CleanupSelectsSubmitted(d)
    BY <1>4, Frame DEF CleanupSelectsSubmitted
<1>5. CASE CleanupCommits(d)
    <2>1. \A u \in Trades : <<u, "CMPT">> \in history' <=> <<u, "CMPT">> \in history
        BY <1>5 DEF CleanupCommits
    <2>2. Shape'
        BY <1>5 DEF CleanupCommits
    <2> QED BY <1>5, <2>1, <2>2, Frame DEF CleanupCommits
<1>6. CASE CleanupFails(d)
    BY <1>6, Frame DEF CleanupFails
<1>7. ASSUME NEW t \in Trades, CleanupCancelsSubmitted(d, t)
      PROVE  SettleInv'
    <2>1. Shape'
        BY <1>7 DEF CleanupCancelsSubmitted
    <2> QED BY <1>7, <2>1, Frame DEF CleanupCancelsSubmitted
<1> QED BY <1>1, <1>2, <1>3, <1>4, <1>5, <1>6, <1>7 DEF Cleanup

-----------------------------------------------------------------------------
(* The invariant is inductive.                                             *)
LEMMA StepSettleInv == SettleInv /\ [Next]_vars => SettleInv'
<1> SUFFICES ASSUME SettleInv, [Next]_vars PROVE SettleInv'
    OBVIOUS
<1>1. ASSUME NEW t \in Trades, Order(t) \/ Result(t) PROVE SettleInv'
    BY <1>1, OrderKeeps, ResultKeeps
<1>2. ASSUME NEW f \in Feeds, Feed(f) PROVE SettleInv'
    BY <1>2, FeedKeeps
<1>3. ASSUME NEW d \in Drivers, DriverStarts(d) PROVE SettleInv'
    BY <1>3, Frame DEF DriverStarts, SettleInv, Shape, dbVars, resultVars
<1>4. ASSUME NEW d \in Drivers, Cleanup(d) PROVE SettleInv'
    BY <1>4, CleanupKeeps
<1>5. CASE KillAll
    <2>1. Shape'
        BY <1>5 DEF KillAll, SettleInv, Shape, dbVars
    <2>2. \A t \in Trades : result'[t] = "wrote" => result[t] = "wrote"
        BY <1>5 DEF KillAll
    <2> QED BY <1>5, <2>1, <2>2, Frame DEF KillAll, dbVars
<1>6. CASE UNCHANGED vars
    BY <1>6, Frame DEF vars, SettleInv, Shape, dbVars, resultVars, driverVars
<1> QED BY <1>1, <1>2, <1>3, <1>4, <1>5, <1>6 DEF Next

(* A trade moves money exactly when it completes, and once: for any number *)
(* of trades, Market-Feeds, drivers and killed tests, Trade-Result's       *)
(* settlement, balance change, broker count and completed history row come *)
(* together.                                                               *)
THEOREM SettlementIsExact == Spec => []SettledOnce
<1>1. SettleInv => SettledOnce
    BY DEF SettleInv
<1> QED BY InitSettleInv, StepSettleInv, <1>1, PTL DEF Spec

-----------------------------------------------------------------------------
(* One driver.  The argument is that Trade-Cleanup runs alone: until it is *)
(* over the driver's customers do not order, so nothing is in the market,  *)
(* no Trade-Result is under way and no Market-Feed has begun, and the      *)
(* tables stay as Trade-Cleanup found them.  OneInv says so.               *)

(* One driver process, as dbt5-run starts without a configuration file.    *)
OneDriver == \A d, e \in Drivers : d = e

(* Until Trade-Cleanup is over nothing else happens, and all trades are of *)
(* earlier tests.                                                          *)
QuietInv ==
    \A d \in Drivers : driver[d] # "run" =>
        /\ market = {}
        /\ \A t \in Trades : /\ order[t] \notin {"open", "committed"}
                             /\ result[t] \notin {"arrived", "read", "wrote"}
                             /\ born[t] < run
        /\ \A f \in Feeds : feed[f] = "idle"

(* No trade is of a test to come, and one being ordered is of this test.   *)
BornInv ==
    \A t \in Trades :
        /\ born[t] <= run
        /\ order[t] \in {"open", "committed"} => born[t] = run

(* What is on its way to the market, in it, or on its way back is          *)
(* submitted; the market has it or its Trade-Result has come, not both.    *)
SubmittedInv ==
    \A t \in Trades :
        /\ t \in market \/ result[t] \in {"arrived", "read", "wrote"} => trade[t] = "SBMT"
        /\ t \in market => result[t] = "none"
        /\ order[t] = "committed" /\ kind[t] = "market" => trade[t] = "SBMT"
        /\ \A f \in Feeds : feed[f] = "sending" /\ t \in done[f] => trade[t] = "SBMT"

SubmittedTrades == {t \in Trades : trade[t] = "SBMT"}

(* How far Trade-Cleanup is with the trades it has to cancel.              *)
ProgressInv ==
    \A d \in Drivers :
        /\ driver[d] \in {"off", "clean", "run"} =>
               list[d] = {} /\ wrote[d] = {} /\ deleted[d] = {}
        /\ driver[d] = "requests" =>
               /\ list[d] \subseteq request
               /\ wrote[d] = (request \ list[d]) \X {"SBMT", "CNCL"}
               /\ deleted[d] = {}
        /\ driver[d] = "deleted" =>
               /\ list[d] = {}
               /\ wrote[d] = request \X {"SBMT", "CNCL"}
               /\ deleted[d] = request
        /\ driver[d] = "submitted" =>
               /\ list[d] \subseteq SubmittedTrades
               /\ wrote[d] = (request \X {"SBMT", "CNCL"})
                                 \cup ((SubmittedTrades \ list[d]) \X {"CNCL"})
               /\ deleted[d] = request

OneInv ==
    /\ QuietInv /\ BornInv /\ SubmittedInv /\ ProgressInv
    /\ PendingHaveRequests /\ CleanStart /\ TestTradesNotCanceled

(* What a Trade-Cleanup that is about to commit has canceled: all that is  *)
(* unfinished.                                                             *)
LEMMA CanceledIsUnfinished ==
    ASSUME SafeInv, OneInv, NEW d \in Drivers, driver[d] = "submitted", list[d] = {}
    PROVE  Canceled(d) = {t \in Trades : trade[t] \in {"PNDG", "SBMT"}}
<1>1. wrote[d] = (request \X {"SBMT", "CNCL"}) \cup (SubmittedTrades \X {"CNCL"})
    BY DEF OneInv, ProgressInv
<1>2. request = {t \in Trades : trade[t] = "PNDG"}
    BY TypeParts DEF SafeInv, DbOK, RequestInv, OneInv, PendingHaveRequests
<1>3. ASSUME NEW t \in Trades
      PROVE  <<t, "CNCL">> \in wrote[d] <=> trade[t] \in {"PNDG", "SBMT"}
    BY <1>1, <1>2 DEF SubmittedTrades
<1> QED BY <1>3 DEF Canceled

(* Only a driver that runs lets customers order, and everything else       *)
(* starts with an order of this test; a kill stops it all.                 *)
LEMMA QuietStep ==
    ASSUME OneDriver, SafeInv, OneInv, [Next]_vars
    PROVE  QuietInv'
<1> USE TypeParts DEF OneDriver, SafeInv, OneInv, QuietInv, OrderOK, MarketOK, ResultOK, FeedOK,
    DriverOK, BornInv, dbVars, orderVars, marketVars, resultVars, feedVars, driverVars
<1>1. ASSUME NEW t \in Trades, OrderFrames(t) PROVE QuietInv'
    BY <1>1 DEF OrderFrames
<1>2. ASSUME NEW t \in Trades, OrderRollsBack(t) PROVE QuietInv'
    BY <1>2 DEF OrderRollsBack
<1>3. ASSUME NEW t \in Trades, OrderCommits(t) PROVE QuietInv'
    BY <1>3 DEF OrderCommits, Submitted
<1>4. ASSUME NEW t \in Trades, OrderSends(t) PROVE QuietInv'
    BY <1>4 DEF OrderSends, SendToMarket, Submitted
<1>5. ASSUME NEW t \in Trades, MarketExecutes(t) PROVE QuietInv'
    BY <1>5 DEF MarketExecutes
<1>6. ASSUME NEW t \in Trades, ResultLost(t) PROVE QuietInv'
    BY <1>6 DEF ResultLost
<1>7. ASSUME NEW t \in Trades, ResultReads(t) PROVE QuietInv'
    BY <1>7 DEF ResultReads
<1>8. ASSUME NEW t \in Trades, ResultWrites(t) PROVE QuietInv'
    BY <1>8 DEF ResultWrites
<1>9. ASSUME NEW t \in Trades, ResultCommits(t) PROVE QuietInv'
    BY <1>9 DEF ResultCommits, EndResult
<1>10. ASSUME NEW t \in Trades, ResultRetries(t) PROVE QuietInv'
    BY <1>10 DEF ResultRetries
<1>11. ASSUME NEW t \in Trades, ResultFails(t) PROVE QuietInv'
    BY <1>11 DEF ResultFails, EndResult
<1>12. ASSUME NEW f \in Feeds, FeedBegins(f) PROVE QuietInv'
    BY <1>12 DEF FeedBegins
<1>13. ASSUME NEW f \in Feeds, FeedUpdatesLastTrade(f) PROVE QuietInv'
    BY <1>13 DEF FeedUpdatesLastTrade
<1>14. ASSUME NEW f \in Feeds, NEW t \in Trades, FeedTriggers(f, t) PROVE QuietInv'
    BY <1>14 DEF FeedTriggers
<1>15. ASSUME NEW f \in Feeds, FeedCommits(f) PROVE QuietInv'
    BY <1>15 DEF FeedCommits
<1>16. ASSUME NEW f \in Feeds, NEW t \in Trades, FeedSends(f, t) PROVE QuietInv'
    BY <1>16 DEF FeedSends, SendToMarket
<1>17. ASSUME NEW f \in Feeds, FeedEnds(f) PROVE QuietInv'
    BY <1>17 DEF FeedEnds
<1>18. ASSUME NEW f \in Feeds, FeedAborts(f) PROVE QuietInv'
    BY <1>18 DEF FeedAborts
<1>19. ASSUME NEW d \in Drivers, DriverStarts(d) PROVE QuietInv'
    BY <1>19 DEF DriverStarts
<1>20. ASSUME NEW d \in Drivers, CleanupSelectsRequests(d) PROVE QuietInv'
    BY <1>20 DEF CleanupSelectsRequests
<1>21. ASSUME NEW d \in Drivers, CleanupCancelsPending(d) PROVE QuietInv'
    BY <1>21 DEF CleanupCancelsPending
<1>22. ASSUME NEW d \in Drivers, CleanupDeletesRequests(d) PROVE QuietInv'
    BY <1>22 DEF CleanupDeletesRequests
<1>23. ASSUME NEW d \in Drivers, CleanupSelectsSubmitted(d) PROVE QuietInv'
    BY <1>23 DEF CleanupSelectsSubmitted
<1>24. ASSUME NEW d \in Drivers, NEW t \in Trades, CleanupCancelsSubmitted(d, t) PROVE QuietInv'
    BY <1>24 DEF CleanupCancelsSubmitted
<1>25. ASSUME NEW d \in Drivers, CleanupCommits(d) PROVE QuietInv'
    BY <1>25 DEF CleanupCommits
<1>26. ASSUME NEW d \in Drivers, CleanupFails(d) PROVE QuietInv'
    BY <1>26 DEF CleanupFails
<1>27. CASE KillAll
    BY <1>27 DEF KillAll
<1>28. CASE UNCHANGED vars
    BY <1>28 DEF vars
<1> QED
    BY <1>1, <1>2, <1>3, <1>4, <1>5, <1>6, <1>7, <1>8, <1>9, <1>10, <1>11, <1>12, <1>13, <1>14,
       <1>15, <1>16, <1>17, <1>18, <1>19, <1>20, <1>21, <1>22, <1>23, <1>24, <1>25, <1>26, <1>27,
       <1>28
       DEF Next, Order, Feed, Result, Cleanup

(* OrderFrames stamps a trade with the test that orders it.                *)
LEMMA BornStep ==
    ASSUME OneDriver, SafeInv, OneInv, [Next]_vars
    PROVE  BornInv'
<1> USE TypeParts DEF OneDriver, SafeInv, OneInv, BornInv, OrderOK, DriverOK, dbVars, orderVars,
    marketVars, resultVars, feedVars, driverVars
<1>1. ASSUME NEW t \in Trades, OrderFrames(t) PROVE BornInv'
    BY <1>1 DEF OrderFrames
<1>2. ASSUME NEW t \in Trades, OrderRollsBack(t) PROVE BornInv'
    BY <1>2 DEF OrderRollsBack
<1>3. ASSUME NEW t \in Trades, OrderCommits(t) PROVE BornInv'
    BY <1>3 DEF OrderCommits, Submitted
<1>4. ASSUME NEW t \in Trades, OrderSends(t) PROVE BornInv'
    BY <1>4 DEF OrderSends, SendToMarket, Submitted
<1>5. ASSUME NEW t \in Trades, MarketExecutes(t) PROVE BornInv'
    BY <1>5 DEF MarketExecutes
<1>6. ASSUME NEW t \in Trades, ResultLost(t) PROVE BornInv'
    BY <1>6 DEF ResultLost
<1>7. ASSUME NEW t \in Trades, ResultReads(t) PROVE BornInv'
    BY <1>7 DEF ResultReads
<1>8. ASSUME NEW t \in Trades, ResultWrites(t) PROVE BornInv'
    BY <1>8 DEF ResultWrites
<1>9. ASSUME NEW t \in Trades, ResultCommits(t) PROVE BornInv'
    BY <1>9 DEF ResultCommits, EndResult
<1>10. ASSUME NEW t \in Trades, ResultRetries(t) PROVE BornInv'
    BY <1>10 DEF ResultRetries
<1>11. ASSUME NEW t \in Trades, ResultFails(t) PROVE BornInv'
    BY <1>11 DEF ResultFails, EndResult
<1>12. ASSUME NEW f \in Feeds, FeedBegins(f) PROVE BornInv'
    BY <1>12 DEF FeedBegins
<1>13. ASSUME NEW f \in Feeds, FeedUpdatesLastTrade(f) PROVE BornInv'
    BY <1>13 DEF FeedUpdatesLastTrade
<1>14. ASSUME NEW f \in Feeds, NEW t \in Trades, FeedTriggers(f, t) PROVE BornInv'
    BY <1>14 DEF FeedTriggers
<1>15. ASSUME NEW f \in Feeds, FeedCommits(f) PROVE BornInv'
    BY <1>15 DEF FeedCommits
<1>16. ASSUME NEW f \in Feeds, NEW t \in Trades, FeedSends(f, t) PROVE BornInv'
    BY <1>16 DEF FeedSends, SendToMarket
<1>17. ASSUME NEW f \in Feeds, FeedEnds(f) PROVE BornInv'
    BY <1>17 DEF FeedEnds
<1>18. ASSUME NEW f \in Feeds, FeedAborts(f) PROVE BornInv'
    BY <1>18 DEF FeedAborts
<1>19. ASSUME NEW d \in Drivers, DriverStarts(d) PROVE BornInv'
    BY <1>19 DEF DriverStarts
<1>20. ASSUME NEW d \in Drivers, CleanupSelectsRequests(d) PROVE BornInv'
    BY <1>20 DEF CleanupSelectsRequests
<1>21. ASSUME NEW d \in Drivers, CleanupCancelsPending(d) PROVE BornInv'
    BY <1>21 DEF CleanupCancelsPending
<1>22. ASSUME NEW d \in Drivers, CleanupDeletesRequests(d) PROVE BornInv'
    BY <1>22 DEF CleanupDeletesRequests
<1>23. ASSUME NEW d \in Drivers, CleanupSelectsSubmitted(d) PROVE BornInv'
    BY <1>23 DEF CleanupSelectsSubmitted
<1>24. ASSUME NEW d \in Drivers, NEW t \in Trades, CleanupCancelsSubmitted(d, t) PROVE BornInv'
    BY <1>24 DEF CleanupCancelsSubmitted
<1>25. ASSUME NEW d \in Drivers, CleanupCommits(d) PROVE BornInv'
    BY <1>25 DEF CleanupCommits
<1>26. ASSUME NEW d \in Drivers, CleanupFails(d) PROVE BornInv'
    BY <1>26 DEF CleanupFails
<1>27. CASE KillAll
    BY <1>27 DEF KillAll
<1>28. CASE UNCHANGED vars
    BY <1>28 DEF vars
<1> QED
    BY <1>1, <1>2, <1>3, <1>4, <1>5, <1>6, <1>7, <1>8, <1>9, <1>10, <1>11, <1>12, <1>13, <1>14,
       <1>15, <1>16, <1>17, <1>18, <1>19, <1>20, <1>21, <1>22, <1>23, <1>24, <1>25, <1>26, <1>27,
       <1>28
       DEF Next, Order, Feed, Result, Cleanup

(* A trade stays submitted until its own Trade-Result commits: Trade-      *)
(* Cleanup, the only other transaction that would change it, runs when     *)
(* there is none under way.                                                *)
LEMMA SubmittedStep ==
    ASSUME OneDriver, SafeInv, OneInv, [Next]_vars
    PROVE  SubmittedInv'
<1> USE TypeParts DEF OneDriver, SafeInv, OneInv, SubmittedInv, DbOK, OrderOK, MarketOK,
    ResultOK, FeedOK, QuietInv, dbVars, orderVars, marketVars, resultVars, feedVars, driverVars
<1>1. ASSUME NEW t \in Trades, OrderFrames(t) PROVE SubmittedInv'
    BY <1>1, NewTrade DEF OrderFrames
<1>2. ASSUME NEW t \in Trades, OrderRollsBack(t) PROVE SubmittedInv'
    BY <1>2 DEF OrderRollsBack
<1>3. ASSUME NEW t \in Trades, OrderCommits(t) PROVE SubmittedInv'
    <2>1. trade[t] = "none" /\ sent[t] = 0
        BY <1>3 DEF OrderCommits, OrderInv
    <2>2. t \notin market /\ result[t] = "none"
        BY <2>1 DEF MarketInv
    <2>3. \A f \in Feeds : feed[f] = "sending" => t \notin done[f]
        BY <2>1, CommittedIsUnsent
    <2> QED BY <1>3, <2>2, <2>3 DEF OrderCommits, Submitted
<1>4. ASSUME NEW t \in Trades, OrderSends(t) PROVE SubmittedInv'
    <2>1. UNCHANGED <<trade, kind, result, feed, done>> /\ order' = [order EXCEPT ![t] = "sent"]
        BY <1>4 DEF OrderSends
    <2>2. CASE Submitted(t)
        <3>1. trade[t] = "SBMT" /\ sent[t] = 0
            BY <1>4, <2>2, OrderedIsUnsent DEF OrderSends, Submitted
        <3>2. result[t] = "none" /\ market' \subseteq market \cup {t}
            BY <1>4, <2>2, <3>1 DEF MarketInv, OrderSends, SendToMarket
        <3> QED BY <2>1, <3>1, <3>2
    <2>3. CASE ~Submitted(t)
        BY <1>4, <2>1, <2>3 DEF OrderSends
    <2> QED BY <2>2, <2>3
<1>5. ASSUME NEW t \in Trades, MarketExecutes(t) PROVE SubmittedInv'
    BY <1>5 DEF MarketExecutes
<1>6. ASSUME NEW t \in Trades, ResultLost(t) PROVE SubmittedInv'
    BY <1>6 DEF ResultLost
<1>7. ASSUME NEW t \in Trades, ResultReads(t) PROVE SubmittedInv'
    BY <1>7 DEF ResultReads
<1>8. ASSUME NEW t \in Trades, ResultWrites(t) PROVE SubmittedInv'
    BY <1>8 DEF ResultWrites
<1>9. ASSUME NEW t \in Trades, ResultCommits(t) PROVE SubmittedInv'
    <2>1. sent[t] # 0 /\ t \notin market
        BY <1>9, ResultOfSent DEF ResultCommits
    <2>2. ~(order[t] = "committed" /\ kind[t] = "market")
        BY <2>1, OrderedIsUnsent
    <2>3. \A f \in Feeds : feed[f] = "sending" => t \notin done[f]
        BY <2>1, CommittedIsUnsent
    <2> QED BY <1>9, <2>1, <2>2, <2>3 DEF ResultCommits
<1>10. ASSUME NEW t \in Trades, ResultRetries(t) PROVE SubmittedInv'
    BY <1>10 DEF ResultRetries
<1>11. ASSUME NEW t \in Trades, ResultFails(t) PROVE SubmittedInv'
    BY <1>11 DEF ResultFails, EndResult
<1>12. ASSUME NEW f \in Feeds, FeedBegins(f) PROVE SubmittedInv'
    BY <1>12 DEF FeedBegins
<1>13. ASSUME NEW f \in Feeds, FeedUpdatesLastTrade(f) PROVE SubmittedInv'
    BY <1>13 DEF FeedUpdatesLastTrade
<1>14. ASSUME NEW f \in Feeds, NEW t \in Trades, FeedTriggers(f, t) PROVE SubmittedInv'
    BY <1>14 DEF FeedTriggers
<1>15. ASSUME NEW f \in Feeds, FeedCommits(f) PROVE SubmittedInv'
    BY <1>15, TriggeredIsPending DEF FeedCommits
<1>16. ASSUME NEW f \in Feeds, NEW t \in Trades, FeedSends(f, t) PROVE SubmittedInv'
    <2>1. trade[t] = "SBMT" /\ sent[t] = 0
        BY <1>16, CommittedIsUnsent DEF FeedSends
    <2>2. result[t] = "none" /\ market' \subseteq market \cup {t}
        BY <1>16, <2>1 DEF MarketInv, FeedSends, SendToMarket
    <2>3. UNCHANGED <<trade, kind, order, result, feed>> /\ \A g \in Feeds : done'[g] \subseteq done[g]
        BY <1>16 DEF FeedSends
    <2> QED BY <2>1, <2>2, <2>3
<1>17. ASSUME NEW f \in Feeds, FeedEnds(f) PROVE SubmittedInv'
    BY <1>17 DEF FeedEnds
<1>18. ASSUME NEW f \in Feeds, FeedAborts(f) PROVE SubmittedInv'
    BY <1>18 DEF FeedAborts
<1>19. ASSUME NEW d \in Drivers, DriverStarts(d) PROVE SubmittedInv'
    BY <1>19 DEF DriverStarts
<1>20. ASSUME NEW d \in Drivers, CleanupSelectsRequests(d) PROVE SubmittedInv'
    BY <1>20 DEF CleanupSelectsRequests
<1>21. ASSUME NEW d \in Drivers, CleanupCancelsPending(d) PROVE SubmittedInv'
    BY <1>21 DEF CleanupCancelsPending
<1>22. ASSUME NEW d \in Drivers, CleanupDeletesRequests(d) PROVE SubmittedInv'
    BY <1>22 DEF CleanupDeletesRequests
<1>23. ASSUME NEW d \in Drivers, CleanupSelectsSubmitted(d) PROVE SubmittedInv'
    BY <1>23 DEF CleanupSelectsSubmitted
<1>24. ASSUME NEW d \in Drivers, NEW t \in Trades, CleanupCancelsSubmitted(d, t) PROVE SubmittedInv'
    BY <1>24 DEF CleanupCancelsSubmitted
<1>25. ASSUME NEW d \in Drivers, CleanupCommits(d) PROVE SubmittedInv'
    BY <1>25 DEF CleanupCommits
<1>26. ASSUME NEW d \in Drivers, CleanupFails(d) PROVE SubmittedInv'
    BY <1>26 DEF CleanupFails
<1>27. CASE KillAll
    BY <1>27 DEF KillAll
<1>28. CASE UNCHANGED vars
    BY <1>28 DEF vars
<1> QED
    BY <1>1, <1>2, <1>3, <1>4, <1>5, <1>6, <1>7, <1>8, <1>9, <1>10, <1>11, <1>12, <1>13, <1>14,
       <1>15, <1>16, <1>17, <1>18, <1>19, <1>20, <1>21, <1>22, <1>23, <1>24, <1>25, <1>26, <1>27,
       <1>28
       DEF Next, Order, Feed, Result, Cleanup

(* Trade-Cleanup works through the rows it selected, and the tables do not *)
(* change meanwhile.                                                       *)
LEMMA ProgressStep ==
    ASSUME OneDriver, SafeInv, OneInv, [Next]_vars
    PROVE  ProgressInv'
<1> USE TypeParts DEF OneDriver, SafeInv, OneInv, ProgressInv, DbOK, DriverOK, SubmittedTrades,
    QuietInv, dbVars, orderVars, marketVars, resultVars, feedVars, driverVars
<1>1. ASSUME NEW t \in Trades, OrderFrames(t) PROVE ProgressInv'
    BY <1>1 DEF OrderFrames
<1>2. ASSUME NEW t \in Trades, OrderRollsBack(t) PROVE ProgressInv'
    BY <1>2 DEF OrderRollsBack
<1>3. ASSUME NEW t \in Trades, OrderCommits(t) PROVE ProgressInv'
    BY <1>3 DEF OrderCommits, Submitted
<1>4. ASSUME NEW t \in Trades, OrderSends(t) PROVE ProgressInv'
    BY <1>4 DEF OrderSends, SendToMarket, Submitted
<1>5. ASSUME NEW t \in Trades, MarketExecutes(t) PROVE ProgressInv'
    BY <1>5 DEF MarketExecutes
<1>6. ASSUME NEW t \in Trades, ResultLost(t) PROVE ProgressInv'
    BY <1>6 DEF ResultLost
<1>7. ASSUME NEW t \in Trades, ResultReads(t) PROVE ProgressInv'
    BY <1>7 DEF ResultReads
<1>8. ASSUME NEW t \in Trades, ResultWrites(t) PROVE ProgressInv'
    BY <1>8 DEF ResultWrites
<1>9. ASSUME NEW t \in Trades, ResultCommits(t) PROVE ProgressInv'
    BY <1>9 DEF ResultCommits, EndResult
<1>10. ASSUME NEW t \in Trades, ResultRetries(t) PROVE ProgressInv'
    BY <1>10 DEF ResultRetries
<1>11. ASSUME NEW t \in Trades, ResultFails(t) PROVE ProgressInv'
    BY <1>11 DEF ResultFails, EndResult
<1>12. ASSUME NEW f \in Feeds, FeedBegins(f) PROVE ProgressInv'
    BY <1>12 DEF FeedBegins
<1>13. ASSUME NEW f \in Feeds, FeedUpdatesLastTrade(f) PROVE ProgressInv'
    BY <1>13 DEF FeedUpdatesLastTrade
<1>14. ASSUME NEW f \in Feeds, NEW t \in Trades, FeedTriggers(f, t) PROVE ProgressInv'
    BY <1>14 DEF FeedTriggers
<1>15. ASSUME NEW f \in Feeds, FeedCommits(f) PROVE ProgressInv'
    BY <1>15 DEF FeedCommits
<1>16. ASSUME NEW f \in Feeds, NEW t \in Trades, FeedSends(f, t) PROVE ProgressInv'
    BY <1>16 DEF FeedSends, SendToMarket
<1>17. ASSUME NEW f \in Feeds, FeedEnds(f) PROVE ProgressInv'
    BY <1>17 DEF FeedEnds
<1>18. ASSUME NEW f \in Feeds, FeedAborts(f) PROVE ProgressInv'
    BY <1>18 DEF FeedAborts
<1>19. ASSUME NEW d \in Drivers, DriverStarts(d) PROVE ProgressInv'
    BY <1>19 DEF DriverStarts
<1>20. ASSUME NEW d \in Drivers, CleanupSelectsRequests(d) PROVE ProgressInv'
    BY <1>20 DEF CleanupSelectsRequests
<1>21. ASSUME NEW d \in Drivers, CleanupCancelsPending(d) PROVE ProgressInv'
    <2> DEFINE u == Min(list[d])
    <2>1. u \in list[d]
        <3>1. list[d] \subseteq Nat /\ list[d] # {}
            BY <1>21 DEF CleanupCancelsPending, Trades
        <3> QED BY <3>1, MinOfNaturals
    <2>2. /\ wrote' = [wrote EXCEPT ![d] = @ \cup {<<u, "SBMT">>, <<u, "CNCL">>}]
          /\ list' = [list EXCEPT ![d] = @ \ {u}]
          /\ driver[d] = "requests"
          /\ UNCHANGED <<request, driver, deleted>>
        BY <1>21 DEF CleanupCancelsPending
    <2> HIDE DEF u
    <2>3. /\ list[d] \subseteq request /\ deleted[d] = {}
          /\ wrote[d] = (request \ list[d]) \X {"SBMT", "CNCL"}
        BY <2>2
    <2>4. wrote'[d] = wrote[d] \cup {<<u, "SBMT">>, <<u, "CNCL">>} /\ list'[d] = list[d] \ {u}
        BY <2>2
    <2>5. wrote'[d] = (request \ list'[d]) \X {"SBMT", "CNCL"}
        BY <2>1, <2>3, <2>4
    <2>6. \A e \in Drivers : e = d
        OBVIOUS
    <2> QED BY <2>2, <2>3, <2>4, <2>5, <2>6
<1>22. ASSUME NEW d \in Drivers, CleanupDeletesRequests(d) PROVE ProgressInv'
    BY <1>22 DEF CleanupDeletesRequests
<1>23. ASSUME NEW d \in Drivers, CleanupSelectsSubmitted(d) PROVE ProgressInv'
    <2>1. /\ wrote[d] = request \X {"SBMT", "CNCL"} /\ deleted[d] = request
          /\ driver' = [driver EXCEPT ![d] = "submitted"]
          /\ list'[d] = SubmittedTrades \ Canceled(d)
          /\ UNCHANGED <<trade, request, wrote, deleted>>
        BY <1>23 DEF CleanupSelectsSubmitted
    <2>2. Canceled(d) = request
        BY <2>1 DEF Canceled
    <2>3. list'[d] = SubmittedTrades /\ SubmittedTrades' = SubmittedTrades
        BY <2>1, <2>2 DEF RequestInv
    <2>4. wrote'[d] = (request' \X {"SBMT", "CNCL"}) \cup ((SubmittedTrades' \ list'[d]) \X {"CNCL"})
        BY <2>1, <2>3
    <2>5. \A e \in Drivers : e = d
        OBVIOUS
    <2> QED BY <2>1, <2>3, <2>4, <2>5
<1>24. ASSUME NEW d \in Drivers, NEW t \in Trades, CleanupCancelsSubmitted(d, t) PROVE ProgressInv'
    BY <1>24 DEF CleanupCancelsSubmitted
<1>25. ASSUME NEW d \in Drivers, CleanupCommits(d) PROVE ProgressInv'
    BY <1>25 DEF CleanupCommits
<1>26. ASSUME NEW d \in Drivers, CleanupFails(d) PROVE ProgressInv'
    BY <1>26 DEF CleanupFails
<1>27. CASE KillAll
    BY <1>27 DEF KillAll
<1>28. CASE UNCHANGED vars
    BY <1>28 DEF vars
<1> QED
    BY <1>1, <1>2, <1>3, <1>4, <1>5, <1>6, <1>7, <1>8, <1>9, <1>10, <1>11, <1>12, <1>13, <1>14,
       <1>15, <1>16, <1>17, <1>18, <1>19, <1>20, <1>21, <1>22, <1>23, <1>24, <1>25, <1>26, <1>27,
       <1>28
       DEF Next, Order, Feed, Result, Cleanup

(* A row of trade_request goes only when the order it belongs to is        *)
(* triggered or canceled.                                                  *)
LEMMA PendingStep ==
    ASSUME OneDriver, SafeInv, OneInv, [Next]_vars
    PROVE  PendingHaveRequests'
<1> USE TypeParts DEF OneDriver, SafeInv, OneInv, PendingHaveRequests, DbOK, ProgressInv, dbVars,
    orderVars, marketVars, resultVars, feedVars, driverVars
<1>1. ASSUME NEW t \in Trades, OrderFrames(t) PROVE PendingHaveRequests'
    BY <1>1 DEF OrderFrames
<1>2. ASSUME NEW t \in Trades, OrderRollsBack(t) PROVE PendingHaveRequests'
    BY <1>2 DEF OrderRollsBack
<1>3. ASSUME NEW t \in Trades, OrderCommits(t) PROVE PendingHaveRequests'
    BY <1>3 DEF OrderCommits, Submitted
<1>4. ASSUME NEW t \in Trades, OrderSends(t) PROVE PendingHaveRequests'
    BY <1>4 DEF OrderSends, SendToMarket, Submitted
<1>5. ASSUME NEW t \in Trades, MarketExecutes(t) PROVE PendingHaveRequests'
    BY <1>5 DEF MarketExecutes
<1>6. ASSUME NEW t \in Trades, ResultLost(t) PROVE PendingHaveRequests'
    BY <1>6 DEF ResultLost
<1>7. ASSUME NEW t \in Trades, ResultReads(t) PROVE PendingHaveRequests'
    BY <1>7 DEF ResultReads
<1>8. ASSUME NEW t \in Trades, ResultWrites(t) PROVE PendingHaveRequests'
    BY <1>8 DEF ResultWrites
<1>9. ASSUME NEW t \in Trades, ResultCommits(t) PROVE PendingHaveRequests'
    BY <1>9 DEF ResultCommits, EndResult
<1>10. ASSUME NEW t \in Trades, ResultRetries(t) PROVE PendingHaveRequests'
    BY <1>10 DEF ResultRetries
<1>11. ASSUME NEW t \in Trades, ResultFails(t) PROVE PendingHaveRequests'
    BY <1>11 DEF ResultFails, EndResult
<1>12. ASSUME NEW f \in Feeds, FeedBegins(f) PROVE PendingHaveRequests'
    BY <1>12 DEF FeedBegins
<1>13. ASSUME NEW f \in Feeds, FeedUpdatesLastTrade(f) PROVE PendingHaveRequests'
    BY <1>13 DEF FeedUpdatesLastTrade
<1>14. ASSUME NEW f \in Feeds, NEW t \in Trades, FeedTriggers(f, t) PROVE PendingHaveRequests'
    BY <1>14 DEF FeedTriggers
<1>15. ASSUME NEW f \in Feeds, FeedCommits(f) PROVE PendingHaveRequests'
    BY <1>15 DEF FeedCommits
<1>16. ASSUME NEW f \in Feeds, NEW t \in Trades, FeedSends(f, t) PROVE PendingHaveRequests'
    BY <1>16 DEF FeedSends, SendToMarket
<1>17. ASSUME NEW f \in Feeds, FeedEnds(f) PROVE PendingHaveRequests'
    BY <1>17 DEF FeedEnds
<1>18. ASSUME NEW f \in Feeds, FeedAborts(f) PROVE PendingHaveRequests'
    BY <1>18 DEF FeedAborts
<1>19. ASSUME NEW d \in Drivers, DriverStarts(d) PROVE PendingHaveRequests'
    BY <1>19 DEF DriverStarts
<1>20. ASSUME NEW d \in Drivers, CleanupSelectsRequests(d) PROVE PendingHaveRequests'
    BY <1>20 DEF CleanupSelectsRequests
<1>21. ASSUME NEW d \in Drivers, CleanupCancelsPending(d) PROVE PendingHaveRequests'
    BY <1>21 DEF CleanupCancelsPending
<1>22. ASSUME NEW d \in Drivers, CleanupDeletesRequests(d) PROVE PendingHaveRequests'
    BY <1>22 DEF CleanupDeletesRequests
<1>23. ASSUME NEW d \in Drivers, CleanupSelectsSubmitted(d) PROVE PendingHaveRequests'
    BY <1>23 DEF CleanupSelectsSubmitted
<1>24. ASSUME NEW d \in Drivers, NEW t \in Trades, CleanupCancelsSubmitted(d, t) PROVE PendingHaveRequests'
    BY <1>24 DEF CleanupCancelsSubmitted
<1>25. ASSUME NEW d \in Drivers, CleanupCommits(d) PROVE PendingHaveRequests'
    BY <1>25, CanceledIsUnfinished DEF CleanupCommits
<1>26. ASSUME NEW d \in Drivers, CleanupFails(d) PROVE PendingHaveRequests'
    BY <1>26 DEF CleanupFails
<1>27. CASE KillAll
    BY <1>27 DEF KillAll
<1>28. CASE UNCHANGED vars
    BY <1>28 DEF vars
<1> QED
    BY <1>1, <1>2, <1>3, <1>4, <1>5, <1>6, <1>7, <1>8, <1>9, <1>10, <1>11, <1>12, <1>13, <1>14,
       <1>15, <1>16, <1>17, <1>18, <1>19, <1>20, <1>21, <1>22, <1>23, <1>24, <1>25, <1>26, <1>27,
       <1>28
       DEF Next, Order, Feed, Result, Cleanup

(* What is older than this test was finished by Trade-Cleanup and stays    *)
(* so.                                                                     *)
LEMMA CleanStep ==
    ASSUME OneDriver, SafeInv, OneInv, [Next]_vars
    PROVE  CleanStart'
<1> USE TypeParts DEF OneDriver, SafeInv, OneInv, CleanStart, DbOK, OrderOK, BornInv, DriverOK,
    dbVars, orderVars, marketVars, resultVars, feedVars, driverVars
<1>1. ASSUME NEW t \in Trades, OrderFrames(t) PROVE CleanStart'
    BY <1>1, NewTrade DEF OrderFrames
<1>2. ASSUME NEW t \in Trades, OrderRollsBack(t) PROVE CleanStart'
    BY <1>2 DEF OrderRollsBack
<1>3. ASSUME NEW t \in Trades, OrderCommits(t) PROVE CleanStart'
    BY <1>3 DEF OrderCommits, Submitted
<1>4. ASSUME NEW t \in Trades, OrderSends(t) PROVE CleanStart'
    BY <1>4 DEF OrderSends, SendToMarket, Submitted
<1>5. ASSUME NEW t \in Trades, MarketExecutes(t) PROVE CleanStart'
    BY <1>5 DEF MarketExecutes
<1>6. ASSUME NEW t \in Trades, ResultLost(t) PROVE CleanStart'
    BY <1>6 DEF ResultLost
<1>7. ASSUME NEW t \in Trades, ResultReads(t) PROVE CleanStart'
    BY <1>7 DEF ResultReads
<1>8. ASSUME NEW t \in Trades, ResultWrites(t) PROVE CleanStart'
    BY <1>8 DEF ResultWrites
<1>9. ASSUME NEW t \in Trades, ResultCommits(t) PROVE CleanStart'
    BY <1>9 DEF ResultCommits, EndResult
<1>10. ASSUME NEW t \in Trades, ResultRetries(t) PROVE CleanStart'
    BY <1>10 DEF ResultRetries
<1>11. ASSUME NEW t \in Trades, ResultFails(t) PROVE CleanStart'
    BY <1>11 DEF ResultFails, EndResult
<1>12. ASSUME NEW f \in Feeds, FeedBegins(f) PROVE CleanStart'
    BY <1>12 DEF FeedBegins
<1>13. ASSUME NEW f \in Feeds, FeedUpdatesLastTrade(f) PROVE CleanStart'
    BY <1>13 DEF FeedUpdatesLastTrade
<1>14. ASSUME NEW f \in Feeds, NEW t \in Trades, FeedTriggers(f, t) PROVE CleanStart'
    BY <1>14 DEF FeedTriggers
<1>15. ASSUME NEW f \in Feeds, FeedCommits(f) PROVE CleanStart'
    BY <1>15, TriggeredIsPending DEF FeedCommits
<1>16. ASSUME NEW f \in Feeds, NEW t \in Trades, FeedSends(f, t) PROVE CleanStart'
    BY <1>16 DEF FeedSends, SendToMarket
<1>17. ASSUME NEW f \in Feeds, FeedEnds(f) PROVE CleanStart'
    BY <1>17 DEF FeedEnds
<1>18. ASSUME NEW f \in Feeds, FeedAborts(f) PROVE CleanStart'
    BY <1>18 DEF FeedAborts
<1>19. ASSUME NEW d \in Drivers, DriverStarts(d) PROVE CleanStart'
    BY <1>19 DEF DriverStarts
<1>20. ASSUME NEW d \in Drivers, CleanupSelectsRequests(d) PROVE CleanStart'
    BY <1>20 DEF CleanupSelectsRequests
<1>21. ASSUME NEW d \in Drivers, CleanupCancelsPending(d) PROVE CleanStart'
    BY <1>21 DEF CleanupCancelsPending
<1>22. ASSUME NEW d \in Drivers, CleanupDeletesRequests(d) PROVE CleanStart'
    BY <1>22 DEF CleanupDeletesRequests
<1>23. ASSUME NEW d \in Drivers, CleanupSelectsSubmitted(d) PROVE CleanStart'
    BY <1>23 DEF CleanupSelectsSubmitted
<1>24. ASSUME NEW d \in Drivers, NEW t \in Trades, CleanupCancelsSubmitted(d, t) PROVE CleanStart'
    BY <1>24 DEF CleanupCancelsSubmitted
<1>25. ASSUME NEW d \in Drivers, CleanupCommits(d) PROVE CleanStart'
    BY <1>25, CanceledIsUnfinished DEF CleanupCommits, Status
<1>26. ASSUME NEW d \in Drivers, CleanupFails(d) PROVE CleanStart'
    BY <1>26 DEF CleanupFails
<1>27. CASE KillAll
    BY <1>27 DEF KillAll
<1>28. CASE UNCHANGED vars
    BY <1>28 DEF vars
<1> QED
    BY <1>1, <1>2, <1>3, <1>4, <1>5, <1>6, <1>7, <1>8, <1>9, <1>10, <1>11, <1>12, <1>13, <1>14,
       <1>15, <1>16, <1>17, <1>18, <1>19, <1>20, <1>21, <1>22, <1>23, <1>24, <1>25, <1>26, <1>27,
       <1>28
       DEF Next, Order, Feed, Result, Cleanup

(* Trade-Cleanup commits before the first order of its test.               *)
LEMMA TestStep ==
    ASSUME OneDriver, SafeInv, OneInv, [Next]_vars
    PROVE  TestTradesNotCanceled'
<1> USE TypeParts DEF OneDriver, SafeInv, OneInv, TestTradesNotCanceled, DbOK, OrderOK, BornInv,
    QuietInv, DriverOK, dbVars, orderVars, marketVars, resultVars, feedVars, driverVars
<1>1. ASSUME NEW t \in Trades, OrderFrames(t) PROVE TestTradesNotCanceled'
    <2>1. UNCHANGED <<trade, run>> /\ born' = [born EXCEPT ![t] = run] /\ trade[t] = "none"
        BY <1>1, NewTrade DEF OrderFrames
    <2> QED BY <2>1
<1>2. ASSUME NEW t \in Trades, OrderRollsBack(t) PROVE TestTradesNotCanceled'
    BY <1>2 DEF OrderRollsBack
<1>3. ASSUME NEW t \in Trades, OrderCommits(t) PROVE TestTradesNotCanceled'
    BY <1>3 DEF OrderCommits, Submitted
<1>4. ASSUME NEW t \in Trades, OrderSends(t) PROVE TestTradesNotCanceled'
    BY <1>4 DEF OrderSends, SendToMarket, Submitted
<1>5. ASSUME NEW t \in Trades, MarketExecutes(t) PROVE TestTradesNotCanceled'
    BY <1>5 DEF MarketExecutes
<1>6. ASSUME NEW t \in Trades, ResultLost(t) PROVE TestTradesNotCanceled'
    BY <1>6 DEF ResultLost
<1>7. ASSUME NEW t \in Trades, ResultReads(t) PROVE TestTradesNotCanceled'
    BY <1>7 DEF ResultReads
<1>8. ASSUME NEW t \in Trades, ResultWrites(t) PROVE TestTradesNotCanceled'
    BY <1>8 DEF ResultWrites
<1>9. ASSUME NEW t \in Trades, ResultCommits(t) PROVE TestTradesNotCanceled'
    BY <1>9 DEF ResultCommits, EndResult
<1>10. ASSUME NEW t \in Trades, ResultRetries(t) PROVE TestTradesNotCanceled'
    BY <1>10 DEF ResultRetries
<1>11. ASSUME NEW t \in Trades, ResultFails(t) PROVE TestTradesNotCanceled'
    BY <1>11 DEF ResultFails, EndResult
<1>12. ASSUME NEW f \in Feeds, FeedBegins(f) PROVE TestTradesNotCanceled'
    BY <1>12 DEF FeedBegins
<1>13. ASSUME NEW f \in Feeds, FeedUpdatesLastTrade(f) PROVE TestTradesNotCanceled'
    BY <1>13 DEF FeedUpdatesLastTrade
<1>14. ASSUME NEW f \in Feeds, NEW t \in Trades, FeedTriggers(f, t) PROVE TestTradesNotCanceled'
    BY <1>14 DEF FeedTriggers
<1>15. ASSUME NEW f \in Feeds, FeedCommits(f) PROVE TestTradesNotCanceled'
    BY <1>15 DEF FeedCommits
<1>16. ASSUME NEW f \in Feeds, NEW t \in Trades, FeedSends(f, t) PROVE TestTradesNotCanceled'
    BY <1>16 DEF FeedSends, SendToMarket
<1>17. ASSUME NEW f \in Feeds, FeedEnds(f) PROVE TestTradesNotCanceled'
    BY <1>17 DEF FeedEnds
<1>18. ASSUME NEW f \in Feeds, FeedAborts(f) PROVE TestTradesNotCanceled'
    BY <1>18 DEF FeedAborts
<1>19. ASSUME NEW d \in Drivers, DriverStarts(d) PROVE TestTradesNotCanceled'
    BY <1>19 DEF DriverStarts
<1>20. ASSUME NEW d \in Drivers, CleanupSelectsRequests(d) PROVE TestTradesNotCanceled'
    BY <1>20 DEF CleanupSelectsRequests
<1>21. ASSUME NEW d \in Drivers, CleanupCancelsPending(d) PROVE TestTradesNotCanceled'
    BY <1>21 DEF CleanupCancelsPending
<1>22. ASSUME NEW d \in Drivers, CleanupDeletesRequests(d) PROVE TestTradesNotCanceled'
    BY <1>22 DEF CleanupDeletesRequests
<1>23. ASSUME NEW d \in Drivers, CleanupSelectsSubmitted(d) PROVE TestTradesNotCanceled'
    BY <1>23 DEF CleanupSelectsSubmitted
<1>24. ASSUME NEW d \in Drivers, NEW t \in Trades, CleanupCancelsSubmitted(d, t) PROVE TestTradesNotCanceled'
    BY <1>24 DEF CleanupCancelsSubmitted
<1>25. ASSUME NEW d \in Drivers, CleanupCommits(d) PROVE TestTradesNotCanceled'
    BY <1>25 DEF CleanupCommits
<1>26. ASSUME NEW d \in Drivers, CleanupFails(d) PROVE TestTradesNotCanceled'
    BY <1>26 DEF CleanupFails
<1>27. CASE KillAll
    BY <1>27 DEF KillAll
<1>28. CASE UNCHANGED vars
    BY <1>28 DEF vars
<1> QED
    BY <1>1, <1>2, <1>3, <1>4, <1>5, <1>6, <1>7, <1>8, <1>9, <1>10, <1>11, <1>12, <1>13, <1>14,
       <1>15, <1>16, <1>17, <1>18, <1>19, <1>20, <1>21, <1>22, <1>23, <1>24, <1>25, <1>26, <1>27,
       <1>28
       DEF Next, Order, Feed, Result, Cleanup

-----------------------------------------------------------------------------

(* The initial state has no trades and no driver.                          *)
LEMMA InitOneInv == Init => OneInv
BY DEF Init, OneInv, QuietInv, BornInv, SubmittedInv, ProgressInv, PendingHaveRequests,
       CleanStart, TestTradesNotCanceled

(* The invariant is inductive, given the one that holds for any drivers.   *)
LEMMA OneStep == ASSUME OneDriver PROVE SafeInv /\ OneInv /\ [Next]_vars => OneInv'
BY QuietStep, BornStep, SubmittedStep, ProgressStep, PendingStep, CleanStep, TestStep DEF OneInv

(* With one driver the inductive invariant holds in every state.           *)
THEOREM OneInvariant == ASSUME OneDriver PROVE Spec => []OneInv
BY InitOneInv, OneStep, SafeInvariant, PTL DEF Spec

(* With one driver, every limit order that is pending still has its row in *)
(* trade_request, so that MFF1Q2 can find it: no failed, retried or killed *)
(* transaction loses it.                                                   *)
THEOREM NothingPendingIsLost == ASSUME OneDriver PROVE Spec => []PendingHaveRequests
<1>1. OneInv => PendingHaveRequests
    BY DEF OneInv
<1> QED BY <1>1, OneInvariant, PTL

(* With one driver, once Trade-Cleanup has committed nothing of an earlier *)
(* test is pending or submitted, however that test was killed.             *)
THEOREM CleanupIsComplete == ASSUME OneDriver PROVE Spec => []CleanStart
<1>1. OneInv => CleanStart
    BY DEF OneInv
<1> QED BY <1>1, OneInvariant, PTL

(* With one driver, no trade is canceled in the test that ordered it.      *)
THEOREM TestIsNotCanceled == ASSUME OneDriver PROVE Spec => []TestTradesNotCanceled
<1>1. OneInv => TestTradesNotCanceled
    BY DEF OneInv
<1> QED BY <1>1, OneInvariant, PTL

-----------------------------------------------------------------------------
(* The contract.                                                           *)

(* The empty database is the contract's initial state.                     *)
LEMMA InitContract == Init => Contract!Init
BY DEF Init, Contract!Init

(* Frame 6 of Trade-Order accepts the trade.                               *)
LEMMA AcceptStep ==
    ASSUME SafeInv, NEW t \in Trades, OrderCommits(t)
    PROVE  Contract!Accept(t)
<1> DEFINE st == IF Submitted(t) THEN "SBMT" ELSE "PNDG"
<1>1. trade[t] = "none" /\ trade \in [Trades -> Status \cup {"none"}]
    BY TypeParts DEF SafeInv, OrderInv, DbOK, OrderCommits
<1>2. /\ trade' = [trade EXCEPT ![t] = st]
      /\ history' = history \cup {<<t, st>>}
      /\ UNCHANGED <<settled, b_num_trades>>
    BY DEF OrderCommits
<1>3. Contract!Become({t}, st)
    BY <1>1, <1>2 DEF Contract!Become
<1> QED BY <1>1, <1>2, <1>3 DEF Contract!Accept

(* The COMMIT of a Market-Feed's entry triggers what it has updated.       *)
LEMMA TriggerStep ==
    ASSUME SafeInv, NEW f \in Feeds, FeedCommits(f)
    PROVE  done[f] \in SUBSET Trades /\ Contract!Trigger(done[f])
<1>1. done[f] \subseteq Contract!With("PNDG")
    BY TriggeredIsPending DEF FeedCommits, Contract!With
<1> QED BY <1>1 DEF FeedCommits, Contract!Trigger, Contract!Become, Contract!With

(* The COMMIT of a Trade-Result completes a submitted trade, and pays.     *)
LEMMA CompleteStep ==
    ASSUME SafeInv, OneInv, NEW t \in Trades, ResultCommits(t)
    PROVE  Contract!Complete(t)
<1>1. trade[t] = "SBMT"
    BY DEF OneInv, SubmittedInv, ResultCommits
<1>2. Contract!Become({t}, "CMPT")
    BY TypeParts DEF SafeInv, DbOK, ResultCommits, Contract!Become
<1> QED BY <1>1, <1>2 DEF ResultCommits, Contract!Complete

(* The COMMIT of Trade-Cleanup cancels all that is unfinished and nothing  *)
(* else.                                                                   *)
LEMMA CancelStep ==
    ASSUME SafeInv, OneInv, NEW d \in Drivers, CleanupCommits(d)
    PROVE  Contract!CancelAll
<1> DEFINE S == Contract!With("PNDG") \cup Contract!With("SBMT")
<1>1. Canceled(d) = S
    BY CanceledIsUnfinished DEF CleanupCommits, Contract!With
<1>2. Contract!Become(S, "CNCL")
    BY <1>1 DEF CleanupCommits, Contract!Become
<1>3. history' = history \cup (S \X {"SBMT", "CNCL"})
    <2>1. wrote[d] = (request \X {"SBMT", "CNCL"}) \cup (SubmittedTrades \X {"CNCL"})
        BY DEF OneInv, ProgressInv, CleanupCommits
    <2>2. S = request \cup SubmittedTrades
        BY TypeParts DEF SafeInv, DbOK, RequestInv, OneInv, PendingHaveRequests, SubmittedTrades,
                         Contract!With
    <2>3. \A t \in SubmittedTrades : <<t, "SBMT">> \in history
        BY DEF SafeInv, HistoryTellsStatus, SubmittedTrades
    <2>4. history' = history \cup wrote[d]
        BY DEF CleanupCommits
    <2> HIDE DEF S
    <2> QED BY <2>1, <2>2, <2>3, <2>4
<1> QED BY <1>2, <1>3 DEF CleanupCommits, Contract!CancelAll

(* Every step of the system is one of these or changes nothing the         *)
(* contract speaks of.                                                     *)
LEMMA ContractStep ==
    ASSUME SafeInv, OneInv, [Next]_vars
    PROVE  [Contract!Next]_(Contract!vars)
<1>1. ASSUME NEW t \in Trades, OrderCommits(t) PROVE Contract!Next
    BY <1>1, AcceptStep DEF Contract!Next
<1>2. ASSUME NEW t \in Trades, ResultCommits(t) PROVE Contract!Next
    BY <1>2, CompleteStep DEF Contract!Next
<1>3. ASSUME NEW f \in Feeds, FeedCommits(f) PROVE Contract!Next
    BY <1>3, TriggerStep DEF Contract!Next
<1>4. ASSUME NEW d \in Drivers, CleanupCommits(d) PROVE Contract!Next
    BY <1>4, CancelStep DEF Contract!Next
<1>5. CASE UNCHANGED <<trade, history, settled, b_num_trades>>
    BY <1>5 DEF Contract!vars
<1> QED BY <1>1, <1>2, <1>3, <1>4, <1>5, TableWriters

(* With one driver, Trade-Order, Market-Feed, Trade-Result and Trade-      *)
(* Cleanup implement TradeContract: seen from the committed tables, all    *)
(* interleavings, conflicts, retries, failures and kills are the           *)
(* contract's atomic steps.                                                *)
THEOREM ContractIsKept == ASSUME OneDriver PROVE Spec => ImplementsContract
<1>1. SafeInv /\ OneInv /\ [Next]_vars => [Contract!Next]_(Contract!vars)
    BY ContractStep
<1> QED BY <1>1, InitContract, SafeInvariant, OneInvariant, PTL
        DEF Spec, ImplementsContract, Contract!Spec
=============================================================================
