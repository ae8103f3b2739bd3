------------------------------ MODULE Holdings ------------------------------
(***************************************************************************)
(* Concurrent Trade-Results on one account and security.  Frame 1 reads    *)
(* hs_qty without locking the row; Frame 2 runs later and writes from that *)
(* value.  What makes this safe is the SERIALIZABLE level that             *)
(* CTradeResultDB sets, PostgreSQL's rule for it (external: a transaction  *)
(* cannot write a row another one changed after its snapshot), and the     *)
(* retry loop of the Brokerage House worker.                               *)
(*                                                                         *)
(* Frames 3 to 6 do not touch the position; they are part of Commit.       *)
(***************************************************************************)
EXTENDS TradeResultFrame2, FiniteSetsExt

CONSTANTS
    Impl,           \* which implementation of the frame runs
    MaxTrades,      \* bound: trades on the position
    MaxQty,         \* bound: shares of a trade
    iMaxRetries,    \* 10 in DBT5Consts.h
    Loaded          \* holdings the loader may have left, a set of sets

ASSUME ImplAssumption == Impl \in {"client", "plpgsql", "c"}
ASSUME BoundsAssumption == {MaxTrades, MaxQty, iMaxRetries} \subseteq Nat

Trades == 1..MaxTrades

(* A row of the holding table: the trade that made it, and its shares.     *)
Lots == [id : Int, dts : Int, price : Int, qty : Int]

(* The loader leaves each position long or short, its lots numbered by     *)
(* trades of its own (h_t_id is the primary key).                          *)
ASSUME LoadedAssumption ==
    \A H \in Loaded :
        /\ IsFiniteSet(H) /\ H \subseteq Lots
        /\ \A h \in H : h.id \notin Trades
        /\ \A h, k \in H : h.id = k.id => h = k
        /\ (\A h \in H : h.qty > 0) \/ (\A h \in H : h.qty < 0)

VARIABLES
    position,   \* the committed rows
    version,    \* number of Trade-Results committed
    clock,      \* ticks
    trade,      \* input of each trade
    pc,         \* "idle", "ready", "begun", "frame1", "frame2", "done", "failed"
    nRetries,
    began,      \* CURRENT_TIMESTAMP of each transaction
    snapshot,   \* position and version each transaction sees
    result      \* outcome of Frame2

vars == <<position, version, clock, trade, pc, nRetries, began, snapshot, result>>

SumQty(holdings) == MapThenSumSet(LAMBDA h : h.qty, holdings)

(* Loaded data are consistent: the summary is the sum of the holdings.     *)
LoadedPosition(holdings) ==
    [hs |-> IF holdings = {} THEN NoRow ELSE SumQty(holdings),
     holding |-> holdings, history |-> {}]

NoTrade == [id |-> 0, type_is_sell |-> FALSE, is_lifo |-> FALSE, qty |-> 0, price |-> 0]

NoSnapshot == [position |-> LoadedPosition({}), version |-> 0]

NoResult == [position |-> LoadedPosition({}), buy_value |-> 0, sell_value |-> 0]

Init ==
    /\ position \in {LoadedPosition(H) : H \in Loaded}
    /\ version = 0
    /\ clock = 1
    /\ trade = [t \in Trades |-> NoTrade]
    /\ pc = [t \in Trades |-> "idle"]
    /\ nRetries = [t \in Trades |-> 0]
    /\ began = [t \in Trades |-> 0]
    /\ snapshot = [t \in Trades |-> NoSnapshot]
    /\ result = [t \in Trades |-> NoResult]

(* A Trade-Result for a trade arrives at a worker.  Its price tells it     *)
(* from the others.                                                        *)
Arrive(t) ==
    /\ pc[t] = "idle"
    /\ \A u \in Trades : u < t => pc[u] # "idle"
    /\ \E sell, lifo \in BOOLEAN, qty \in 1..MaxQty :
           trade' = [trade EXCEPT ![t] = [id |-> t, type_is_sell |-> sell, is_lifo |-> lifo,
                                          qty |-> qty, price |-> t]]
    /\ pc' = [pc EXCEPT ![t] = "ready"]
    /\ UNCHANGED <<position, version, clock, nRetries, began, snapshot, result>>

(* startTransaction(), setSerializable(): the transaction's time is fixed, *)
(* its snapshot is not.                                                    *)
Begin(t) ==
    /\ pc[t] = "ready"
    /\ began' = [began EXCEPT ![t] = clock]
    /\ clock' = clock + 1
    /\ pc' = [pc EXCEPT ![t] = "begun"]
    /\ UNCHANGED <<position, version, trade, nRetries, snapshot, result>>

(* The first statement takes the snapshot.                                 *)
Frame1(t) ==
    /\ pc[t] = "begun"
    /\ snapshot' = [snapshot EXCEPT ![t] = [position |-> position, version |-> version]]
    /\ pc' = [pc EXCEPT ![t] = "frame1"]
    /\ UNCHANGED <<position, version, clock, trade, nRetries, began, result>>

(* Another transaction that has written the rows makes this one wait.      *)
RowsLocked(t) == \E u \in Trades \ {t} : pc[u] = "frame2"

(* Mutant: READ COMMITTED, where nobody minds and every statement sees the *)
(* latest rows.                                                            *)
Bug_Stale(t) == FALSE

(* Another transaction committed to the rows after this one's snapshot.    *)
Stale(t) == snapshot[t].version # version

(* hs_qty is what Frame 1 read.  The rows are those of the snapshot, which *)
(* are still the committed ones.                                           *)
RunFrame2(t) ==
    /\ pc[t] = "frame1"
    /\ ~RowsLocked(t)
    /\ ~Stale(t)
    /\ \E list \in HoldLists(position, trade[t].is_lifo) :
           result' = [result EXCEPT ![t] =
               Frame2(position, Frame1HsQty(snapshot[t].position), trade[t], list,
                      StoredDts(Impl, began[t]))]
    /\ pc' = [pc EXCEPT ![t] = "frame2"]
    /\ UNCHANGED <<position, version, clock, trade, nRetries, began, snapshot>>

(* The transaction is over; its snapshot and locals are gone.              *)
EndTransaction(t) ==
    /\ began' = [began EXCEPT ![t] = 0]
    /\ snapshot' = [snapshot EXCEPT ![t] = NoSnapshot]
    /\ result' = [result EXCEPT ![t] = NoResult]

(* Mutants: retried without a limit; retried inside the frame, uncounted.  *)
Bug_Retry(t) ==
    /\ nRetries' = [nRetries EXCEPT ![t] = @ + 1]
    /\ pc' = [pc EXCEPT ![t] = "ready"]
    /\ EndTransaction(t)
    /\ UNCHANGED <<position, version, clock, trade>>

Bug_RetryInFrame(t) ==
    /\ pc' = [pc EXCEPT ![t] = "frame1"]
    /\ UNCHANGED <<position, version, clock, trade, nRetries, began, snapshot, result>>

(* 40001 or 40P01 in a frame: rolled back and rerun from Frame 1, up to    *)
(* iMaxRetries times.                                                      *)
Retry(t) ==
    /\ nRetries' = [nRetries EXCEPT ![t] = @ + 1]
    /\ pc' = [pc EXCEPT ![t] = IF nRetries'[t] <= iMaxRetries THEN "ready" ELSE "failed"]
    /\ EndTransaction(t)
    /\ UNCHANGED <<position, version, clock, trade>>

Conflict(t) == pc[t] = "frame1" /\ ~RowsLocked(t) /\ Stale(t) /\ Retry(t)

(* Both transactions saw no summary row and both insert it: the second one *)
(* violates the primary key, an error that is not retried.                 *)
DuplicateSummary(t) ==
    /\ pc[t] = "frame1"
    /\ ~RowsLocked(t)
    /\ Stale(t)
    /\ Frame1HsQty(snapshot[t].position) = 0
    /\ position.hs # NoRow
    /\ pc' = [pc EXCEPT ![t] = "failed"]
    /\ EndTransaction(t)
    /\ UNCHANGED <<position, version, clock, trade, nRetries>>

(* A conflict in a later frame (the broker's row, the account's balance)   *)
(* or at COMMIT.                                                           *)
LateConflict(t) == pc[t] = "frame2" /\ Retry(t)

Commit(t) ==
    /\ pc[t] = "frame2"
    /\ position' = result[t].position
    /\ version' = version + 1
    /\ pc' = [pc EXCEPT ![t] = "done"]
    /\ EndTransaction(t)
    /\ UNCHANGED <<clock, trade, nRetries>>

Work(t) == Begin(t) \/ Frame1(t) \/ RunFrame2(t) \/ Conflict(t) \/ DuplicateSummary(t)
           \/ LateConflict(t) \/ Commit(t)

Next == \E t \in Trades : Arrive(t) \/ Work(t)

(* Each worker thread keeps running its transaction.                       *)
Spec == Init /\ [][Next]_vars /\ \A t \in Trades : WF_vars(Work(t))

-----------------------------------------------------------------------------
(* Properties.                                                             *)

(* Types; attempts stay within the limit.                                  *)
TypeOK ==
    /\ position.hs \in Int \cup {NoRow}
    /\ version \in 0..MaxTrades
    /\ clock \in Nat
    /\ \A t \in Trades :
        /\ trade[t].id \in 0..MaxTrades /\ trade[t].qty \in 0..MaxQty
        /\ pc[t] \in {"idle", "ready", "begun", "frame1", "frame2", "done", "failed"}
        /\ nRetries[t] \in 0..(iMaxRetries + 1)
        /\ began[t] \in 0..clock

(* The summary row is the sum of the holdings, and it exists exactly when  *)
(* there are holdings (which reference it), although each trade computes   *)
(* it from a value read in an earlier frame.                               *)
SummaryIsSum ==
    /\ Frame1HsQty(position) = SumQty(position.holding)
    /\ position.hs = NoRow <=> position.holding = {}

(* A position is long or short, never both, and holds no empty lots:       *)
(* otherwise a sale would go on to consume a short holding.                *)
OneSided ==
    \/ \A h \in position.holding : h.qty > 0
    \/ \A h \in position.holding : h.qty < 0

Changed(rows) == MapThenSumSet(LAMBDA r : r.after - r.before, rows)

(* holding_history is a ledger: the rows of a completed trade add up to    *)
(* its quantity, a trade that did not complete has none, and the rows of a *)
(* holding that a trade made lead from nothing to what is left of it.  (A  *)
(* loaded holding was made before the history the model keeps.)            *)
HistoryIsLedger ==
    /\ \A t \in Trades :
        Changed({r \in position.history : r.hh_t_id = t}) =
            IF pc[t] = "done" THEN -Sign(trade[t]) * trade[t].qty ELSE 0
    /\ \A h \in position.holding : h.id \in Trades =>
        Changed({r \in position.history : r.hh_h_t_id = h.id}) = h.qty

(* The reference for buy_value and sell_value: line the shares up, oldest  *)
(* first (newest first for LIFO); the trade uses the first ones, as many   *)
(* as it needs and there are, each at the price of its lot.                *)
Abs(n) == IF n < 0 THEN -n ELSE n

MinOf(a, b) == IF a < b THEN a ELSE b

ShareValue(list, n) ==
    LET before(i) == MapThenSumSet(LAMBDA j : Abs(list[j].qty), 1..(i - 1))
        taken(i) == IF before(i) >= n THEN 0 ELSE MinOf(Abs(list[i].qty), n - before(i))
    IN  MapThenSumSet(LAMBDA i : taken(i) * list[i].price, DOMAIN list)

UsedShares(pos, tr) ==
    IF Sign(tr) * SumQty(pos.holding) > 0
    THEN MinOf(tr.qty, Abs(SumQty(pos.holding))) ELSE 0

(* A trade commits the values the reference computes from the position it  *)
(* replaces, as if the trades had run one after the other.                 *)
ValuesAreSerial ==
    [][\A t \in Trades : pc[t] = "frame2" /\ pc'[t] = "done" =>
        LET n == UsedShares(position, trade[t])
            held == IF trade[t].type_is_sell THEN result[t].buy_value
                                             ELSE result[t].sell_value
            traded == IF trade[t].type_is_sell THEN result[t].sell_value
                                               ELSE result[t].buy_value
        IN  /\ traded = n * trade[t].price
            /\ \E list \in HoldLists(position, trade[t].is_lifo) :
                   held = ShareValue(list, n)]_vars

(* Every Trade-Result that arrives ends: nobody waits for a lock forever   *)
(* and conflicts are retried a bounded number of times.                    *)
TradesEnd == \A t \in Trades : (pc[t] = "ready") ~> (pc[t] \in {"done", "failed"})
=============================================================================
