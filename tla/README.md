# A TLA+ verification of DBT-5

DBT-5 is an open-source implementation of the TPC-E brokerage benchmark for
PostgreSQL. Four programs cooperate: a *Driver* (emulated customers), a
*Brokerage House* (runs transactions on the database), a *Market Exchange*
(executes trades after a delay), and the database with the transaction frames,
which exist three times (in the client, in plpgsql, in C). These modules model
the parts where order, failure and concurrency matter.

## Inventory

### Parts, state, operations

| part | state it keeps | operations |
|---|---|---|
| Market Exchange, delivery (`src/interfaces/MEESUT.cpp`, `BaseInterface.cpp`, `CSocket.cpp`) | pool of sockets, count of detached threads, one thread per request | start a thread, acquire/release a socket, send, receive, reconnect, destructor |
| Market Exchange, timer (`src/MarketExchange/MarketExchange.cpp`) | next delay, its generation, shutdown flag; the emulator's pending trades (EGen, external) | accept, receive a trade request, submit it, hand over the delay, sleep, fire, shut down |
| Brokerage House (`src/BrokerageHouse/BrokerageHouse.cpp`) | per connection: a worker thread, a database session, a connection to the market | receive, run a transaction, retry, answer |
| Database session (`src/transactions/pgsql/DBConnection.cpp`, `src/transactions/*DB.cpp`) | open transaction, isolation level | begin, set level, exec, escape, commit, rollback |
| Frames (`DBConnectionClientSide.cpp`, `storedproc/pgsql/pgsql/*.sql`, `storedproc/pgsql/c/*.c`) | the tables | the frames of twelve transactions |
| SendToMarket (`src/interfaces/TxnHarnessSendToMarket.cpp`) | one socket | send a committed trade to the Market Exchange |
| Driver (`src/Driver`, `src/Customer`, `CESUT.cpp`, `DMSUT.cpp`) | user threads, stop time | ramp up, pace, ask, log, stop |
| Loader, scripts, test tools | none at run time | load, configure, compare |

### How they interact

A customer's Trade-Order reaches a worker of the Brokerage House over a socket.
The worker runs the frames in one database transaction, commits, and only then
sends the trade to the Market Exchange over a second socket. A Market Exchange
worker gives it to the emulator, which starts a timer; the timer thread calls
the emulator when the timer expires, and the emulator starts one detached thread
per Trade-Result or Market-Feed. That thread takes a socket from a pool, sends
the request to the Brokerage House and waits for its answer. The Brokerage House
runs the Trade-Result against the position (holding_summary, holding,
holding_history) of the customer, in competition with other sessions. A
Market-Feed may trigger limit orders, which go to the market again.

### What is hard

* *Interleaving*: three kinds of threads in the Market Exchange, with two locks
  and an emulator that has a lock of its own; many sessions on one row.
* *Failure*: connections break at every send and receive; statements fail with a
  serialization failure, with another error, or with an exception; a COMMIT may
  succeed although its answer is lost.
* *Retry*: the worker runs a request again from its first frame.
* *Shutdown*: a destructor joins the timer thread, another waits for detached
  threads; the scripts end a test with `kill -9`, and the next one has to clean
  up.
* *Three implementations* of one frame that must agree.

The hazards, each at its line, are in `PROJECT.json`.

### What makes each part correct

* Delivery: no socket lost or shared, no reply given to another request, nobody
  waits for ever, nothing is used after its destruction.
* Timer: no wakeup lost, every accepted trade acted on, on time; the destructor
  returns.
* Worker and session: the status tells what was committed; nothing of one
  request leaks into the next; every request is answered.
* Position: summary, holdings and history agree, and come out as if the trades
  had run one after the other; the implementations agree.
* Life of a trade: a trade is sent, settled and counted once, a limit order is
  triggered once, a final status is final, the history tells how it came about,
  and a new test starts from a database without unfinished trades.
* Frames: client, plpgsql and C answer the same and leave the same tables; a row
  of an answer belongs to the trade it stands for and is current; counts are those
  of the changes made; amounts spread over several tables add up; an estimate
  comes true.
* Driver: clean-up comes before the customers; the run ends.

## The modules

Every definition that models code has an entry in `PROJECT.json` ("map") with the
source lines it stands for. Definitions named `Bug_...` are the plausible mistakes
used to show that a property can fail; nothing else uses them.

### MEESUT (and MCMEESUT, MEESUT_proofs)

A request is identified with the thread that carries it (`pc`, `pSocket`,
`outcome`). `m_FreeSockets` is the vector used as a stack,
`m_OutstandingThreads` the count, `poolWaiters` the threads blocked on
`m_PoolCond`. One action per critical section and per socket call. Sending and
receiving distinguish what the kernel distinguishes: no descriptor, connected,
closed by the peer (one more send succeeds), reset. `epoch` numbers the
connections of a socket, so that a reply to an old connection is lost. The
Brokerage House (`BHReceives`, `BHReplies`) and a breaking connection
(`PeerCloses`) are the environment.

`Init` covers a constructor that could open only some of the connections, and a
first connection that failed: the code goes on in both cases.

### MarketTimer (and MCMarketTimer, MarketTimer_proofs)

The timer thread, the workers and the destructor. An action of the timer thread
lasts from one release of `m_TimerLock` to the next. What the emulator does is
assumed from its interface: `SubmitTradeRequest` adds a timer, may act on expired
ones and returns the time to the next; `GenerateTradeResult` acts on the expired
ones and returns the time to the next, -1 for none. Time is a number of ticks
left on each timer. `m_TimerGeneration` wraps at `GenerationMod`.

### BrokerageWorker (and MCBrokerageWorker, BrokerageWorker_proofs)

One worker and its session. Each transaction is a program, a sequence of the
operations `begin`, `exec` (a frame), `check` and `decide` (the EGen harness
looks at a frame's output), `escape`, `commit`, `send`; one definition per
transaction. PostgreSQL is reduced to what the code depends on: BEGIN inside a
transaction only warns, a level set after the first statement aborts, after an
error only ROLLBACK helps, a lost COMMIT may have happened. `applied` counts how
often each unit of work became durable; `doubt` collects the requests whose
fate the code cannot know or whose rollback it skipped.

The programs end with the last COMMIT. Seven transactions (`JudgedTypes`) are
judged by the harness only after that, on what the committed frame returned:
`Judge` turns their status into "judged", and the worker answers with it. A
Trade-Update that found fewer trades than it was asked for is thus answered with
a negative status although its updates are durable. Market-Watch has a check of
this kind too, for an input that EGen does not generate; it is not among them.

### TradeResultFrame2, TradeOrderFrame3, Holdings, FrameEquivalence (and MC modules, Holdings_proofs, FrameEquivalence_proofs)

`TradeResultFrame2` is Frame 2 of Trade-Result as operators: the rows consumed
oldest or newest first, partly or wholly, the history rows, the summary row, the
new holding, the two values. Sale and purchase mirror each other in the code and
are one definition with a sign here. The implementations differ in the time
stamp of a new holding (`StoredDts`): the client stores microseconds, plpgsql
rounds to seconds, C converts the date between two structures with different
origins. `HoldLists` is the set of orders that ORDER BY permits.

`Holdings` runs Frames 1 and 2 of several Trade-Results on one position
concurrently, under the SERIALIZABLE level the code sets: a transaction works on
the snapshot its first statement took, waits for rows another one has written,
and fails if they were committed after its snapshot.

`TradeOrderFrame3` is the estimate of Trade-Order: a second walk through the same
holdings, at the requested price, with its own loops in each implementation
(`ClientEstimate`, `PlpgsqlEstimate`, `CEstimate`), the tax on the gain, the
assets of a margin account and the status. `FrameEquivalence` runs the same orders
and their trades through all implementations, each on a database of its own, so
that a holding one trade leaves is what the next one consumes.

### FrameTables, ServerSide, TradeUpdate, TradeUpdateC, TradeLookup, TradeResultFrames, DataMaintenance, FrameSuite (and MCFrameSuite, FrameSuite_proofs)

The frames of four transactions as operators from tables and input to an answer
and new tables, one operator per implementation and per part of its loop
(`ClientTUF1Toggle`, `PlpgsqlTUF1Read`, `CTUF1Cash`, ...).

* `FrameTables`: the tables that Trade-Update, Trade-Lookup and Trade-Result
  share, and the accumulator a frame works with: the arrays it fills, `num_found`,
  `num_updated`, whether the body has said `continue` for this trade (`at`), and
  whether `FAIL_FRAME_SET` has dropped the answer (`max_calls`). A trade has four groups
  of columns (trade, settlement, cash transaction, history); a group is the trade's
  identity with the one column a frame can change.
* The client writes to `trade_info[i]`, plpgsql assigns to array elements, C
  appends to the text of an array, where a missing row leaves no placeholder, or a
  comma with nothing after it. `ServerSide` is what the server side connection
  makes of the row: `TokenizeSmart`, and the columns copied as far as they reach.
* `TradeUpdate` holds the client and plpgsql versions, `TradeUpdateC` the C
  version, whose reads after an update use either the snapshot of the call or the
  current tables (`read_only`). `TradeLookup` holds all versions of its frames.
* `TradeResultFrames`: tax (rounded up or to even at half a cent), commission
  rate, completion, settlement; the EGen harness that calls them is external.
* `DataMaintenance`: what becomes of the rows of each of the twelve tables, and
  how each implementation answers when it finds no row, no symbol or no such table.
* `FrameSuite` is the comparison that `src/tests/test_pgsql_transactions:12` and
  `src/tests/test_pgsql_storedprocs_c:14` describe ("must produce the same frame
  output"), made from every database that frames can lead to: `Run` puts a question to
  all implementations, `NextFrame` goes on from the tables one of them left. Some
  trades are not complete at first, and become so through `DoTradeResult`.

What the comparison leaves out, because the code differs there (`Comparable`):
trades that are not complete, where the C functions return no row, rows that have
moved up, or an error, and plpgsql arrays may lack their first element; a tax that
falls on half a cent; maintenance of rows that do not exist, which only the C function
reports; and in `FrameEquivalence` the fractions of a cent in the client's estimated
tax. Such states are in the model, and `TypeOK`, `MoneyAddsUp` and, for the client
and plpgsql, `RowsDescribeTrades` and `CountsAreHonest` hold in them too.

Abstractions: columns no frame changes are the identity of the row; the text of
amounts (`"%f"`, `"%8.2f"`) is exact but for rounding to cents; the tax rates that
Data-Maintenance changes are not those Trade-Result reads (`TaxRates` is constant),
since no run of the comparison does both.

### TradeLife, TradeContract (and MCTradeLife, TradeLife_proofs)

The four transactions that move a trade through its states, on one security,
account and broker, and the tests that follow one another.

| state | code |
|---|---|
| `trade`, `kind`, `bid`, `request`, `history`, `settled`, `b_num_trades`, `seq_trade_id` | the committed tables; `settled` stands for settlement, cash transaction and balance |
| `ver`, `ltVer` | number of committed changes of a row: how PostgreSQL tells that a row changed after a snapshot |
| `order`, `result`, `rver`, `nRetries` | one Trade-Order and one Trade-Result per trade |
| `feed`, `quote`, `snap`, `todo`, `done` | a worker at one entry of a Market-Feed |
| `driver`, `list`, `wrote`, `deleted`, `tidy` | a driver and its Trade-Cleanup |
| `market`, `sent` | trades the Market Exchange has to execute; deliveries |
| `born`, `run` | the test that ordered a trade, the current test |

An action is one statement, or the statements on one trade, up to the next one
that may wait or see another transaction's commit. A row written by an open
transaction makes others wait (`Locked`). Market-Feed is REPEATABLE READ: it
selects from its snapshot and cannot write a row that has changed since.
Trade-Result is SERIALIZABLE and does not look at the status of the trade; the
primary keys (`DuplicateKey`) stop a second one. Trade-Cleanup is READ COMMITTED:
each of its statements sees what is committed at that moment, and its UPDATEs
name the trade only, so that they overwrite whatever status it has by then. Any
transaction may fail at any statement.

Abstractions: an entry of a Market-Feed is a transaction of its own, so a feed is
a sequence of entries and a retried feed a longer one; a limit order is known to
the market from its registration, but executed only when Market-Feed has
triggered it; a feed happens when the market has been told of a trade
(`FeedBegins`); a Trade-Order that fails before Frame 4 changes nothing and is
left out, one that fails later has used up a value of the sequence. `KillAll` is
`stop_processes`, at any moment: open transactions are rolled back, and what the
programs had in memory is gone.

`TradeContract` is the abstract specification: four variables (status, payments,
the broker's count, history) and four actions (accept an order, trigger limit
orders, complete a trade, cancel everything unfinished), without transactions,
locks, snapshots, messages or kills. `TradeLife` instantiates it with a refinement
mapping (`Contract`): a status is the committed row or "none", payments are the
settlements. `ImplementsContract` says that with one driver every committed change
is one of the four actions and everything else, a kill included, is a stutter.

## The runs

| run | shows | bounds |
|---|---|---|
| `meesut` | `PoolSound`, `DestroyedQuiescent`, `ReplyMatchesRequest`, `RequestsFinish`, `DestructorReturns` | 2 threads, 2 connections asked for, of which 1 or 2 could be opened: with one, a thread waits for the other and takes over the socket in whatever state it is left; with two, the connections fail independently. The theorems cover more threads |
| `timer_live` | `NoLostWakeup`, `EveryRequestFires`, `TimerThreadJoins` | 2 requests, 2 workers, delays 0 to 2, generation modulo 4 (more than the hand-overs of a behaviour: the run says nothing of a counter that wraps) |
| `timer_race` | `TimerCoversNextDeadline` fails with two workers | 2 requests, 2 workers |
| `worker` | `SessionClean`, `SuccessMeansApplied`, `FailureMeansNothingApplied`, `RequestsAnswered` | 2 requests of 9 types (the other four have the program of BROKER_VOLUME; MARKET_WATCH has no verdict after COMMIT), 2 retries, 2 entries: the second request shows what the first left behind |
| `feed_retry` | `FeedEntryAppliedOnce` fails | 1 Market-Feed of 2 entries, 1 retry |
| `holdings` | `SummaryIsSum`, `OneSided`, `HistoryIsLedger`, `ValuesAreSerial`, `TradesEnd` | 2 trades of 1 to 3 shares, on positions of 0, 1, 2 lots, long and short: enough to split, exhaust and cross zero |
| `frame2_plpgsql` | `SameFrameOutput`, `EstimateComesTrue` (the latter also for C) | 4 orders of 1 or 2 shares, market orders on margin with tax and limit orders without, 2 loaded lots: lots are split, used up and crossed through zero, at a gain and at a loss |
| `frame2_c` | `SameFrameOutput` fails for C | 3 orders |
| `frames` | `SameFrameOutput`, `SameTables`, `RowsDescribeTrades`, `CountsAreHonest`, `MoneyAddsUp` | 3 trades, one complete at first and two to be completed, with cash and on margin, one account and security; lists of trades with a missing one, windows that hold some or all, 0 or 2 updates; each of the 12 tables of Data-Maintenance with one or two keys, any number of toggles, at most 2 days or volumes added; 7 symbols, so that a watch list runs out of them |
| `trade_restart` | `PendingHaveRequests`, `CleanStart`, `TestTradesNotCanceled`, `ImplementsContract`, `ResultsEnd` | 2 trades, 2 prices, 1 feed with 1 entry in either test, 1 driver, 2 tests, 1 retry: a trade of the killed test and one of the next, prices that trigger and that do not |
| `trade_drivers` | `SentOnce`, `SettledOnce`, `RequestsArePending`, `HistoryTellsStatus`, `NotSubmittedAgain` | 2 trades, 2 feeds with 2 entries, 2 drivers (each interchangeable): both feeds see the same limit orders, one Trade-Cleanup runs among the transactions of a running test, and two run beside each other |
| `trade_cancel` | `TestTradesNotCanceled` fails with two drivers | 1 trade, 2 drivers |

Deadlock is not checked: in each model all threads may rightly come to rest (no
more requests, program ended). That they do not rest too early is what the
liveness properties say.

### Findings

* `timer_race`: the call of `SubmitTradeRequest` and the hand-over of its result
  are not atomic. A worker with an old, longer delay may hand it over after one
  with a newer, shorter delay, and the timer thread sleeps past a deadline. The
  trade is late, not lost: `EveryRequestFires` holds with two workers.
* `feed_retry`: Market-Feed commits entry by entry; a retry starts at the first
  entry and adds its volume again.
* `frame2_c`: the C frame subtracts 1900 and 1 a second time from a `struct tm`,
  so new holdings are dated to antiquity; FIFO and LIFO then choose other lots
  than the client side does, and report other values.

* `trade_cancel`: the driver says that Trade-Cleanup runs "before starting the
  test", but every driver runs one, and `dbt5-run` starts several drivers without
  waiting for any of them. A later driver cancels trades of a test under way; a
  Trade-Result may still complete a canceled trade, and one that commits between
  the SELECT and the UPDATE of Trade-Cleanup is overwritten with canceled, though
  the money has moved. `SentOnce`, `SettledOnce`, `HistoryTellsStatus` and
  `NotSubmittedAgain` hold nevertheless (`trade_drivers`); `ImplementsContract`,
  `PendingHaveRequests` and `CleanStart` are statements about one driver. With
  several, a pending order may lose its row of `trade_request` to a Trade-Cleanup
  and then waits for the next one to cancel it; `RequestsArePending`, the
  converse, still holds.

Three weaknesses are built into the statements of properties, which hold only
with the exceptions they name: a request judged after its COMMIT, a Trade-Update
for one, is answered as failed and was applied (`SuccessMeansApplied` says so,
`FailureMeansNothingApplied` excepts it); a `std::exception` inside a frame and a failing
`escape()` leave the transaction open for most types (`SessionClean`), and two
first trades on a position may both insert the summary row, where the loser's
error is not one that is retried (`TradesEnd` lets it end in "failed").

### Fairness

Weak fairness on each thread's own steps: the operating system schedules
runnable threads, `connect`, statements and condition variables return. In
`MEESUT` the Brokerage House is assumed to answer what it received
(`RequestsAnswered` of `BrokerageWorker` is the reason) since the code has no
timeout on a reply. In `MarketTimer` time passes. Nothing is assumed of when
requests arrive, when connections break or when the destructor is called.
In `TradeLife` a Market-Feed entry and a Trade-Cleanup that have begun go on, and
so does a Trade-Result unless it waits for a row (`FairResult`); for the wait
strong fairness is assumed, since PostgreSQL queues the transactions that wait
for a row and a freed row goes to one of them. `ResultsEnd` thus rests on the
other transactions ending, and on the bound on retries.
`timer_race` uses `PromptSpec`, in which time passes only while all threads are
blocked: there lateness comes from the order of steps, not from slow threads.

## The proofs

TLAPS checks the theorems below for every value of the constants. Each comes
from an inductive invariant, which TLC checked on the bounds of the runs before
it was proved, with one lemma per part and one step per action.

| module | theorems (property) | inductive invariant |
|---|---|---|
| `MEESUT_proofs` | `TypeCorrect`, `PoolIsSound` (`PoolSound`), `DestroyedIsQuiescent`, `ReplyIsOwn` (`ReplyMatchesRequest`) | `IInv`, `ReplyInv` |
| `MarketTimer_proofs` | `TypesAreKept`, `WakeupsAreNotLost` (`NoLostWakeup`) | `TimerInv` |
| `BrokerageWorker_proofs` | `TypesAreKept`, `SessionIsClean`, `SuccessIsTrue` (`SuccessMeansApplied`), `FailureIsClean` (`FailureMeansNothingApplied`) | `WorkerInv` |
| `Holdings_proofs` | `TypesAreKept`, `SummaryIsExact` (`SummaryIsSum`), `PositionHasOneSide` (`OneSided`), `LedgerIsExact` (`HistoryIsLedger`), `ValuesAreThoseOfReference` (`ValuesAreSerial`) | `HoldingsInv` |
| `FrameEquivalence_proofs` | `EstimatesComeTrue` (`EstimateComesTrue`), `PlpgsqlIsClient` (`SameFrameOutput`, for the client and plpgsql) | `LotsInv`, `SameInv` |
| `FrameSuite_proofs` | `TypesAreKept`, `MoneyIsExact` (`MoneyAddsUp`), `CountsAreExact` (`CountsAreHonest`), `RowsAreOfTheirTrades` (`RowsDescribeTrades`), `TablesAreSame` (`SameTables`), `OutputIsSame` (`SameFrameOutput`) | `SuiteInv`, `WholeInv` |
| `TradeLife_proofs` | `SettlementIsExact` (`SettledOnce`); `TypesAreKept`, `MarketProcessesOnce` (`SentOnce`), `WaitingIsPending` (`RequestsArePending`), `HistoryIsComplete` (`HistoryTellsStatus`), `FinalIsNotSubmitted` (`NotSubmittedAgain`); for one driver: `NothingPendingIsLost` (`PendingHaveRequests`), `CleanupIsComplete` (`CleanStart`), `TestIsNotCanceled` (`TestTradesNotCanceled`), `ContractIsKept` (`ImplementsContract`) | `SettleInv`; `SafeInv`; `SafeInv` and `OneInv` |
| `SetTheorems` | lemmas: the minimum of a set of naturals, sums over finite sets | |

**MEESUT**, any finite set of threads, any number of connections, any failures.
`PoolSound` is not inductive: `ReleaseSocket` puts back whatever `pSocket` holds,
so one must know that it holds a socket. `IInv` adds `HoldsInv` (the program
points that hold a socket), `WaitersInv` (who is blocked on `m_PoolCond`; without
it the signal could wake a thread that holds a socket), `CountInv` (the counter
is the cardinality of the set of threads between `threadStarted` and
`threadFinished`) and `DtorInv` (nothing is outstanding once destroyed).
`ReplyInv` is about what lies unread on a socket: a reply there is that of the
thread that holds the socket and is in `recv`. A thread that gives up
reconnects before the next one can acquire the socket, and with the pool
invariant nobody else reads from it. Assumptions: the set of threads is finite,
at least one connection is asked for, `NoSocket` is not a socket.

**MarketTimer**, any number of workers, requests and delays. `m_NextTimerDelay`
is out of date in two windows: between `SubmitTradeRequest` and
`updateNextTimer`, and between `GenerateTradeResult` and the lock after it.
`TimerInv` says what makes up for it: a worker still on its way (`CoveredInv`) or
a generation that differs from the one the timer thread read, so that it drops
its result (`StaleInv`). The second needs the generation not to come back to
that value. `WakeupsAreNotLost` therefore has a hypothesis, `FewRequests`: there
are fewer requests than values of the counter (2^32 in the code). Without it the
invariant is false: after exactly `GenerationMod` hand-overs within one call of
`GenerateTradeResult` the timer thread would store an old result.

**BrokerageWorker**, any number of requests of any types, any retry limit, any
number of ticker entries. The programs of the transactions matter only through
the order of their phases (before BEGIN, after it, with work done, committed),
which one lemma per program states (`Ordered`). `RunInv` says for each phase
what the session holds, `AppliedInv` how often the work of the running request
has become durable, whatever the harness says of it after COMMIT, `PendingInv` to whom uncommitted work belongs: without the
last, a later COMMIT on the same session could make work durable that was
answered as failed.

**Holdings**, any number of trades, lots, quantities and retries. Two arguments
meet. The first is about Frame 2 alone: `Liquidate` is a loop, `acc[i]` is what
the first i holdings leave, and a loop invariant (`LotsInv`, `RowsInv`,
`ValueInv`) says that the shares consumed so far are those of a prefix of the
list, that the history rows account for them, and that the values are those of
the reference. The result is `Frame2IsSound`: a sound position stays sound. The
second is about the interleaving: `FrameInv` says that at most one transaction
has run Frame 2, and that what it is about to commit was computed from the
position that is still committed; `SnapshotInv` that a snapshot which is not
stale shows that position. Neither the summary nor the ledger is inductive
alone: `hs_qty` is computed from what Frame 1 read, and the ledger needs the
identities of the lots to be unique. Assumptions: the loader leaves each
position finite, on one side, with unique identities that are not those of the
trades to come (`LoadedAssumption`), and `NoRow` is not a number.

**FrameEquivalence**, any loaded holdings, orders, prices and tax rate, any number
of trades. `EstimatesComeTrue` puts two loops beside each other: `LiquidateOne`
of Trade-Result and `EstimateOne` of Trade-Order take the same shares of the same
row in each round, also where the client stops at exactly zero and the others at
not more than zero. It holds in every implementation and for every order of the
rows that ORDER BY permits (`ListsRead`); of the databases it needs only that each
holds finitely many lots (`LotsInv`).

`PlpgsqlIsClient` compares two databases that are not equal: the time stamps in
one are those of the other rounded to seconds (`PairInv`; identity, price and
quantity are the same). Rounding is monotone, so the two sort alike as long as no two
lots of a database have the same time stamp (`tied`), and then the sorted list is
unique; the loops run in lockstep over it, and what they leave corresponds again. The
hypothesis `Compared \subseteq {"client", "plpgsql"}` says which implementations
are compared; with C the statement is false (`frame2_c`). Assumptions: the loaded
holdings are finite, have unique identities other than those of the trades to
come, and are dated before the first trade; amounts are integers.

**FrameSuite**, any trades, accounts, lists of ids, windows, limits, rates and
loaded tables, any number of frames. Six frames loop over a list of trades, in three
implementations each. The eighteen loops are put into one form: a run is a
function of the number of rounds, each round the body applied to the next trade
(`IsRun`). What is then shown of a round:

1. `Effect`: what the body does to tables and counters, once per frame and
   implementation. The invariant of a run (`RunInv`) is that the tables differ from
   those at the start in one column, in as many rows as `num_updated` says, all of
   them of trades already looked at, and that `num_updated` has not passed
   `max_updates`. `CountsAreExact` follows; the trades of a list must differ, for a
   trade listed twice would be toggled back and counted twice.
2. `Filled` (client, plpgsql: a cell per row) and `Added` (C: a list per group):
   which groups of columns the body writes for trade k, and that the value is the
   row as it is after the update of this round. `Rows` says so of all rounds so far:
   a later round touches no trade of an earlier one, so that a row stays current.
   `RowsAreOfTheirTrades` follows after `TokenizeSmart` and the copying; for the
   client and plpgsql also with rows missing, where a cell may only be unset.
3. If every trade is complete no cell is left unset (`Full`), no list of C is short,
   and no body continues or fails early.
4. Two implementations on the same list run abreast (`RunsAbreast`): the same
   tables and counters after each round. With 3 their answers are the same.

Around the loops, `SuiteInv` is the invariant of a behaviour: `TablesOK` (which
trade has rows where, and which values they may have), `MoneyOf` (balances and
totals as sums over the settled trades; `DoTradeResult` adds one trade to each)
and `AskedInv` (`out` is what the implementations answer to `asked` on `db`).
`WholeInv` adds that a maintained table holds values the frame knows (`MaintOf`): C
computes the next tax rate from its digit, the others go through the cases, and the
two agree on rates that exist only; the middle security of a watch list is there to
be replaced if the list is not empty. Without it `SameTables` does not follow.
Assumptions, named in the
modules: trades are finitely many with distinct dates (`SuiteAssumption`), the ids
of a list differ, as EGen generates them, and fit the arrays; rates are natural
numbers (`RatesAssumption`); no row equals the marks for a missing one
(`RowsAssumption`); no trade has the id `Null` (`HoldingsAssumption`); the loader
writes values that Data-Maintenance knows (`LoadedAssumption`).

**TradeLife**, any number of trades, feeds, drivers and tests. For
`SettledOnce`: Trade-Result writes in one step, where the primary keys are
checked, and commits in a later one; `WroteFresh` says that one which has
written and not committed belongs to a trade that is not completed. It survives
the other transactions because only Trade-Result adds a completed row. `SafeInv`
is what holds although several drivers clean up at any time: who may still send
a trade (`OrderInv`, `RequestInv`, `FeedInv`: the lock on `last_trade` lets one
Market-Feed entry at a time touch the limit orders, and after its COMMIT it alone
sends them), and what a Trade-Cleanup in progress has established about the
trades on its list (`CleanupInv`).

For one driver (`OneDriver`, what `dbt5-run` starts unless it is given a
configuration with several), Trade-Cleanup runs alone: until it is over, nothing
is in the market, no order or Trade-Result is open and no Market-Feed has begun
(`QuietInv`); `ProgressInv` says how far it is, so that its COMMIT cancels exactly
the unfinished trades. From this follows the refinement: each committed change is
one action of `TradeContract`, every other step a stutter. With several drivers
the statements are false (`trade_cancel`). Assumptions: the bounds and prices
are natural numbers, feeds and drivers are finitely many.

**Induction.** The induction theorems of the library take an operator as a
parameter and cannot be instantiated by the installed provers. `SetTheorems`
takes well-foundedness of the naturals (a theorem without such a parameter) to
show that a non-empty set of naturals has a least element; each induction here,
on the length of a list or the size of a set, looks at a least counterexample.

Only model-checked:

* liveness (`RequestsFinish`, `DestructorReturns`, `EveryRequestFires`,
  `TimerThreadJoins`, `RequestsAnswered`, `TradesEnd`, `ResultsEnd`), which is out
  of the prover's reach;
* the properties that are expected to fail: a counterexample is their proof.

## Not modelled

* Loader, scripts (but for `stop_processes`), packaging, test tools, logging, input
  dumps: no concurrent state; input and output.
* Broker-Volume, Customer-Position, Market-Watch, Security-Detail, Trade-Status and
  Frames 1, 2 and 4 of Trade-Order as comparisons of implementations: each is the
  same SQL text three times with copying around it, so that a model would be one
  definition used three times. Their place in the transactions is in
  `BrokerageWorker`, and what Frame 4 inserts is in `TradeLife`.
* The threads of the driver: a customer thread shares nothing with another but the
  log files; what matters of the driver, Trade-Cleanup before the customers, is in
  `TradeLife`. That `pthread_create` of the Data-Maintenance thread is not checked
  is noted as a hazard.
* The socket behind the single retry of `SendToMarket`, and the buffer sizes of the
  C functions.
* EGen (the emulator, the harness that calls the frames, input generation) and
  PostgreSQL: external, modelled from how the code uses them.
* Floating point: prices are integers in the models, values are exact.

## Plan

Every invariant and every action property of a passing run is proved. What is left:

1. The C functions in `FrameEquivalence`, once the conversion of the date is
   corrected in `trade_result.c`: then the hypothesis of `PlpgsqlIsClient` can go,
   with a second correspondence of databases.
2. Trades that are not complete: which rows the C functions return for them, as a
   property of its own instead of a case that `Comparable` leaves out.
3. The query frames (Customer-Position, Security-Detail and the like), if their
   three versions grow apart.
