-------------------------- MODULE BrokerageWorker ---------------------------
(***************************************************************************)
(* One worker thread of the Brokerage House                                *)
(* (src/BrokerageHouse/BrokerageHouse.cpp, workerThread) and the database  *)
(* session it owns (src/transactions/pgsql/DBConnection.cpp): receive a    *)
(* request, run its transaction frame by frame, run it again after a       *)
(* serialization failure, answer with a status.                            *)
(*                                                                         *)
(* PostgreSQL and the EGen harness (CTradeOrder::DoTxn and its siblings,   *)
(* which call the frames in order) are external; other sessions appear as  *)
(* the errors they cause.                                                  *)
(*                                                                         *)
(* A unit is a piece of work that one COMMIT makes durable: a Market-Feed  *)
(* has one per ticker entry, every other transaction has one.              *)
(***************************************************************************)
EXTENDS Naturals, Sequences

CONSTANTS
    iMaxRetries,    \* 10 in DBT5Consts.h
    Entries,        \* ticker entries of a Market-Feed; 20 in the code
    MaxMessages,    \* bound: requests this worker receives
    Types           \* the transaction types offered to it

AllTypes == {"BROKER_VOLUME", "MARKET_WATCH", "SECURITY_DETAIL", "TRADE_LOOKUP",
             "TRADE_STATUS", "TRADE_UPDATE", "DATA_MAINTENANCE", "TRADE_CLEANUP",
             "CUSTOMER_POSITION", "TRADE_ORDER", "TRADE_RESULT", "MARKET_FEED",
             "UNKNOWN"}

ASSUME RetriesAssumption == iMaxRetries \in Nat
ASSUME EntriesAssumption == Entries \in Nat \ {0}
ASSUME MessagesAssumption == MaxMessages \in Nat
ASSUME TypesAssumption == Types \subseteq AllTypes

Messages == 1..MaxMessages
Units == 1..Entries

VARIABLES
    pc,         \* "connect", "receive", "run", "reply", "dead"
    msg,        \* number of the current request, 0 before the first
    type,       \* TxnType of each request received
    at,         \* next operation of the current transaction's program
    nRetries,
    status,     \* the harness's output status
    iRet,       \* the status of the current request
    answer,     \* the status each request ended with, "none" until then
    session,    \* state of the database session
    level,      \* isolation level of the open transaction
    pending,    \* work done in the open transaction: <<message, unit>>
    applied,    \* times each unit of each request was committed
    doubt       \* requests whose ROLLBACK was skipped or whose COMMIT got no answer

dbVars == <<session, level, pending, applied>>
vars == <<pc, msg, type, at, nRetries, status, iRet, answer, session,
          level, pending, applied, doubt>>

(***************************************************************************)
(* What the frames of each transaction do, in order: BEGIN with an         *)
(* isolation level, frame bodies, the harness's checks between frames, and *)
(* the end of the transaction (src/transactions/...DB.cpp).  What the      *)
(* harness says of the output after the last COMMIT is Judge below.        *)
(***************************************************************************)
(* One frame with its own BEGIN and COMMIT.                                *)
SingleFrame == <<"begin", "exec", "commit">>

BrokerVolumeProgram   == SingleFrame
MarketWatchProgram    == SingleFrame
SecurityDetailProgram == SingleFrame
TradeStatusProgram    == SingleFrame
TradeCleanupProgram   == SingleFrame

(* Frame 1, 2, 3 or 4, whichever the input selects; each commits before    *)
(* the harness counts what it found and updated.                           *)
TradeLookupProgram == SingleFrame
TradeUpdateProgram == SingleFrame

(* Frame 1, then Frame 2 or 3.                                             *)
CustomerPositionProgram == <<"begin", "exec", "check", "exec", "commit">>

(* escape() builds statements in the middle of the frame.                  *)
DataMaintenanceProgram == <<"begin", "exec", "escape", "exec", "commit">>

(* Frames 1 to 6.                                                          *)
TradeResultProgram ==
    <<"begin", "exec", "check", "exec", "exec", "check", "exec", "check", "exec", "exec", "commit">>

(* Frames 1 to 4, then Frame 5 or 6; the trade goes to the market last.    *)
TradeOrderProgram ==
    <<"begin", "exec", "exec", "exec", "exec", "decide", "commit", "send">>

(* Every ticker entry has its own transaction, and the limit orders it     *)
(* triggered go to the market after its COMMIT.                            *)
MarketFeedProgram ==
    [i \in 1..(4 * Entries) |-> <<"begin", "exec", "commit", "send">>[((i - 1) % 4) + 1]]

Program(t) ==
    CASE t = "BROKER_VOLUME"     -> BrokerVolumeProgram
      [] t = "CUSTOMER_POSITION" -> CustomerPositionProgram
      [] t = "DATA_MAINTENANCE"  -> DataMaintenanceProgram
      [] t = "MARKET_FEED"       -> MarketFeedProgram
      [] t = "MARKET_WATCH"      -> MarketWatchProgram
      [] t = "SECURITY_DETAIL"   -> SecurityDetailProgram
      [] t = "TRADE_CLEANUP"     -> TradeCleanupProgram
      [] t = "TRADE_LOOKUP"      -> TradeLookupProgram
      [] t = "TRADE_ORDER"       -> TradeOrderProgram
      [] t = "TRADE_RESULT"      -> TradeResultProgram
      [] t = "TRADE_STATUS"      -> TradeStatusProgram
      [] t = "TRADE_UPDATE"      -> TradeUpdateProgram
      [] t = "UNKNOWN"           -> <<>>

(* The level each transaction sets after BEGIN.  Trade-Cleanup sets none   *)
(* and gets PostgreSQL's default.                                          *)
Level(t) ==
    CASE t = "TRADE_RESULT" -> "serializable"
      [] t \in {"TRADE_ORDER", "TRADE_UPDATE", "MARKET_FEED"} -> "repeatable read"
      [] OTHER -> "read committed"

(* Types whose last frame ends its own transaction before the harness      *)
(* looks at its output: the broker list (-111), the history of             *)
(* Customer-Position's Frame 2 (-221), the symbols of a Market-Feed        *)
(* (-311), days, financials and news (-51x), the trades found or updated   *)
(* (6xx, -911, 10xx).  Market-Watch's -411 is about an input that the      *)
(* EGen generator never makes.                                             *)
JudgedTypes == {"BROKER_VOLUME", "CUSTOMER_POSITION", "MARKET_FEED", "SECURITY_DETAIL",
                "TRADE_LOOKUP", "TRADE_STATUS", "TRADE_UPDATE"}

Me == type[msg]
Op == Program(Me)[at]
Running(op) == pc = "run" /\ at <= Len(Program(Me)) /\ Op = op
Unit == IF Me = "MARKET_FEED" THEN ((at - 1) \div 4) + 1 ELSE 1

(* "idle", "begun" (no statement yet), "open", "failed" (needs ROLLBACK),  *)
(* "lost" (the connection is broken; the worker never reconnects).         *)
Sessions == {"idle", "begun", "open", "failed", "lost"}

(* SUCCESS, EXPECTED_ROLLBACK, a negative harness status ("invalid run")   *)
(* from a check before COMMIT, ERR_TYPE_WRONGTXN, and a negative status or *)
(* a positive warning from a check after COMMIT.                           *)
Statuses == {"success", "rollback", "invalid", "wrongtxn", "judged"}

Init ==
    /\ pc = "connect"
    /\ msg = 0
    /\ type = [m \in Messages |-> "UNKNOWN"]
    /\ at = 1
    /\ nRetries = 0
    /\ status = "success"
    /\ iRet = "success"
    /\ answer = [m \in Messages |-> "none"]
    /\ session = "idle"
    /\ level = "read committed"
    /\ pending = {}
    /\ applied = [m \in Messages |-> [u \in Units |-> 0]]
    /\ doubt = {}

-----------------------------------------------------------------------------
(* Connecting, receiving and answering.                                    *)

(* The database connection may fail, which only later statements notice;   *)
(* a market exchange that cannot be reached ends the thread.               *)
Connect ==
    /\ pc = "connect"
    /\ pc' \in {"receive", "dead"}
    /\ session' \in {"idle", "lost"}
    /\ UNCHANGED <<msg, type, at, nRetries, status, iRet, answer, level, pending, applied, doubt>>

Receive ==
    /\ pc = "receive"
    /\ msg < MaxMessages
    /\ msg' = msg + 1
    /\ \E t \in Types : type' = [type EXCEPT ![msg'] = t]
    /\ at' = 1
    /\ nRetries' = 0
    /\ status' = "success"
    /\ pc' = "run"
    /\ UNCHANGED <<iRet, answer, dbVars, doubt>>

(* The peer closed the connection, or receiving failed: the thread ends    *)
(* and PQfinish rolls back whatever is open.                               *)
ReceiveFails ==
    /\ pc = "receive"
    /\ pc' = "dead"
    /\ session' = "lost"
    /\ pending' = {}
    /\ UNCHANGED <<msg, type, at, nRetries, status, iRet, answer, level, applied, doubt>>

Reply ==
    /\ pc = "reply"
    /\ answer' = [answer EXCEPT ![msg] = iRet]
    /\ \/ /\ pc' = "receive"
          /\ UNCHANGED <<session, pending>>
       \/ /\ pc' = "dead"
          /\ session' = "lost"
          /\ pending' = {}
    /\ UNCHANGED <<msg, type, at, nRetries, status, iRet, level, applied, doubt>>

-----------------------------------------------------------------------------
(* Errors thrown out of a frame.                                           *)

(* Mutant: retried without a limit.                                        *)
Bug_ThrowRetryable ==
    /\ nRetries' = nRetries + 1
    /\ at' = 1
    /\ status' = "success"
    /\ UNCHANGED <<pc, iRet>>

(* CDBRetryableError: run the transaction again from its first frame, or   *)
(* give up after iMaxRetries.                                              *)
ThrowRetryable ==
    /\ nRetries' = nRetries + 1
    /\ IF nRetries' <= iMaxRetries
       THEN at' = 1 /\ UNCHANGED <<pc, iRet>>
       ELSE pc' = "reply" /\ iRet' = "rollback" /\ UNCHANGED at
    /\ status' = "success"

(* Mutant: every error is retried.                                         *)
Bug_ThrowString ==
    /\ at' = 1
    /\ UNCHANGED <<pc, iRet, nRetries, status>>

(* std::string: answered as EXPECTED_ROLLBACK.                             *)
ThrowString ==
    /\ pc' = "reply"
    /\ iRet' = "rollback"
    /\ UNCHANGED <<at, nRetries, status>>

(* ROLLBACK, whose result nobody looks at.                                 *)
Rollback ==
    /\ session' = IF session = "lost" THEN "lost" ELSE "idle"
    /\ pending' = {}

-----------------------------------------------------------------------------
(* The operations of a transaction.                                        *)

(* begin() and the isolation level, neither checked.  Inside an open       *)
(* transaction BEGIN only warns, and a different level is an error that    *)
(* aborts the transaction.  Trade-Cleanup sets no level.                   *)
Begin ==
    /\ Running("begin")
    /\ session' = CASE session = "idle" -> "begun"
                    [] session = "open" /\ Me # "TRADE_CLEANUP" /\ level # Level(Me) -> "failed"
                    [] OTHER -> session
    /\ level' = IF session \in {"idle", "begun"} THEN Level(Me) ELSE level
    /\ pending' = IF session' = "failed" THEN {} ELSE pending
    /\ at' = at + 1
    /\ UNCHANGED <<pc, msg, type, nRetries, status, iRet, answer, applied, doubt>>

(* A frame body runs to its end.                                           *)
ExecSucceeds ==
    /\ Running("exec")
    /\ session \in {"begun", "open"}
    /\ session' = "open"
    /\ pending' = pending \cup {<<msg, Unit>>}
    /\ at' = at + 1
    /\ UNCHANGED <<pc, msg, type, nRetries, status, iRet, answer, level, applied, doubt>>

(* A statement fails with 40001 or 40P01: exec() rolls back and throws.    *)
ExecConflicts ==
    /\ Running("exec")
    /\ session \in {"begun", "open"}
    /\ Rollback
    /\ ThrowRetryable
    /\ UNCHANGED <<msg, type, answer, level, applied, doubt>>

(* Mutant: exec() throws without rolling back.                             *)
Bug_ExecFails ==
    /\ Running("exec")
    /\ ThrowString
    /\ UNCHANGED <<msg, type, answer, dbVars, doubt>>

(* Any other error, the connection's loss included.                        *)
ExecFails ==
    /\ Running("exec")
    /\ \/ session # "lost" /\ Rollback
       \/ session' = "lost" /\ pending' = {}
    /\ ThrowString
    /\ UNCHANGED <<msg, type, answer, level, applied, doubt>>

(* A std::exception inside a frame.  Run...() turns it into a status;      *)
(* only CUSTOMER_POSITION and TRADE_RESULT are then rolled back.           *)
ExecThrowsException ==
    /\ Running("exec")
    /\ session \in {"begun", "open"}
    /\ status' = "rollback"
    /\ at' = Len(Program(Me)) + 1
    /\ pending' = pending \cup {<<msg, Unit>>}
    /\ session' = "open"
    /\ doubt' = doubt \cup {msg}
    /\ UNCHANGED <<pc, msg, type, nRetries, iRet, answer, level, applied>>

(* escape() throws its string without rolling back.                        *)
Escape ==
    /\ Running("escape")
    /\ \/ at' = at + 1 /\ UNCHANGED <<pc, nRetries, status, iRet, doubt>>
       \/ ThrowString /\ doubt' = doubt \cup {msg}
    /\ UNCHANGED <<msg, type, answer, dbVars>>

(* The harness finds a frame's output wrong and returns with the           *)
(* transaction open, or goes on; Customer-Position may skip to Frame 3,    *)
(* which only commits.                                                     *)
Check ==
    /\ Running("check")
    /\ \/ at' = at + 1 /\ UNCHANGED status
       \/ Me = "CUSTOMER_POSITION" /\ at' = at + 2 /\ UNCHANGED status
       \/ at' = Len(Program(Me)) + 1 /\ status' = "invalid"
    /\ UNCHANGED <<pc, msg, type, nRetries, iRet, answer, dbVars, doubt>>

(* Trade-Order ends in Frame 5 (rolled back on request or because a check  *)
(* failed) or goes on to Frame 6.                                          *)
Decide ==
    /\ Running("decide")
    /\ \/ at' = at + 1 /\ UNCHANGED <<status, session, pending>>
       \/ /\ Rollback
          /\ status' \in {"rollback", "invalid"}
          /\ at' = Len(Program(Me)) + 1
    /\ UNCHANGED <<pc, msg, type, nRetries, iRet, answer, level, applied, doubt>>

(* Applying what the transaction did.                                      *)
Apply ==
    applied' = [m \in Messages |-> [u \in Units |->
                    IF <<m, u>> \in pending THEN applied[m][u] + 1 ELSE applied[m][u]]]

CommitSucceeds ==
    /\ Running("commit")
    /\ session \in {"begun", "open"}
    /\ Apply
    /\ session' = "idle"
    /\ pending' = {}
    /\ at' = at + 1
    /\ UNCHANGED <<pc, msg, type, nRetries, status, iRet, answer, level, doubt>>

(* Mutant: commit() does not look at the result.                           *)
Bug_CommitConflicts ==
    /\ Running("commit")
    /\ session = "open"
    /\ session' = "idle"
    /\ pending' = {}
    /\ at' = at + 1
    /\ UNCHANGED <<pc, msg, type, nRetries, status, iRet, answer, level, applied, doubt>>

CommitConflicts ==
    /\ Running("commit")
    /\ session = "open"
    /\ session' = "idle"
    /\ pending' = {}
    /\ ThrowRetryable
    /\ UNCHANGED <<msg, type, answer, level, applied, doubt>>

(* Any other failure of COMMIT.  When the connection breaks the server may *)
(* have committed already.                                                 *)
CommitFails ==
    /\ Running("commit")
    /\ \/ session # "lost" /\ session' = "idle" /\ UNCHANGED <<applied, doubt>>
       \/ /\ session' = "lost"
          /\ Apply \/ UNCHANGED applied
          /\ doubt' = doubt \cup {w[1] : w \in pending}
    /\ pending' = {}
    /\ ThrowString
    /\ UNCHANGED <<msg, type, answer, level>>

(* SendToMarket, outside any transaction; a failure is only reported.      *)
Send ==
    /\ Running("send")
    /\ at' = at + 1
    /\ UNCHANGED <<pc, msg, type, nRetries, status, iRet, answer, dbVars, doubt>>

(* The harness does not like what a frame that has committed returned, for *)
(* instance a Trade-Update with num_updated != max_updates (-1012): the    *)
(* request is answered with its status, and what it did stays committed.   *)
(* Customer-Position's history is only judged after Frame 2; which frame   *)
(* ran is not kept, and they leave the same state.                         *)
Judge ==
    /\ pc = "run"
    /\ at > Len(Program(Me))
    /\ Me \in JudgedTypes
    /\ status = "success"
    /\ status' = "judged"
    /\ UNCHANGED <<pc, msg, type, at, nRetries, iRet, answer, dbVars, doubt>>

(* Mutant: no rollback after an early return.                              *)
Bug_Finish ==
    /\ pc = "run"
    /\ at > Len(Program(Me))
    /\ iRet' = IF Me = "UNKNOWN" THEN "wrongtxn" ELSE status
    /\ pc' = "reply"
    /\ UNCHANGED <<msg, type, at, nRetries, status, answer, dbVars, doubt>>

(* DoTxn returned: take its status, and for two of the types roll back     *)
(* what an early return left open.                                         *)
Finish ==
    /\ pc = "run"
    /\ at > Len(Program(Me))
    /\ iRet' = IF Me = "UNKNOWN" THEN "wrongtxn" ELSE status
    /\ IF Me \in {"CUSTOMER_POSITION", "TRADE_RESULT"} /\ status # "success"
       THEN Rollback
       ELSE UNCHANGED <<session, pending>>
    /\ pc' = "reply"
    /\ UNCHANGED <<msg, type, at, nRetries, status, answer, level, applied, doubt>>

Step == Begin \/ ExecSucceeds \/ ExecConflicts \/ ExecFails \/ ExecThrowsException
        \/ Escape \/ Check \/ Decide
        \/ CommitSucceeds \/ CommitConflicts \/ CommitFails \/ Send \/ Judge \/ Finish

Next == Connect \/ Receive \/ ReceiveFails \/ Step \/ Reply

(* Statements return and the thread is scheduled.                          *)
Spec == Init /\ [][Next]_vars /\ WF_vars(Step \/ Reply)

-----------------------------------------------------------------------------
(* Properties.                                                             *)

(* Types of the worker's locals; nRetries stays within the retry limit and *)
(* the attempt that exceeds it.                                            *)
TypeOK ==
    /\ pc \in {"connect", "receive", "run", "reply", "dead"}
    /\ msg \in 0..MaxMessages
    /\ type \in [Messages -> AllTypes]
    /\ at \in Nat \ {0}
    /\ nRetries \in 0..(iMaxRetries + 1)
    /\ status \in Statuses
    /\ iRet \in Statuses
    /\ answer \in [Messages -> Statuses \cup {"none"}]
    /\ session \in Sessions
    /\ level \in {"read committed", "repeatable read", "serializable"}
    /\ pending \subseteq Messages \X Units
    /\ applied \in [Messages -> [Units -> Nat]]
    /\ doubt \subseteq Messages

(* The session is clean between requests: no transaction is open when the  *)
(* worker has finished a request, except for work of requests whose        *)
(* rollback a std::exception or a failed escape() skipped.                 *)
SessionClean ==
    pc \in {"receive", "reply"} =>
        \/ session \in {"idle", "lost"} /\ pending = {}
        \/ session = "open" /\ \A w \in pending : w[1] \in doubt

(* The statuses of a request that got past its last COMMIT.                *)
PastCommit == {"success", "judged"}

(* SUCCESS is the truth: a request that ended with SUCCESS was committed   *)
(* in full, and, Market-Feed apart, exactly once, however often it was     *)
(* retried and whatever the session did afterwards.  So was a request      *)
(* answered with the status of a check that follows COMMIT: a Trade-Update *)
(* answered with -1011, -1012, -1021, -1022, -1031 or -1032 has made its   *)
(* updates, although the worker reports an invalid run.                    *)
SuccessMeansApplied ==
    \A m \in Messages : answer[m] \in PastCommit =>
        IF type[m] = "MARKET_FEED" THEN \A u \in Units : applied[m][u] >= 1
                                   ELSE applied[m][1] = 1

(* A request answered with EXPECTED_ROLLBACK, with ERR_TYPE_WRONGTXN or    *)
(* with the status of a check made before COMMIT (Customer-Position's      *)
(* -211, Trade-Order's -7xx, Trade-Result's -8xx) left nothing behind: not *)
(* at the time and not through the COMMIT of a later request on the        *)
(* session.  Excepted are the statuses of checks made after COMMIT, of     *)
(* which SuccessMeansApplied says the opposite, Market-Feed, which commits *)
(* entry by entry, and requests in doubt.                                  *)
FailureMeansNothingApplied ==
    \A m \in Messages :
        answer[m] \notin {"none"} \cup PastCommit /\ type[m] # "MARKET_FEED" /\ m \notin doubt =>
            applied[m][1] = 0

(* Every request is answered, or the thread ends: retries are bounded and  *)
(* no error path loses the reply.                                          *)
RequestsAnswered == (pc = "run") ~> (pc \in {"receive", "dead"})

(* A retry is a rerun of "the whole transaction" that was aborted: no      *)
(* entry of a Market-Feed is applied more than once.                       *)
FeedEntryAppliedOnce ==
    \A m \in Messages, u \in Units : type[m] = "MARKET_FEED" => applied[m][u] <= 1
=============================================================================
