----------------------- MODULE BrokerageWorker_proofs -----------------------
(***************************************************************************)
(* Proofs about BrokerageWorker, for any number of requests of any types,  *)
(* any retry limit and any number of ticker entries.                       *)
(*                                                                         *)
(* The argument follows the phases of a transaction: before its BEGIN,     *)
(* right after it, with work done and not committed, and after its COMMIT. *)
(* The programs only matter through the order of these phases, which one   *)
(* lemma states; the inductive invariant says for each phase what the      *)
(* session holds and what has been applied.                                *)
(***************************************************************************)
EXTENDS BrokerageWorker, TLAPS

(* Where operation i of program P stands in its transaction.               *)
PhaseIn(P, i) ==
    IF i > Len(P) THEN "end"
    ELSE IF P[i] = "begin" THEN "start"
    ELSE IF P[i] = "send" THEN "committed"
    ELSE IF i > 1 /\ P[i - 1] = "begin" THEN "fresh" ELSE "working"

Phase == PhaseIn(Program(Me), at)

(* All that was asked for has been done and committed, whatever the        *)
(* harness says of the output afterwards.                                  *)
Completed == Phase = "end" /\ status \in PastCommit /\ Me # "UNKNOWN"

(* Nothing is open but what requests in doubt have left.                   *)
Clean == \/ session \in {"idle", "lost"} /\ pending = {}
         \/ session = "open" /\ \A w \in pending : w[1] \in doubt

(* The session in each phase of the request that runs.                     *)
RunInv ==
    pc = "run" =>
        /\ msg \in Messages
        /\ nRetries <= iMaxRetries
        /\ status # "success" => Phase = "end" /\ Me # "UNKNOWN"
        /\ Phase = "start" => Clean
        /\ Phase = "fresh" => session \in {"begun", "open", "failed", "lost"}
        /\ Phase = "working" => session = "open" /\ <<msg, Unit>> \in pending
        /\ Phase = "committed" \/ Completed => session = "idle" /\ pending = {}
        /\ Phase = "end" /\ Me = "UNKNOWN" => Clean
        /\ Phase = "end" /\ status # "success" =>
              \/ session \in {"idle", "lost"} /\ pending = {}
              \/ session = "open" /\ (msg \in doubt \/ Me \in {"CUSTOMER_POSITION", "TRADE_RESULT"})

(* Uncommitted work belongs to the request that runs or to one in doubt,   *)
(* never to one whose answer says that it was committed.                   *)
PendingInv ==
    \A w \in pending : /\ w[1] <= msg
                       /\ answer[w[1]] \notin PastCommit
                       /\ w[1] \in doubt \/ (pc = "run" /\ w[1] = msg)

(* Requests to come have left no trace, and the current one no answer.     *)
UnseenInv ==
    /\ \A m \in Messages : m > msg => answer[m] = "none" /\ applied[m] = [u \in Units |-> 0]
    /\ pc \in {"run", "reply"} => answer[msg] = "none"

(* What the running request has applied so far.                            *)
AppliedInv ==
    pc = "run" =>
        /\ Me # "MARKET_FEED" =>
              applied[msg][1] = IF Phase = "committed" \/ Completed THEN 1 ELSE 0
        /\ Me = "MARKET_FEED" /\ status \in PastCommit =>
              \A u \in Units : u < Unit \/ (u = Unit /\ Phase = "committed") =>
                 applied[msg][u] >= 1

(* The status a request is about to be answered with is the truth.         *)
AnswerInv ==
    pc = "reply" =>
        /\ msg \in Messages
        /\ iRet \in PastCommit =>
              /\ pending = {}
              /\ Me # "MARKET_FEED" => applied[msg][1] = 1
              /\ Me = "MARKET_FEED" => \A u \in Units : applied[msg][u] >= 1
        /\ iRet \notin PastCommit /\ Me # "MARKET_FEED" /\ msg \notin doubt =>
              applied[msg][1] = 0

ConnectInv == pc = "connect" => pending = {}

(* The session and the request that runs.                                  *)
CurrentInv == RunInv /\ PendingInv /\ SessionClean /\ ConnectInv /\ AppliedInv /\ AnswerInv

(* The requests answered and the requests to come.                         *)
ResultInv == UnseenInv /\ SuccessMeansApplied /\ FailureMeansNothingApplied

WorkerInv == TypeOK /\ CurrentInv /\ ResultInv

USE DEF PastCommit

-----------------------------------------------------------------------------
(* The programs.                                                           *)

Ops == {"begin", "exec", "escape", "check", "decide", "commit", "send"}

(* The order of the phases in program P of transaction type t.             *)
Ordered(t, P) ==
    /\ Len(P) \in Nat
    /\ PhaseIn(P, 1) = "start"
    /\ \A i \in 1..Len(P) :
         /\ P[i] \in Ops
         /\ P[i] = "begin" => PhaseIn(P, i + 1) = "fresh"
         /\ PhaseIn(P, i) = "fresh" => P[i] = "exec"
         /\ P[i] \in {"exec", "escape", "check", "decide"} => PhaseIn(P, i + 1) = "working"
         /\ P[i] = "commit" => PhaseIn(P, i + 1) \in {"committed", "end"}
         /\ P[i] = "send" => PhaseIn(P, i + 1) \in {"start", "end"}
         /\ P[i] = "send" /\ t # "MARKET_FEED" => PhaseIn(P, i + 1) = "end"
         /\ P[i] = "check" => t \in {"CUSTOMER_POSITION", "TRADE_RESULT"}
         /\ P[i] = "check" /\ t = "CUSTOMER_POSITION" => PhaseIn(P, i + 2) = "working"
         /\ P[i] = "decide" => t = "TRADE_ORDER"

(* One frame.                                                              *)
LEMMA SingleFrameOrder ==
  ASSUME NEW t
  PROVE  Ordered(t, <<"begin", "exec", "commit">>)
  <1> DEFINE P == <<"begin", "exec", "commit">>
  <1>1. /\ Len(P) = 3 /\ P[1] = "begin" /\ P[2] = "exec" /\ P[3] = "commit"
    OBVIOUS
  <1> HIDE DEF P
  <1>2. /\ PhaseIn(P, 1) = "start" /\ PhaseIn(P, 2) = "fresh"
        /\ PhaseIn(P, 3) = "working" /\ PhaseIn(P, 4) = "end"
    BY <1>1 DEF PhaseIn
  <1>3. 1..Len(P) = {1, 2, 3}
    BY <1>1
  <1>4. Ordered(t, P)
    BY <1>1, <1>2, <1>3 DEF Ordered, Ops
  <1> QED
    BY <1>4 DEF P

(* Customer-Position's two frames.                                         *)
LEMMA CustomerPositionOrder ==
  ASSUME NEW t, t = "CUSTOMER_POSITION"
  PROVE  Ordered(t, <<"begin", "exec", "check", "exec", "commit">>)
  <1> DEFINE P == <<"begin", "exec", "check", "exec", "commit">>
  <1>1. /\ Len(P) = 5 /\ P[1] = "begin" /\ P[2] = "exec" /\ P[3] = "check"
        /\ P[4] = "exec" /\ P[5] = "commit"
    OBVIOUS
  <1> HIDE DEF P
  <1>2. /\ PhaseIn(P, 1) = "start" /\ PhaseIn(P, 2) = "fresh"
        /\ PhaseIn(P, 3) = "working" /\ PhaseIn(P, 4) = "working"
        /\ PhaseIn(P, 5) = "working" /\ PhaseIn(P, 6) = "end"
    BY <1>1 DEF PhaseIn
  <1>3. 1..Len(P) = {1, 2, 3, 4, 5}
    BY <1>1
  <1>4. Ordered(t, P)
    BY <1>1, <1>2, <1>3 DEF Ordered, Ops
  <1> QED
    BY <1>4 DEF P

(* Data-Maintenance with its escape().                                     *)
LEMMA DataMaintenanceOrder ==
  ASSUME NEW t
  PROVE  Ordered(t, <<"begin", "exec", "escape", "exec", "commit">>)
  <1> DEFINE P == <<"begin", "exec", "escape", "exec", "commit">>
  <1>1. /\ Len(P) = 5 /\ P[1] = "begin" /\ P[2] = "exec" /\ P[3] = "escape"
        /\ P[4] = "exec" /\ P[5] = "commit"
    OBVIOUS
  <1> HIDE DEF P
  <1>2. /\ PhaseIn(P, 1) = "start" /\ PhaseIn(P, 2) = "fresh"
        /\ PhaseIn(P, 3) = "working" /\ PhaseIn(P, 4) = "working"
        /\ PhaseIn(P, 5) = "working" /\ PhaseIn(P, 6) = "end"
    BY <1>1 DEF PhaseIn
  <1>3. 1..Len(P) = {1, 2, 3, 4, 5}
    BY <1>1
  <1>4. Ordered(t, P)
    BY <1>1, <1>2, <1>3 DEF Ordered, Ops
  <1> QED
    BY <1>4 DEF P

(* Trade-Result's six frames.                                              *)
LEMMA TradeResultOrder ==
  ASSUME NEW t, t = "TRADE_RESULT"
  PROVE  Ordered(t, <<"begin", "exec", "check", "exec", "exec", "check", "exec", "check", "exec", "exec", "commit">>)
  <1> DEFINE P == <<"begin", "exec", "check", "exec", "exec", "check", "exec", "check", "exec", "exec", "commit">>
  <1>1. /\ Len(P) = 11 /\ P[1] = "begin" /\ P[2] = "exec" /\ P[3] = "check"
        /\ P[4] = "exec" /\ P[5] = "exec" /\ P[6] = "check" /\ P[7] = "exec"
        /\ P[8] = "check" /\ P[9] = "exec" /\ P[10] = "exec" /\ P[11] = "commit"
    OBVIOUS
  <1> HIDE DEF P
  <1>2. /\ PhaseIn(P, 1) = "start" /\ PhaseIn(P, 2) = "fresh"
        /\ PhaseIn(P, 3) = "working" /\ PhaseIn(P, 4) = "working"
        /\ PhaseIn(P, 5) = "working" /\ PhaseIn(P, 6) = "working"
        /\ PhaseIn(P, 7) = "working" /\ PhaseIn(P, 8) = "working"
        /\ PhaseIn(P, 9) = "working" /\ PhaseIn(P, 10) = "working"
        /\ PhaseIn(P, 11) = "working" /\ PhaseIn(P, 12) = "end"
    BY <1>1 DEF PhaseIn
  <1>3. 1..Len(P) = {1, 2, 3, 4, 5, 6, 7, 8, 9, 10, 11}
    BY <1>1
  <1>4. Ordered(t, P)
    BY <1>1, <1>2, <1>3 DEF Ordered, Ops
  <1> QED
    BY <1>4 DEF P

(* Trade-Order's frames, and the request to the market after them.         *)
LEMMA TradeOrderOrder ==
  ASSUME NEW t, t = "TRADE_ORDER"
  PROVE  Ordered(t, <<"begin", "exec", "exec", "exec", "exec", "decide", "commit", "send">>)
  <1> DEFINE P == <<"begin", "exec", "exec", "exec", "exec", "decide", "commit", "send">>
  <1>1. /\ Len(P) = 8 /\ P[1] = "begin" /\ P[2] = "exec" /\ P[3] = "exec"
        /\ P[4] = "exec" /\ P[5] = "exec" /\ P[6] = "decide" /\ P[7] = "commit"
        /\ P[8] = "send"
    OBVIOUS
  <1> HIDE DEF P
  <1>2. /\ PhaseIn(P, 1) = "start" /\ PhaseIn(P, 2) = "fresh"
        /\ PhaseIn(P, 3) = "working" /\ PhaseIn(P, 4) = "working"
        /\ PhaseIn(P, 5) = "working" /\ PhaseIn(P, 6) = "working"
        /\ PhaseIn(P, 7) = "working" /\ PhaseIn(P, 8) = "committed"
        /\ PhaseIn(P, 9) = "end"
    BY <1>1 DEF PhaseIn
  <1>3. 1..Len(P) = {1, 2, 3, 4, 5, 6, 7, 8}
    BY <1>1
  <1>4. Ordered(t, P)
    BY <1>1, <1>2, <1>3 DEF Ordered, Ops
  <1> QED
    BY <1>4 DEF P

(* The ticker entry that operation i of a Market-Feed belongs to.          *)
EntryOf(i) == ((i - 1) \div 4) + 1

(* Market-Feed: entry after entry, each with its own transaction; the      *)
(* operations of an entry belong to it, and the one after them to the next.*)
LEMMA MarketFeedOrder ==
  LET P == MarketFeedProgram IN
  /\ Ordered("MARKET_FEED", P)
  /\ Len(P) = 4 * Entries
  /\ \A i \in 1..Len(P) :
       /\ EntryOf(i) \in Units
       /\ P[i] = "commit" => PhaseIn(P, i + 1) = "committed"
       /\ EntryOf(i + 1) = IF P[i] = "send" THEN EntryOf(i) + 1 ELSE EntryOf(i)
  /\ EntryOf(1) = 1
  /\ EntryOf(Len(P) + 1) = Entries + 1
  <1> USE EntriesAssumption
  <1> DEFINE P == MarketFeedProgram
             four == <<"begin", "exec", "commit", "send">>
             n == 4 * Entries
  <1>1. /\ n \in Nat /\ n >= 4 /\ Len(P) = n
        /\ \A i \in 1..n : P[i] = four[((i - 1) % 4) + 1]
    BY DEF MarketFeedProgram
  <1>2. four[1] = "begin" /\ four[2] = "exec" /\ four[3] = "commit" /\ four[4] = "send"
    OBVIOUS
  <1>3. ASSUME NEW i \in Nat \ {0}
        PROVE  /\ (i - 1) % 4 \in 0..3
               /\ i = 4 * ((i - 1) \div 4) + ((i - 1) % 4) + 1
               /\ (i - 1) \div 4 \in Nat
               /\ i % 4 = IF (i - 1) % 4 = 3 THEN 0 ELSE ((i - 1) % 4) + 1
               /\ i \div 4 = IF (i - 1) % 4 = 3 THEN ((i - 1) \div 4) + 1 ELSE (i - 1) \div 4
    OBVIOUS
  <1> HIDE DEF P, four, n
  <1>4. ASSUME NEW i \in 1..n
        PROVE  /\ P[i] = "begin" <=> (i - 1) % 4 = 0
               /\ P[i] = "exec" <=> (i - 1) % 4 = 1
               /\ P[i] = "commit" <=> (i - 1) % 4 = 2
               /\ P[i] = "send" <=> (i - 1) % 4 = 3
               /\ P[i] \in {"begin", "exec", "commit", "send"}
    <2>1. i \in Nat \ {0}
      BY <1>1
    <2>2. (i - 1) % 4 = 0 \/ (i - 1) % 4 = 1 \/ (i - 1) % 4 = 2 \/ (i - 1) % 4 = 3
      BY <1>3, <2>1
    <2> QED
      BY <1>1, <1>2, <2>2
  <1>5. ASSUME NEW i \in 1..n
        PROVE  /\ (i - 1) % 4 # 3 => i + 1 \in 1..n
               /\ (i - 1) % 4 = 3 => (i + 1 > n \/ i + 1 \in 1..n)
               /\ i % 4 = IF (i - 1) % 4 = 3 THEN 0 ELSE ((i - 1) % 4) + 1
               /\ i > 1 => i - 1 \in 1..n
               /\ (i - 1) % 4 # 0 => i > 1
    BY <1>1, <1>3 DEF n
  <1>6. ASSUME NEW i \in 1..n
        PROVE  PhaseIn(P, i) = CASE (i - 1) % 4 = 0 -> "start"
                                 [] (i - 1) % 4 = 1 -> "fresh"
                                 [] (i - 1) % 4 = 2 -> "working"
                                 [] (i - 1) % 4 = 3 -> "committed"
    <2>1. ~(i > Len(P))
      BY <1>1
    <2>2. i > 1 => i - 1 \in 1..n /\ (P[i - 1] = "begin" <=> (i - 1) % 4 = 1)
      BY <1>1, <1>3, <1>4, <1>5
    <2> QED
      BY <1>3, <1>4, <1>5, <2>1, <2>2 DEF PhaseIn
  <1>7. PhaseIn(P, n + 1) = "end" /\ \A i \in 1..n : i + 1 > n => i + 1 = n + 1
    BY <1>1 DEF PhaseIn
  <1>8. Ordered("MARKET_FEED", P)
    <2>1. PhaseIn(P, 1) = "start"
      BY <1>1, <1>6
    <2>2. ASSUME NEW i \in 1..n
          PROVE  /\ P[i] = "begin" => PhaseIn(P, i + 1) = "fresh"
                 /\ PhaseIn(P, i) = "fresh" => P[i] = "exec"
                 /\ P[i] = "exec" => PhaseIn(P, i + 1) = "working"
                 /\ P[i] = "commit" => PhaseIn(P, i + 1) = "committed"
                 /\ P[i] = "send" => PhaseIn(P, i + 1) \in {"start", "end"}
      <3>1. (i + 1) - 1 = i
        OBVIOUS
      <3>2. i + 1 \in 1..n =>
               PhaseIn(P, i + 1) = CASE i % 4 = 0 -> "start"
                                     [] i % 4 = 1 -> "fresh"
                                     [] i % 4 = 2 -> "working"
                                     [] i % 4 = 3 -> "committed"
        BY <1>6, <3>1
      <3>3. CASE P[i] = "send"
        <4>1. i % 4 = 0 /\ (i + 1 > n \/ i + 1 \in 1..n)
          BY <1>4, <1>5, <3>3
        <4>2. PhaseIn(P, i + 1) \in {"start", "end"}
          BY <1>7, <3>2, <4>1
        <4> QED
          BY <1>4, <1>6, <3>3, <4>2
      <3>4. CASE P[i] # "send"
        BY <1>4, <1>5, <1>6, <3>2, <3>4
      <3> QED
        BY <3>3, <3>4
    <2> QED
      BY <1>1, <1>4, <2>1, <2>2 DEF Ordered, Ops
  <1>9. ASSUME NEW i \in 1..n
        PROVE  P[i] = "commit" => PhaseIn(P, i + 1) = "committed"
    BY <1>4, <1>5, <1>6
  <1>10. ASSUME NEW i \in 1..n
         PROVE  /\ EntryOf(i) \in Units
                /\ EntryOf(i + 1) = IF P[i] = "send" THEN EntryOf(i) + 1 ELSE EntryOf(i)
    <2>1. i \in Nat \ {0} /\ (i + 1) - 1 = i
      BY <1>1
    <2>2. (i - 1) \div 4 < Entries
      BY <1>3, <2>1 DEF n
    <2> QED
      BY <1>3, <1>4, <2>1, <2>2 DEF EntryOf, Units
  <1>11. EntryOf(1) = 1 /\ EntryOf(n + 1) = Entries + 1
    BY DEF EntryOf, n
  <1> QED
    BY <1>1, <1>8, <1>9, <1>10, <1>11 DEF P, n

(* Every transaction type the worker knows runs a program in this order.   *)
LEMMA ProgramOrder ==
  ASSUME NEW t \in AllTypes
  PROVE  /\ t # "UNKNOWN" => Ordered(t, Program(t))
         /\ t = "UNKNOWN" => Program(t) = <<>>
         /\ t = "MARKET_FEED" => Program(t) = MarketFeedProgram
  <1> USE DEF Program
  <1>1. CASE t \in {"BROKER_VOLUME", "MARKET_WATCH", "SECURITY_DETAIL", "TRADE_STATUS",
                    "TRADE_CLEANUP", "TRADE_LOOKUP", "TRADE_UPDATE"}
    <2>1. Program(t) = <<"begin", "exec", "commit">>
      BY <1>1 DEF SingleFrame, BrokerVolumeProgram, MarketWatchProgram, SecurityDetailProgram,
                  TradeStatusProgram, TradeCleanupProgram, TradeLookupProgram, TradeUpdateProgram
    <2> HIDE DEF Program
    <2> QED
      BY <1>1, <2>1, SingleFrameOrder
  <1>2. CASE t = "CUSTOMER_POSITION"
    <2>1. Program(t) = CustomerPositionProgram
      BY <1>2
    <2> HIDE DEF Program
    <2> QED
      BY <1>2, <2>1, CustomerPositionOrder DEF CustomerPositionProgram
  <1>3. CASE t = "DATA_MAINTENANCE"
    <2>1. Program(t) = DataMaintenanceProgram
      BY <1>3
    <2> HIDE DEF Program
    <2> QED
      BY <1>3, <2>1, DataMaintenanceOrder DEF DataMaintenanceProgram
  <1>4. CASE t = "TRADE_RESULT"
    <2>1. Program(t) = TradeResultProgram
      BY <1>4
    <2> HIDE DEF Program
    <2> QED
      BY <1>4, <2>1, TradeResultOrder DEF TradeResultProgram
  <1>5. CASE t = "TRADE_ORDER"
    <2>1. Program(t) = TradeOrderProgram
      BY <1>5
    <2> HIDE DEF Program
    <2> QED
      BY <1>5, <2>1, TradeOrderOrder DEF TradeOrderProgram
  <1>6. CASE t = "MARKET_FEED"
    <2>1. Program(t) = MarketFeedProgram
      BY <1>6
    <2> HIDE DEF Program
    <2> QED
      BY <1>6, <2>1, MarketFeedOrder
  <1>7. CASE t = "UNKNOWN"
    BY <1>7
  <1> QED
    BY <1>1, <1>2, <1>3, <1>4, <1>5, <1>6, <1>7 DEF AllTypes

-----------------------------------------------------------------------------
(* Where the worker is.                                                    *)

PhaseAt(i) == PhaseIn(Program(Me), i)
UnitAt(i)  == IF Me = "MARKET_FEED" THEN EntryOf(i) ELSE 1

(* The operation about to run, the phase it belongs to and the phase after *)
(* it.                                                                     *)
LEMMA Position ==
  ASSUME TypeOK, RunInv, NEW op \in Ops, Running(op)
  PROVE  /\ Me \in AllTypes \ {"UNKNOWN"}
         /\ msg \in Messages
         /\ at \in Nat \ {0}
         /\ Len(Program(Me)) \in Nat
         /\ status = "success"
         /\ Phase = PhaseAt(at) /\ Phase # "end"
         /\ PhaseAt(1) = "start"
         /\ PhaseAt(Len(Program(Me)) + 1) = "end"
         /\ op = "begin" => Phase = "start" /\ PhaseAt(at + 1) = "fresh"
         /\ op = "exec" => Phase \in {"fresh", "working"} /\ PhaseAt(at + 1) = "working"
         /\ op \in {"escape", "check", "decide"} =>
               Phase = "working" /\ PhaseAt(at + 1) = "working"
         /\ op = "commit" => Phase = "working" /\ PhaseAt(at + 1) \in {"committed", "end"}
         /\ op = "send" => Phase = "committed" /\ PhaseAt(at + 1) \in {"start", "end"}
         /\ op = "send" /\ Me # "MARKET_FEED" => PhaseAt(at + 1) = "end"
         /\ op = "check" => Me \in {"CUSTOMER_POSITION", "TRADE_RESULT"}
         /\ op = "check" /\ Me = "CUSTOMER_POSITION" => PhaseAt(at + 2) = "working"
         /\ op = "decide" => Me = "TRADE_ORDER"
  <1> DEFINE P == Program(Me)
  <1>1. pc = "run" /\ at <= Len(P) /\ P[at] = op
    BY DEF Running, Op
  <1>2. msg \in Messages /\ Me \in AllTypes /\ at \in Nat \ {0}
    BY <1>1 DEF RunInv, TypeOK, Me
  <1>3. Me # "UNKNOWN"
    <2>1. Me = "UNKNOWN" => Len(P) = 0
      BY <1>2, ProgramOrder
    <2> QED
      BY <1>1, <1>2, <2>1
  <1>4. Ordered(Me, P)
    BY <1>2, <1>3, ProgramOrder
  <1>5. Phase = PhaseIn(P, at) /\ \A i : PhaseAt(i) = PhaseIn(P, i)
    BY DEF Phase, PhaseAt
  <1> HIDE DEF P
  <1>6. Len(P) \in Nat /\ at \in 1..Len(P) /\ PhaseIn(P, 1) = "start"
    BY <1>1, <1>2, <1>4 DEF Ordered
  <1>7. PhaseIn(P, Len(P) + 1) = "end"
    BY <1>6 DEF PhaseIn
  <1>8. /\ op = "begin" => PhaseIn(P, at) = "start"
        /\ op \in {"exec", "escape", "check", "decide", "commit"} =>
              PhaseIn(P, at) \in {"fresh", "working"}
        /\ op = "send" => PhaseIn(P, at) = "committed"
        /\ PhaseIn(P, at) # "end"
    BY <1>1, <1>6 DEF PhaseIn, Ops
  <1>9. /\ op = "begin" => PhaseIn(P, at + 1) = "fresh"
        /\ PhaseIn(P, at) = "fresh" => op = "exec"
        /\ op \in {"exec", "escape", "check", "decide"} => PhaseIn(P, at + 1) = "working"
        /\ op = "commit" => PhaseIn(P, at + 1) \in {"committed", "end"}
        /\ op = "send" => PhaseIn(P, at + 1) \in {"start", "end"}
        /\ op = "send" /\ Me # "MARKET_FEED" => PhaseIn(P, at + 1) = "end"
        /\ op = "check" => Me \in {"CUSTOMER_POSITION", "TRADE_RESULT"}
        /\ op = "check" /\ Me = "CUSTOMER_POSITION" => PhaseIn(P, at + 2) = "working"
        /\ op = "decide" => Me = "TRADE_ORDER"
    BY <1>1, <1>4, <1>6 DEF Ordered
  <1>10. status = "success"
    BY <1>1, <1>5, <1>8 DEF RunInv
  <1> QED
    BY <1>2, <1>3, <1>5, <1>6, <1>7, <1>8, <1>9, <1>10 DEF P

(* The unit of work that operation belongs to.                             *)
LEMMA UnitPosition ==
  ASSUME TypeOK, RunInv, NEW op \in Ops, Running(op)
  PROVE  /\ Unit \in Units
         /\ Unit = UnitAt(at)
         /\ Me # "MARKET_FEED" => \A i : UnitAt(i) = 1
         /\ UnitAt(1) = 1
         /\ Me = "MARKET_FEED" /\ op \notin {"commit", "send"} => UnitAt(at + 1) = UnitAt(at)
         /\ Me = "MARKET_FEED" /\ op = "commit" =>
               UnitAt(at + 1) = UnitAt(at) /\ PhaseAt(at + 1) = "committed"
         /\ Me = "MARKET_FEED" /\ op = "send" => UnitAt(at + 1) = UnitAt(at) + 1
  <1>1. 1 \in Units
    BY EntriesAssumption DEF Units
  <1>2. Me \in AllTypes /\ Unit = UnitAt(at)
    BY Position DEF Unit, UnitAt, EntryOf
  <1>3. CASE Me # "MARKET_FEED"
    BY <1>1, <1>2, <1>3 DEF UnitAt
  <1>4. CASE Me = "MARKET_FEED"
    <2>1. Program(Me) = MarketFeedProgram
      BY <1>2, <1>4, ProgramOrder
    <2>2. at \in 1..Len(MarketFeedProgram) /\ MarketFeedProgram[at] = op
      BY <2>1, Position DEF Running, Op
    <2>3. \A i : UnitAt(i) = EntryOf(i) /\ PhaseAt(i) = PhaseIn(MarketFeedProgram, i)
      BY <1>4, <2>1 DEF UnitAt, PhaseAt
    <2>4. /\ EntryOf(at) \in Units
          /\ op = "commit" => PhaseIn(MarketFeedProgram, at + 1) = "committed"
          /\ EntryOf(at + 1) = IF op = "send" THEN EntryOf(at) + 1 ELSE EntryOf(at)
          /\ EntryOf(1) = 1
      BY <2>2, MarketFeedOrder
    <2> QED
      BY <1>2, <1>4, <2>3, <2>4
  <1> QED
    BY <1>3, <1>4

(* Past its last operation, a Market-Feed has all its entries behind it.   *)
LEMMA FeedEnd ==
  ASSUME Me = "MARKET_FEED", at \in Nat, at > Len(Program(Me))
  PROVE  \A u \in Units : u < Unit
  <1>1. Len(Program(Me)) = 4 * Entries
    BY ProgramOrder, MarketFeedOrder DEF AllTypes
  <1>2. Unit = ((at - 1) \div 4) + 1
    BY DEF Unit
  <1>3. at - 1 >= 4 * Entries
    BY <1>1, EntriesAssumption
  <1>4. (at - 1) \div 4 >= Entries /\ (at - 1) \div 4 \in Nat
    BY <1>3, EntriesAssumption
  <1> QED
    BY <1>2, <1>4, EntriesAssumption DEF Units

-----------------------------------------------------------------------------
(* Type correctness.                                                       *)

(* Running the transaction again, or giving up, keeps the retry count      *)
(* within the limit and the attempt that exceeds it.                       *)
LEMMA ThrowTypes ==
  ASSUME TypeOK, RunInv, pc = "run", ThrowRetryable \/ ThrowString
  PROVE  /\ pc' \in {"run", "reply"}
         /\ at' \in Nat \ {0}
         /\ nRetries' \in 0..(iMaxRetries + 1)
         /\ status' \in Statuses
         /\ iRet' \in Statuses
  <1>0. nRetries <= iMaxRetries /\ 1 \in Nat \ {0}
    BY DEF RunInv
  <1>1. /\ nRetries \in 0..(iMaxRetries + 1) /\ at \in Nat \ {0}
        /\ iRet \in Statuses /\ status \in Statuses
    BY DEF TypeOK
  <1>2. nRetries + 1 \in 0..(iMaxRetries + 1)
    BY <1>0, <1>1, RetriesAssumption
  <1>3. CASE ThrowRetryable
    BY <1>0, <1>1, <1>2, <1>3 DEF ThrowRetryable, Statuses
  <1>4. CASE ThrowString
    BY <1>1, <1>4 DEF ThrowString, Statuses
  <1> QED
    BY <1>3, <1>4

(* A COMMIT leaves counts.                                                 *)
LEMMA ApplyTypes ==
  ASSUME TypeOK, Apply
  PROVE  applied' \in [Messages -> [Units -> Nat]]
  <1>1. \A m \in Messages, u \in Units : applied[m][u] \in Nat /\ applied[m][u] + 1 \in Nat
    <2>1. applied \in [Messages -> [Units -> Nat]]
      BY DEF TypeOK
    <2> QED
      BY <2>1
  <1> QED
    BY <1>1 DEF Apply

(* Every step keeps the types.                                             *)
LEMMA TypeStep == TypeOK /\ RunInv /\ AnswerInv /\ [Next]_vars => TypeOK'
  <1> SUFFICES ASSUME TypeOK, RunInv, AnswerInv, [Next]_vars PROVE TypeOK'
    OBVIOUS
  <1> USE DEF TypeOK, dbVars, Sessions, Statuses
  <1>0. \A op \in Ops : Running(op) =>
           /\ pc = "run" /\ msg \in Messages /\ Unit \in Units
           /\ at + 1 \in Nat \ {0} /\ at + 2 \in Nat \ {0}
           /\ Len(Program(Me)) + 1 \in Nat \ {0}
    <2> SUFFICES ASSUME NEW op \in Ops, Running(op)
                 PROVE  /\ pc = "run" /\ msg \in Messages /\ Unit \in Units
                        /\ at + 1 \in Nat \ {0} /\ at + 2 \in Nat \ {0}
                        /\ Len(Program(Me)) + 1 \in Nat \ {0}
      OBVIOUS
    <2>1. at \in Nat \ {0} /\ Len(Program(Me)) \in Nat /\ msg \in Messages /\ Unit \in Units
      BY Position, UnitPosition
    <2> HIDE DEF TypeOK
    <2> QED
      BY <2>1 DEF Running
  <1>1. CASE Connect
    BY <1>1 DEF Connect
  <1>2. CASE Receive
    <2>1. msg < MaxMessages /\ msg' = msg + 1
      BY <1>2 DEF Receive
    <2>2. msg' \in 0..MaxMessages
      <3>1. msg \in 0..MaxMessages
        OBVIOUS
      <3> HIDE DEF TypeOK
      <3> QED
        BY <2>1, <3>1, MessagesAssumption
    <2>3. type' \in [Messages -> AllTypes]
      BY <1>2, TypesAssumption DEF Receive
    <2>4. nRetries' \in 0..(iMaxRetries + 1) /\ at' \in Nat \ {0}
      <3> HIDE DEF TypeOK
      <3> QED
        BY <1>2, RetriesAssumption DEF Receive
    <2> QED
      BY <1>2, <2>2, <2>3, <2>4 DEF Receive
  <1>3. CASE ReceiveFails
    BY <1>3 DEF ReceiveFails
  <1>4. CASE Reply
    BY <1>4 DEF Reply
  <1>5. CASE Begin
    BY <1>0, <1>5 DEF Begin, Level, Ops
  <1>6. CASE ExecSucceeds
    <2>1. <<msg, Unit>> \in Messages \X Units
      BY <1>0, <1>6 DEF ExecSucceeds, Ops
    <2> QED
      BY <1>0, <1>6, <2>1 DEF ExecSucceeds, Ops
  <1>7. CASE ExecConflicts
    BY <1>0, <1>7, ThrowTypes DEF ExecConflicts, Rollback, Ops
  <1>8. CASE ExecFails
    BY <1>0, <1>8, ThrowTypes DEF ExecFails, Rollback, Ops
  <1>9. CASE ExecThrowsException
    <2>1. <<msg, Unit>> \in Messages \X Units /\ msg \in Messages
      BY <1>0, <1>9 DEF ExecThrowsException, Ops
    <2> QED
      BY <1>0, <1>9, <2>1 DEF ExecThrowsException, Ops
  <1>10. CASE Escape
    BY <1>0, <1>10, ThrowTypes DEF Escape, Ops
  <1>11. CASE Check
    BY <1>0, <1>11 DEF Check, Ops
  <1>12. CASE Decide
    BY <1>0, <1>12 DEF Decide, Rollback, Ops
  <1>13. CASE CommitSucceeds
    BY <1>0, <1>13, ApplyTypes DEF CommitSucceeds, Ops
  <1>14. CASE CommitConflicts
    BY <1>0, <1>14, ThrowTypes DEF CommitConflicts, Ops
  <1>15. CASE CommitFails
    <2>1. applied' \in [Messages -> [Units -> Nat]]
      BY <1>15, ApplyTypes DEF CommitFails
    <2>2. doubt' \subseteq Messages
      <3>1. \A w \in pending : w[1] \in Messages
        OBVIOUS
      <3>2. doubt \subseteq Messages
        OBVIOUS
      <3> HIDE DEF TypeOK
      <3> QED
        BY <1>15, <3>1, <3>2 DEF CommitFails
    <2> QED
      BY <1>0, <1>15, <2>1, <2>2, ThrowTypes DEF CommitFails, Ops
  <1>16. CASE Send
    BY <1>0, <1>16 DEF Send, Ops
  <1>17. CASE Finish
    BY <1>17 DEF Finish, Rollback
  <1>18. CASE Judge
    BY <1>18 DEF Judge
  <1>19. CASE UNCHANGED vars
    BY <1>19 DEF vars
  <1> QED
    BY <1>1, <1>2, <1>3, <1>4, <1>5, <1>6, <1>7, <1>8, <1>9, <1>10, <1>11, <1>12,
       <1>13, <1>14, <1>15, <1>16, <1>17, <1>18, <1>19
       DEF Next, Step

-----------------------------------------------------------------------------
(* Facts the steps share.                                                  *)

(* Where a step leaves the worker when the request stays the same.         *)
LEMMA NextPosition ==
  ASSUME UNCHANGED <<msg, type>>
  PROVE  Me' = Me /\ Phase' = PhaseAt(at') /\ Unit' = UnitAt(at')
  BY DEF Me, Phase, PhaseAt, Unit, UnitAt, EntryOf

(* Uncommitted work is of messages and units.                              *)
LEMMA PendingTypes ==
  ASSUME TypeOK
  PROVE  /\ msg \in Nat
         /\ \A w \in pending : w[1] \in Messages /\ w[2] \in Units /\ w = <<w[1], w[2]>>
         /\ \A m \in Messages : m \in Nat /\ \A u \in Units : applied[m][u] \in Nat
         /\ 1 \in Units
  <1>1. /\ msg \in 0..MaxMessages
        /\ pending \subseteq Messages \X Units
        /\ applied \in [Messages -> [Units -> Nat]]
    BY DEF TypeOK
  <1>2. 1 \in Units /\ msg \in Nat /\ \A m \in Messages : m \in Nat
    BY <1>1, EntriesAssumption, MessagesAssumption DEF Units, Messages
  <1> QED
    BY <1>1, <1>2

(* A COMMIT adds one to what is pending and leaves the rest.               *)
LEMMA ApplyCounts ==
  ASSUME TypeOK, Apply, NEW m \in Messages, NEW u \in Units
  PROVE  /\ <<m, u>> \in pending => applied'[m][u] = applied[m][u] + 1
         /\ <<m, u>> \notin pending => applied'[m][u] = applied[m][u]
         /\ applied'[m][u] >= applied[m][u]
  <1>1. applied'[m][u] = IF <<m, u>> \in pending THEN applied[m][u] + 1 ELSE applied[m][u]
    BY DEF Apply
  <1>2. applied[m][u] \in Nat
    BY PendingTypes
  <1> QED
    BY <1>1, <1>2

(* A step inside a request, committing or not, changes nothing for the     *)
(* requests already answered or still to come.                             *)
LEMMA OthersStand ==
  ASSUME TypeOK, PendingInv, UnseenInv, SuccessMeansApplied, FailureMeansNothingApplied,
         pc = "run", msg \in Messages, UNCHANGED <<msg, type, answer>>,
         Apply \/ applied' = applied, doubt \subseteq doubt'
  PROVE  UnseenInv' /\ SuccessMeansApplied' /\ FailureMeansNothingApplied'
  <1>1. answer[msg] = "none"
    BY DEF UnseenInv
  <1>2. ASSUME NEW m \in Messages, m # msg, answer[m] \in PastCommit \/ m \notin doubt \/ m > msg,
               NEW u \in Units
        PROVE  applied'[m][u] = applied[m][u]
    <2>1. <<m, u>> \notin pending
      <3>1. SUFFICES ASSUME <<m, u>> \in pending PROVE FALSE
        OBVIOUS
      <3>2. m <= msg /\ answer[m] \notin PastCommit /\ m \in doubt
        BY <1>2, <3>1 DEF PendingInv
      <3>3. m \in Nat /\ msg \in Nat
        BY PendingTypes
      <3> QED
        BY <1>2, <3>2, <3>3
    <2> QED
      BY <2>1, ApplyCounts
  <1>3. UnseenInv'
    <2>1. ASSUME NEW m \in Messages, m > msg PROVE applied'[m] = [u \in Units |-> 0]
      <3>1. m # msg /\ applied[m] = [u \in Units |-> 0]
        BY <2>1, PendingTypes DEF UnseenInv
      <3>2. CASE applied' = applied
        BY <3>1, <3>2
      <3>3. CASE Apply
        <4>1. applied'[m] = [u \in Units |-> IF <<m, u>> \in pending THEN applied[m][u] + 1
                                                                ELSE applied[m][u]]
          BY <3>3 DEF Apply
        <4>2. \A u \in Units : applied'[m][u] = 0
          BY <1>2, <2>1, <3>1
        <4> QED
          BY <4>1, <4>2
      <3> QED
        BY <3>2, <3>3
    <2> QED
      BY <1>1, <2>1 DEF UnseenInv
  <1>4. SuccessMeansApplied'
    <2> SUFFICES ASSUME NEW m \in Messages, answer[m] \in PastCommit
                 PROVE  IF type[m] = "MARKET_FEED" THEN \A u \in Units : applied'[m][u] >= 1
                                                   ELSE applied'[m][1] = 1
      BY DEF SuccessMeansApplied
    <2>1. m # msg /\ 1 \in Units
      BY <1>1, PendingTypes
    <2> QED
      BY <1>2, <2>1 DEF SuccessMeansApplied
  <1>5. FailureMeansNothingApplied'
    <2> SUFFICES ASSUME NEW m \in Messages, answer[m] \notin {"none"} \cup PastCommit,
                        type[m] # "MARKET_FEED", m \notin doubt'
                 PROVE  applied'[m][1] = 0
      BY DEF FailureMeansNothingApplied
    <2>1. m # msg /\ 1 \in Units /\ m \notin doubt
      BY <1>1, PendingTypes
    <2> QED
      BY <1>2, <2>1 DEF FailureMeansNothingApplied
  <1> QED
    BY <1>3, <1>4, <1>5

-----------------------------------------------------------------------------
(* The steps of a transaction.                                             *)

(* BEGIN on a clean session, or on one that an earlier request left open.  *)
LEMMA BeginKeeps ==
  ASSUME TypeOK, CurrentInv, UnseenInv, Begin
  PROVE  CurrentInv'
  <1>1. Running("begin") /\ "begin" \in Ops /\ pc = "run" /\ RunInv
    BY DEF Begin, Running, Ops, CurrentInv
  <1>2. /\ msg \in Messages /\ Me # "UNKNOWN" /\ status = "success" /\ Phase = "start"
        /\ PhaseAt(at + 1) = "fresh"
        /\ Unit = UnitAt(at) /\ (Me = "MARKET_FEED" => UnitAt(at + 1) = UnitAt(at))
    BY <1>1, Position, UnitPosition
  <1>3. /\ at' = at + 1 /\ pending' \subseteq pending
        /\ UNCHANGED <<pc, msg, type, nRetries, status, iRet, answer, applied, doubt>>
    BY DEF Begin
  <1>4. Me' = Me /\ Phase' = "fresh" /\ Unit' = UnitAt(at + 1)
    BY <1>2, <1>3, NextPosition
  <1>5. session' \in {"begun", "open", "failed", "lost"}
    <2>1. session \in {"idle", "lost", "open"}
      BY <1>1, <1>2 DEF RunInv, Clean
    <2> QED
      BY <2>1 DEF Begin
  <1>6. ~Completed /\ ~Completed'
    BY <1>2, <1>4 DEF Completed
  <1>7. RunInv'
    BY <1>1, <1>2, <1>3, <1>4, <1>5, <1>6 DEF RunInv
  <1>8. PendingInv'
    BY <1>3 DEF CurrentInv, PendingInv
  <1>9. AppliedInv'
    BY <1>1, <1>2, <1>3, <1>4, <1>6 DEF CurrentInv, AppliedInv
  <1> QED
    BY <1>1, <1>3, <1>7, <1>8, <1>9 DEF CurrentInv, SessionClean, ConnectInv, AnswerInv

(* A frame body adds to the open transaction.                              *)
LEMMA ExecSucceedsKeeps ==
  ASSUME TypeOK, CurrentInv, UnseenInv, ExecSucceeds
  PROVE  CurrentInv'
  <1>1. Running("exec") /\ "exec" \in Ops /\ pc = "run" /\ RunInv
    BY DEF ExecSucceeds, Running, Ops, CurrentInv
  <1>2. /\ msg \in Messages /\ Me # "UNKNOWN" /\ status = "success"
        /\ Phase \in {"fresh", "working"} /\ PhaseAt(at + 1) = "working"
        /\ Unit = UnitAt(at) /\ UnitAt(at + 1) = UnitAt(at)
    BY <1>1, Position, UnitPosition
  <1>3. /\ at' = at + 1 /\ pending' = pending \cup {<<msg, Unit>>} /\ session' = "open"
        /\ UNCHANGED <<pc, msg, type, nRetries, status, iRet, answer, applied, doubt>>
    BY DEF ExecSucceeds
  <1>4. Me' = Me /\ Phase' = "working" /\ Unit' = Unit
    BY <1>2, <1>3, NextPosition
  <1>5. ~Completed /\ ~Completed'
    BY <1>2, <1>4 DEF Completed
  <1>6. RunInv'
    BY <1>1, <1>2, <1>3, <1>4, <1>5 DEF RunInv
  <1>7. PendingInv'
    <2>1. msg <= msg /\ answer[msg] = "none"
      BY <1>1, PendingTypes DEF UnseenInv
    <2> QED
      BY <1>1, <1>3, <2>1 DEF CurrentInv, PendingInv
  <1>8. AppliedInv'
    BY <1>1, <1>2, <1>3, <1>4, <1>5 DEF CurrentInv, AppliedInv
  <1> QED
    BY <1>1, <1>3, <1>6, <1>7, <1>8 DEF CurrentInv, SessionClean, ConnectInv, AnswerInv

(* CDBRetryableError: the session is clean again, and the transaction      *)
(* starts from its first frame or is given up.                             *)
LEMMA RetryKeeps ==
  ASSUME TypeOK, CurrentInv, UnseenInv, NEW op \in {"exec", "commit"}, Running(op),
         ThrowRetryable, session' \in {"idle", "lost"}, pending' = {},
         UNCHANGED <<msg, type, answer, applied, doubt>>
  PROVE  CurrentInv'
  <1>1. op \in Ops /\ pc = "run" /\ RunInv
    BY DEF Running, Ops, CurrentInv
  <1>2. /\ msg \in Messages /\ Me # "UNKNOWN" /\ status = "success"
        /\ Phase \in {"fresh", "working"} /\ PhaseAt(1) = "start" /\ UnitAt(1) = 1
    BY <1>1, Position, UnitPosition
  <1>3. ~Completed
    BY <1>2 DEF Completed
  <1>4. Me # "MARKET_FEED" => applied[msg][1] = 0
    BY <1>1, <1>2, <1>3 DEF CurrentInv, AppliedInv
  <1>5. CASE nRetries' <= iMaxRetries
    <2>1. pc' = "run" /\ at' = 1 /\ status' = "success"
      BY <1>1, <1>5 DEF ThrowRetryable
    <2>2. Me' = Me /\ Phase' = "start" /\ Unit' = 1
      BY <1>2, <2>1, NextPosition
    <2>3. ~Completed'
      BY <2>2 DEF Completed
    <2>4. RunInv'
      BY <1>2, <1>5, <2>1, <2>2, <2>3 DEF RunInv, Clean
    <2>5. AppliedInv'
      <3>1. \A u \in Units : ~(u < 1)
        BY DEF Units
      <3> QED
        BY <1>4, <2>1, <2>2, <2>3, <3>1 DEF AppliedInv
    <2> QED
      BY <2>1, <2>4, <2>5 DEF CurrentInv, PendingInv, SessionClean, ConnectInv, AnswerInv
  <1>6. CASE ~(nRetries' <= iMaxRetries)
    <2>1. pc' = "reply" /\ iRet' = "rollback"
      BY <1>6 DEF ThrowRetryable
    <2>2. Me' = Me
      BY NextPosition
    <2> QED
      BY <1>2, <1>4, <2>1, <2>2 DEF CurrentInv, RunInv, PendingInv, SessionClean, ConnectInv,
                                    AppliedInv, AnswerInv
  <1> QED
    BY <1>5, <1>6

(* A std::string thrown after the work was undone.                         *)
LEMMA AbortKeeps ==
  ASSUME TypeOK, CurrentInv, UnseenInv, NEW op \in {"exec", "commit"}, Running(op),
         ThrowString, session' \in {"idle", "lost"}, pending' = {},
         UNCHANGED <<msg, type, answer>>,
         applied' = applied \/ msg \in doubt'
  PROVE  CurrentInv'
  <1>1. op \in Ops /\ pc = "run" /\ RunInv
    BY DEF Running, Ops, CurrentInv
  <1>2. /\ msg \in Messages /\ status = "success" /\ Phase \in {"fresh", "working"}
    BY <1>1, Position
  <1>3. ~Completed
    BY <1>2 DEF Completed
  <1>4. Me # "MARKET_FEED" => applied[msg][1] = 0
    BY <1>1, <1>2, <1>3 DEF CurrentInv, AppliedInv
  <1>5. pc' = "reply" /\ iRet' = "rollback" /\ Me' = Me
    BY NextPosition DEF ThrowString
  <1> QED
    BY <1>2, <1>4, <1>5 DEF CurrentInv, RunInv, PendingInv, SessionClean, ConnectInv,
                            AppliedInv, AnswerInv

(* A std::exception: the work stays, and the request is in doubt.          *)
LEMMA ExecThrowsExceptionKeeps ==
  ASSUME TypeOK, CurrentInv, UnseenInv, ExecThrowsException
  PROVE  CurrentInv'
  <1>1. Running("exec") /\ "exec" \in Ops /\ pc = "run" /\ RunInv
    BY DEF ExecThrowsException, Running, Ops, CurrentInv
  <1>2. /\ msg \in Messages /\ Me # "UNKNOWN" /\ status = "success"
        /\ Phase \in {"fresh", "working"} /\ PhaseAt(Len(Program(Me)) + 1) = "end"
    BY <1>1, Position
  <1>3. /\ at' = Len(Program(Me)) + 1 /\ pending' = pending \cup {<<msg, Unit>>}
        /\ session' = "open" /\ status' = "rollback" /\ doubt' = doubt \cup {msg}
        /\ UNCHANGED <<pc, msg, type, nRetries, iRet, answer, applied>>
    BY DEF ExecThrowsException
  <1>4. Me' = Me /\ Phase' = "end"
    BY <1>2, <1>3, NextPosition
  <1>5. ~Completed /\ ~Completed'
    BY <1>2, <1>3 DEF Completed
  <1>6. RunInv'
    BY <1>1, <1>2, <1>3, <1>4, <1>5 DEF RunInv
  <1>7. PendingInv'
    <2>1. msg <= msg /\ answer[msg] = "none"
      BY <1>1, PendingTypes DEF UnseenInv
    <2> QED
      BY <1>1, <1>3, <2>1 DEF CurrentInv, PendingInv
  <1>8. AppliedInv'
    BY <1>1, <1>2, <1>3, <1>4, <1>5 DEF CurrentInv, AppliedInv
  <1> QED
    BY <1>1, <1>3, <1>6, <1>7, <1>8 DEF CurrentInv, SessionClean, ConnectInv, AnswerInv

(* A step from one frame to the next.                                      *)
LEMMA NextFrameKeeps ==
  ASSUME TypeOK, CurrentInv, UnseenInv, NEW op \in {"escape", "check", "decide"}, Running(op),
         at' = at + 1 \/ (op = "check" /\ Me = "CUSTOMER_POSITION" /\ at' = at + 2),
         UNCHANGED <<pc, msg, type, nRetries, status, iRet, answer, session, pending, applied,
                     doubt>>
  PROVE  CurrentInv'
  <1>1. op \in Ops /\ pc = "run" /\ RunInv
    BY DEF Running, Ops, CurrentInv
  <1>2. /\ msg \in Messages /\ Me # "UNKNOWN" /\ status = "success"
        /\ Phase = "working" /\ PhaseAt(at') = "working"
        /\ Unit = UnitAt(at) /\ UnitAt(at') = UnitAt(at)
    BY <1>1, Position, UnitPosition
  <1>3. Me' = Me /\ Phase' = "working" /\ Unit' = Unit
    BY <1>2, NextPosition
  <1>4. ~Completed /\ ~Completed'
    BY <1>2, <1>3 DEF Completed
  <1>5. RunInv'
    BY <1>1, <1>2, <1>3, <1>4 DEF RunInv
  <1>6. PendingInv'
    BY DEF CurrentInv, PendingInv
  <1>7. AppliedInv'
    BY <1>1, <1>2, <1>3, <1>4 DEF CurrentInv, AppliedInv
  <1> QED
    BY <1>1, <1>5, <1>6, <1>7 DEF CurrentInv, SessionClean, ConnectInv, AnswerInv

(* The harness stops early: with the transaction open in the two types     *)
(* whose Run method rolls back afterwards, or after Frame 5's ROLLBACK.    *)
LEMMA EarlyReturnKeeps ==
  ASSUME TypeOK, CurrentInv, UnseenInv, NEW op \in {"check", "decide"}, Running(op),
         at' = Len(Program(Me)) + 1, status' \notin PastCommit,
         \/ op = "check" /\ UNCHANGED <<session, pending>>
         \/ session' \in {"idle", "lost"} /\ pending' = {},
         UNCHANGED <<pc, msg, type, nRetries, iRet, answer, applied, doubt>>
  PROVE  CurrentInv'
  <1>1. op \in Ops /\ pc = "run" /\ RunInv
    BY DEF Running, Ops, CurrentInv
  <1>2. /\ msg \in Messages /\ Me # "UNKNOWN" /\ status = "success"
        /\ Phase = "working" /\ PhaseAt(at') = "end"
        /\ op = "check" => Me \in {"CUSTOMER_POSITION", "TRADE_RESULT"}
    BY <1>1, Position
  <1>3. Me' = Me /\ Phase' = "end"
    BY <1>2, NextPosition
  <1>4. ~Completed /\ ~Completed' /\ session = "open"
    BY <1>1, <1>2 DEF Completed, RunInv
  <1>5. RunInv'
    BY <1>1, <1>2, <1>3, <1>4 DEF RunInv
  <1>6. PendingInv'
    BY DEF CurrentInv, PendingInv
  <1>7. AppliedInv'
    BY <1>1, <1>2, <1>3, <1>4 DEF CurrentInv, AppliedInv
  <1> QED
    BY <1>1, <1>5, <1>6, <1>7 DEF CurrentInv, SessionClean, ConnectInv, AnswerInv

(* COMMIT: the unit the request was working on is applied, once.           *)
LEMMA CommitSucceedsKeeps ==
  ASSUME TypeOK, CurrentInv, UnseenInv, CommitSucceeds
  PROVE  CurrentInv'
  <1>1. Running("commit") /\ "commit" \in Ops /\ pc = "run" /\ RunInv
    BY DEF CommitSucceeds, Running, Ops, CurrentInv
  <1>2. /\ msg \in Messages /\ Me # "UNKNOWN" /\ status = "success"
        /\ Phase = "working" /\ PhaseAt(at + 1) \in {"committed", "end"}
        /\ Unit \in Units /\ Unit = UnitAt(at)
        /\ Me # "MARKET_FEED" => Unit = 1
        /\ Me = "MARKET_FEED" => UnitAt(at + 1) = Unit /\ PhaseAt(at + 1) = "committed"
    BY <1>1, Position, UnitPosition
  <1>3. /\ at' = at + 1 /\ pending' = {} /\ session' = "idle" /\ Apply
        /\ UNCHANGED <<pc, msg, type, nRetries, status, iRet, answer, doubt>>
    BY DEF CommitSucceeds
  <1>4. Me' = Me /\ Phase' = PhaseAt(at + 1) /\ Unit' = UnitAt(at + 1)
    BY <1>3, NextPosition
  <1>5. ~Completed /\ <<msg, Unit>> \in pending
    BY <1>1, <1>2 DEF Completed, RunInv
  <1>6. Phase' = "committed" \/ Completed'
    BY <1>2, <1>3, <1>4 DEF Completed
  <1>7. applied'[msg][Unit] = applied[msg][Unit] + 1 /\ applied[msg][Unit] \in Nat
    BY <1>2, <1>3, <1>5, ApplyCounts, PendingTypes
  <1>8. RunInv'
    BY <1>1, <1>2, <1>3, <1>4, <1>6 DEF RunInv
  <1>9. AppliedInv'
    <2>1. CASE Me # "MARKET_FEED"
      <3>1. applied[msg][1] = 0
        BY <1>1, <1>2, <1>5, <2>1 DEF CurrentInv, AppliedInv
      <3>2. applied'[msg][1] = 1
        BY <1>2, <1>7, <2>1, <3>1
      <3> QED
        BY <1>3, <1>4, <1>6, <2>1, <3>2 DEF AppliedInv
    <2>2. CASE Me = "MARKET_FEED"
      <3>1. \A u \in Units : u < Unit => applied[msg][u] >= 1
        BY <1>1, <1>2, <2>2 DEF CurrentInv, AppliedInv
      <3>2. \A u \in Units : u < Unit \/ u = Unit => applied'[msg][u] >= 1
        <4> SUFFICES ASSUME NEW u \in Units, u < Unit \/ u = Unit
                     PROVE  applied'[msg][u] >= 1
          OBVIOUS
        <4>1. /\ applied'[msg][u] >= applied[msg][u] /\ applied[msg][u] \in Nat
              /\ applied'[msg][u] = applied[msg][u] \/ applied'[msg][u] = applied[msg][u] + 1
          BY <1>2, <1>3, ApplyCounts, PendingTypes
        <4> QED
          BY <1>7, <3>1, <4>1
      <3>3. Unit' = Unit
        BY <1>2, <1>4, <2>2
      <3> QED
        BY <1>3, <1>4, <2>2, <3>2, <3>3 DEF AppliedInv
    <2> QED
      BY <2>1, <2>2
  <1> QED
    BY <1>1, <1>3, <1>8, <1>9 DEF CurrentInv, PendingInv, SessionClean, ConnectInv, AnswerInv

(* A COMMIT that fails: what was pending is gone, or is in doubt.          *)
LEMMA CommitFailsKeeps ==
  ASSUME TypeOK, CurrentInv, UnseenInv, CommitFails
  PROVE  CurrentInv'
  <1>1. Running("commit") /\ "commit" \in Ops /\ pc = "run" /\ RunInv
    BY DEF CommitFails, Running, Ops, CurrentInv
  <1>2. <<msg, Unit>> \in pending
    BY <1>1, Position DEF RunInv
  <1>3. session' \in {"idle", "lost"} /\ pending' = {} /\ ThrowString
        /\ UNCHANGED <<msg, type, answer>>
    BY DEF CommitFails
  <1>4. applied' = applied \/ msg \in doubt'
    <2>1. ASSUME doubt' = doubt \cup {w[1] : w \in pending} PROVE msg \in doubt'
      <3>1. <<msg, Unit>>[1] = msg
        OBVIOUS
      <3> QED
        BY <1>2, <2>1, <3>1
    <2> QED
      BY <2>1 DEF CommitFails
  <1> QED
    BY <1>1, <1>3, <1>4, AbortKeeps

(* escape() throws with the transaction open: the request is in doubt.     *)
LEMMA EscapeKeeps ==
  ASSUME TypeOK, CurrentInv, UnseenInv, Escape
  PROVE  CurrentInv'
  <1>1. Running("escape") /\ "escape" \in Ops /\ pc = "run" /\ RunInv
    BY DEF Escape, Running, Ops, CurrentInv
  <1>2. CASE at' = at + 1 /\ UNCHANGED <<pc, nRetries, status, iRet, doubt>>
    BY <1>1, <1>2, NextFrameKeeps DEF Escape, dbVars
  <1>3. CASE ThrowString /\ doubt' = doubt \cup {msg}
    <2>1. /\ msg \in Messages /\ status = "success" /\ Phase = "working"
      BY <1>1, Position
    <2>2. session = "open" /\ ~Completed
      BY <1>1, <2>1 DEF RunInv, Completed
    <2>3. /\ pc' = "reply" /\ iRet' = "rollback"
          /\ UNCHANGED <<msg, type, answer, session, pending, applied>>
      BY <1>3 DEF ThrowString, Escape, dbVars
    <2>4. SessionClean' /\ PendingInv'
      BY <1>1, <1>3, <2>2, <2>3 DEF CurrentInv, PendingInv, SessionClean
    <2> QED
      BY <1>3, <2>1, <2>3, <2>4 DEF CurrentInv, RunInv, ConnectInv, AppliedInv, AnswerInv
  <1> QED
    BY <1>2, <1>3 DEF Escape

(* SendToMarket, after the COMMIT.                                         *)
LEMMA SendKeeps ==
  ASSUME TypeOK, CurrentInv, UnseenInv, Send
  PROVE  CurrentInv'
  <1>1. Running("send") /\ "send" \in Ops /\ pc = "run" /\ RunInv
    BY DEF Send, Running, Ops, CurrentInv
  <1>2. /\ msg \in Messages /\ Me # "UNKNOWN" /\ status = "success"
        /\ Phase = "committed" /\ PhaseAt(at + 1) \in {"start", "end"}
        /\ Me # "MARKET_FEED" => PhaseAt(at + 1) = "end"
        /\ Unit \in Units /\ Unit = UnitAt(at)
        /\ Me = "MARKET_FEED" => UnitAt(at + 1) = Unit + 1
    BY <1>1, Position, UnitPosition
  <1>3. /\ at' = at + 1
        /\ UNCHANGED <<pc, msg, type, nRetries, status, iRet, answer, session, pending, applied,
                       doubt>>
    BY DEF Send, dbVars
  <1>4. Me' = Me /\ Phase' = PhaseAt(at + 1) /\ Unit' = UnitAt(at + 1)
    BY <1>3, NextPosition
  <1>5. session = "idle" /\ pending = {}
    BY <1>1, <1>2 DEF RunInv
  <1>6. Me # "MARKET_FEED" => Completed'
    BY <1>2, <1>3, <1>4 DEF Completed
  <1>7. RunInv'
    BY <1>1, <1>2, <1>3, <1>4, <1>5 DEF RunInv, Clean
  <1>8. AppliedInv'
    <2>1. CASE Me # "MARKET_FEED"
      BY <1>1, <1>2, <1>3, <1>4, <1>6, <2>1 DEF CurrentInv, AppliedInv
    <2>2. CASE Me = "MARKET_FEED"
      <3>1. \A u \in Units : u < Unit \/ u = Unit => applied[msg][u] >= 1
        BY <1>1, <1>2, <2>2 DEF CurrentInv, AppliedInv
      <3>2. \A u \in Units : u < Unit + 1 => u < Unit \/ u = Unit
        BY <1>2 DEF Units
      <3>3. Unit' = Unit + 1 /\ Phase' # "committed"
        BY <1>2, <1>4, <2>2
      <3> QED
        BY <1>3, <1>4, <2>2, <3>1, <3>2, <3>3 DEF AppliedInv
    <2> QED
      BY <2>1, <2>2
  <1> QED
    BY <1>1, <1>3, <1>5, <1>7, <1>8 DEF CurrentInv, PendingInv, SessionClean, ConnectInv, AnswerInv

(* A verdict after the COMMIT undoes nothing.                              *)
LEMMA JudgeKeeps ==
  ASSUME TypeOK, CurrentInv, UnseenInv, Judge
  PROVE  CurrentInv'
  <1>1. /\ pc = "run" /\ at > Len(Program(Me)) /\ status = "success" /\ status' = "judged"
        /\ Phase = "end" /\ Me # "UNKNOWN"
        /\ UNCHANGED <<pc, msg, type, at, nRetries, iRet, answer, session, pending, applied, doubt>>
    BY DEF Judge, JudgedTypes, Phase, PhaseIn, dbVars
  <1>2. Me' = Me /\ Phase' = Phase /\ Unit' = Unit
    BY <1>1 DEF Me, Phase, Unit
  <1>3. Completed /\ Completed' /\ RunInv
    BY <1>1, <1>2 DEF Completed, CurrentInv
  <1>4. RunInv'
    BY <1>1, <1>2, <1>3 DEF RunInv
  <1>5. AppliedInv'
    BY <1>1, <1>2, <1>3 DEF CurrentInv, AppliedInv
  <1> QED
    BY <1>1, <1>4, <1>5 DEF CurrentInv, PendingInv, SessionClean, ConnectInv, AnswerInv

(* DoTxn returned: the status it leaves is the truth, and the session is   *)
(* clean or in doubt.                                                      *)
LEMMA FinishKeeps ==
  ASSUME TypeOK, CurrentInv, UnseenInv, Finish
  PROVE  CurrentInv'
  <1>1. pc = "run" /\ at > Len(Program(Me)) /\ RunInv /\ Phase = "end"
    BY DEF Finish, CurrentInv, Phase, PhaseIn
  <1>2. msg \in Messages /\ at \in Nat /\ Me \in AllTypes
    BY <1>1 DEF RunInv, TypeOK, Me
  <1>3. /\ iRet' = IF Me = "UNKNOWN" THEN "wrongtxn" ELSE status
        /\ pc' = "reply"
        /\ UNCHANGED <<msg, type, answer, applied, doubt>>
    BY DEF Finish
  <1>4. Me' = Me
    BY <1>3, NextPosition
  <1>5. /\ \/ session' = session /\ pending' = pending
           \/ session' \in {"idle", "lost"} /\ pending' = {}
        /\ status # "success" /\ Me \in {"CUSTOMER_POSITION", "TRADE_RESULT"} =>
              session' \in {"idle", "lost"} /\ pending' = {}
    BY DEF Finish, Rollback
  <1>6. CASE Completed
    <2>1. session = "idle" /\ pending = {} /\ status \in PastCommit /\ Me # "UNKNOWN"
      BY <1>1, <1>6 DEF RunInv, Completed
    <2>2. Me # "MARKET_FEED" => applied[msg][1] = 1
      BY <1>1, <1>6 DEF CurrentInv, AppliedInv
    <2>3. Me = "MARKET_FEED" => \A u \in Units : applied[msg][u] >= 1
      BY <1>1, <1>2, <2>1, FeedEnd DEF CurrentInv, AppliedInv
    <2>4. AnswerInv'
      BY <1>2, <1>3, <1>4, <1>5, <2>1, <2>2, <2>3 DEF AnswerInv
    <2> QED
      BY <1>3, <1>5, <2>1, <2>4 DEF CurrentInv, RunInv, PendingInv, SessionClean, ConnectInv,
                                    AppliedInv
  <1>7. CASE ~Completed
    <2>1. status \notin PastCommit \/ Me = "UNKNOWN"
      BY <1>1, <1>7 DEF Completed
    <2>2. iRet' \notin PastCommit
      BY <1>3, <2>1
    <2>3. Me # "MARKET_FEED" => applied[msg][1] = 0
      BY <1>1, <1>7 DEF CurrentInv, AppliedInv
    <2>4. \A w \in pending : w[1] \in doubt \/ w[1] = msg
      BY DEF CurrentInv, PendingInv
    <2>5. SessionClean'
      <3>1. CASE Me = "UNKNOWN"
        BY <1>1, <1>3, <1>5, <3>1 DEF RunInv, Clean, SessionClean
      <3>2. CASE Me # "UNKNOWN"
        BY <1>1, <1>3, <1>5, <2>1, <2>4, <3>2 DEF RunInv, SessionClean
      <3> QED
        BY <3>1, <3>2
    <2>6. PendingInv'
      <3>1. \A w \in pending' : w \in pending /\ w[1] \in doubt
        BY <1>3, <1>5, <2>5 DEF SessionClean
      <3> QED
        BY <1>3, <3>1 DEF CurrentInv, PendingInv
    <2> QED
      BY <1>2, <1>3, <1>4, <2>2, <2>3, <2>5, <2>6 DEF CurrentInv, RunInv, ConnectInv,
                                                     AppliedInv, AnswerInv
  <1> QED
    BY <1>6, <1>7

-----------------------------------------------------------------------------
(* Receiving and answering.                                                *)

(* A new request finds the session clean and nothing of its own.           *)
LEMMA ReceiveKeeps ==
  ASSUME TypeOK, TypeOK', CurrentInv, ResultInv, Receive
  PROVE  CurrentInv' /\ ResultInv'
  <1>1. /\ pc = "receive" /\ msg' = msg + 1 /\ msg < MaxMessages
        /\ at' = 1 /\ nRetries' = 0 /\ status' = "success" /\ pc' = "run"
        /\ UNCHANGED <<iRet, answer, session, pending, applied, doubt>>
    BY DEF Receive, dbVars
  <1>2. PICK t \in Types : type' = [type EXCEPT ![msg'] = t]
    BY DEF Receive
  <1>3. /\ msg' \in Messages /\ msg' > msg /\ msg \in Nat
        /\ \A m \in Messages : m # msg' => type'[m] = type[m]
        /\ type'[msg'] = t
    <2>1. msg \in Nat /\ type \in [Messages -> AllTypes]
      BY PendingTypes DEF TypeOK
    <2>2. msg' \in Messages
      BY <1>1, <2>1, MessagesAssumption DEF Messages
    <2> QED
      BY <1>1, <1>2, <2>1, <2>2
  <1>4. Me' = t /\ t \in AllTypes /\ Unit' = 1
    <2>1. Me' = t /\ t \in AllTypes
      BY <1>3, TypesAssumption DEF Me
    <2>2. Unit' = IF Me' = "MARKET_FEED" THEN ((at' - 1) \div 4) + 1 ELSE 1
      BY DEF Unit
    <2> QED
      BY <1>1, <2>1, <2>2
  <1>5. Phase' = IF t = "UNKNOWN" THEN "end" ELSE "start"
    <2>1. Phase' = PhaseIn(Program(t), 1)
      BY <1>1, <1>4 DEF Phase
    <2>2. CASE t # "UNKNOWN"
      BY <1>4, <2>1, <2>2, ProgramOrder DEF Ordered
    <2>3. CASE t = "UNKNOWN"
      BY <1>4, <2>1, <2>3, ProgramOrder DEF PhaseIn
    <2> QED
      BY <2>2, <2>3
  <1>6. /\ answer[msg'] = "none"
        /\ \A u \in Units : applied[msg'][u] = 0
        /\ \A m \in Messages : m > msg' => m > msg
        /\ \A w \in pending : w[1] <= msg'
    <2>1. \A w \in pending : w[1] <= msg /\ w[1] \in Nat
      BY PendingTypes DEF CurrentInv, PendingInv, Messages
    <2>2. \A m \in Messages : m \in Nat
      BY PendingTypes
    <2> QED
      BY <1>1, <1>3, <2>1, <2>2 DEF ResultInv, UnseenInv
  <1>7. Clean /\ Clean'
    BY <1>1 DEF CurrentInv, SessionClean, Clean
  <1>8. ~Completed'
    BY <1>4, <1>5 DEF Completed
  <1>9. RunInv'
    BY <1>1, <1>3, <1>4, <1>5, <1>7, <1>8, RetriesAssumption DEF RunInv
  <1>10. PendingInv'
    BY <1>1, <1>6, <1>7 DEF CurrentInv, PendingInv, Clean
  <1>11. AppliedInv'
    <2>1. 1 \in Units /\ \A u \in Units : ~(u < 1)
      BY EntriesAssumption DEF Units
    <2> QED
      BY <1>1, <1>4, <1>5, <1>6, <1>8, <2>1 DEF AppliedInv
  <1>12. UnseenInv'
    BY <1>1, <1>6 DEF ResultInv, UnseenInv
  <1>13. SuccessMeansApplied' /\ FailureMeansNothingApplied'
    BY <1>1, <1>3, <1>6 DEF ResultInv, SuccessMeansApplied, FailureMeansNothingApplied
  <1> QED
    BY <1>1, <1>9, <1>10, <1>11, <1>12, <1>13
       DEF CurrentInv, ResultInv, SessionClean, ConnectInv, AnswerInv

(* The answer: what it says is the truth when it is given.                 *)
LEMMA ReplyKeeps ==
  ASSUME TypeOK, CurrentInv, ResultInv, Reply
  PROVE  CurrentInv' /\ ResultInv'
  <1>1. /\ pc = "reply" /\ answer' = [answer EXCEPT ![msg] = iRet]
        /\ pc' \in {"receive", "dead"}
        /\ UNCHANGED <<msg, type, applied, doubt>>
        /\ (UNCHANGED <<session, pending>> \/ (session' = "lost" /\ pending' = {}))
    BY DEF Reply
  <1>2. /\ msg \in Messages /\ answer'[msg] = iRet
        /\ \A m \in Messages : m # msg => answer'[m] = answer[m]
    <2>1. msg \in Messages
      BY <1>1 DEF CurrentInv, AnswerInv
    <2>2. answer \in [Messages -> Statuses \cup {"none"}]
      BY DEF TypeOK
    <2> QED
      BY <1>1, <2>1, <2>2
  <1>3. SessionClean'
    BY <1>1 DEF CurrentInv, SessionClean
  <1>4. PendingInv'
    <2>1. \A w \in pending : w[1] \in Messages /\ w[1] \in doubt
      BY <1>1, PendingTypes DEF CurrentInv, PendingInv
    <2>2. \A w \in pending : answer'[w[1]] \notin PastCommit
      BY <1>1, <1>2, <2>1 DEF CurrentInv, PendingInv, AnswerInv
    <2> QED
      BY <1>1, <2>1, <2>2 DEF CurrentInv, PendingInv
  <1>5. UnseenInv'
    <2>1. \A m \in Messages : m > msg => m # msg
      BY PendingTypes
    <2> QED
      BY <1>1, <1>2, <2>1 DEF ResultInv, UnseenInv
  <1>6. SuccessMeansApplied'
    <2> SUFFICES ASSUME NEW m \in Messages, answer'[m] \in PastCommit
                 PROVE  IF type[m] = "MARKET_FEED" THEN \A u \in Units : applied[m][u] >= 1
                                                   ELSE applied[m][1] = 1
      BY <1>1 DEF SuccessMeansApplied
    <2>1. CASE m = msg
      BY <1>1, <1>2, <2>1 DEF CurrentInv, AnswerInv, Me
    <2>2. CASE m # msg
      BY <1>2, <2>2 DEF ResultInv, SuccessMeansApplied
    <2> QED
      BY <2>1, <2>2
  <1>7. FailureMeansNothingApplied'
    <2> SUFFICES ASSUME NEW m \in Messages, answer'[m] \notin {"none"} \cup PastCommit,
                        type[m] # "MARKET_FEED", m \notin doubt
                 PROVE  applied[m][1] = 0
      BY <1>1 DEF FailureMeansNothingApplied
    <2>1. CASE m = msg
      BY <1>1, <1>2, <2>1 DEF CurrentInv, AnswerInv, Me
    <2>2. CASE m # msg
      BY <1>2, <2>2 DEF ResultInv, FailureMeansNothingApplied
    <2> QED
      BY <2>1, <2>2
  <1> QED
    BY <1>1, <1>3, <1>4, <1>5, <1>6, <1>7
       DEF CurrentInv, ResultInv, RunInv, ConnectInv, AppliedInv, AnswerInv

(* The thread connects, or ends between two requests.                      *)
LEMMA OutsideKeeps ==
  ASSUME TypeOK, CurrentInv, ResultInv, Connect \/ ReceiveFails
  PROVE  CurrentInv' /\ ResultInv'
  <1>1. /\ pc \in {"connect", "receive"} /\ pc' \in {"receive", "dead"}
        /\ UNCHANGED <<msg, type, answer, applied, doubt>>
        /\ session' \in {"idle", "lost"} /\ pending' = {}
    BY DEF Connect, ReceiveFails, CurrentInv, ConnectInv
  <1> QED
    BY <1>1 DEF CurrentInv, ResultInv, RunInv, PendingInv, SessionClean, ConnectInv, AppliedInv,
                AnswerInv, UnseenInv, SuccessMeansApplied, FailureMeansNothingApplied

-----------------------------------------------------------------------------
(* The invariant and the theorems.                                         *)

(* Before the thread has connected.                                        *)
LEMMA InitWorkerInv == Init => WorkerInv
  <1> SUFFICES ASSUME Init PROVE TypeOK /\ CurrentInv /\ ResultInv
    BY DEF WorkerInv
  <1>1. TypeOK
    <2>1. 0 \in 0..MaxMessages /\ 0 \in 0..(iMaxRetries + 1) /\ 1 \in Nat \ {0}
      BY MessagesAssumption, RetriesAssumption
    <2>2. applied \in [Messages -> [Units -> Nat]]
      BY DEF Init
    <2> QED
      BY <2>1, <2>2 DEF Init, TypeOK, AllTypes, Statuses, Sessions
  <1>2. CurrentInv
    BY DEF Init, CurrentInv, RunInv, PendingInv, SessionClean, ConnectInv, AppliedInv, AnswerInv
  <1>3. ResultInv
    BY <1>2 DEF Init, ResultInv, CurrentInv, UnseenInv, SuccessMeansApplied,
                FailureMeansNothingApplied
  <1> QED
    BY <1>1, <1>2, <1>3

(* Every step of the thread keeps the invariant.                           *)
LEMMA StepKeeps ==
  ASSUME TypeOK, TypeOK', CurrentInv, ResultInv, [Next]_vars
  PROVE  CurrentInv' /\ ResultInv'
  <1>0. UnseenInv /\ RunInv
    BY DEF ResultInv, CurrentInv
  <1> DEFINE Inside == /\ pc = "run" /\ msg \in Messages
                       /\ UNCHANGED <<msg, type, answer>>
                       /\ Apply \/ applied' = applied
                       /\ doubt \subseteq doubt'
  <1>1. Inside /\ CurrentInv' => CurrentInv' /\ ResultInv'
    BY OthersStand DEF ResultInv, CurrentInv
  <1> HIDE DEF Inside
  <1>2. CASE Connect \/ ReceiveFails
    BY <1>2, OutsideKeeps
  <1>3. CASE Receive
    BY <1>3, ReceiveKeeps
  <1>4. CASE Reply
    BY <1>4, ReplyKeeps
  <1>5. Step => Inside
    <2>1. Step => pc = "run"
      BY DEF Step, Running, Begin, ExecSucceeds, ExecConflicts, ExecFails, ExecThrowsException,
             Escape, Check, Decide, CommitSucceeds, CommitConflicts, CommitFails, Send, Judge,
             Finish
    <2>2. pc = "run" => msg \in Messages
      BY <1>0 DEF RunInv
    <2>3. Step => UNCHANGED <<msg, type, answer>>
      BY DEF Step, Begin, ExecSucceeds, ExecConflicts, ExecFails, ExecThrowsException,
             Escape, Check, Decide, CommitSucceeds, CommitConflicts, CommitFails, Send, Judge,
             Finish
    <2>4. Step => (Apply \/ applied' = applied)
      BY DEF Step, Begin, ExecSucceeds, ExecConflicts, ExecFails, ExecThrowsException, dbVars,
             Escape, Check, Decide, CommitSucceeds, CommitConflicts, CommitFails, Send, Judge,
             Finish
    <2>5. Step => doubt \subseteq doubt'
      BY DEF Step, Begin, ExecSucceeds, ExecConflicts, ExecFails, ExecThrowsException,
             Escape, Check, Decide, CommitSucceeds, CommitConflicts, CommitFails, Send, Judge,
             Finish
    <2> QED
      BY <2>1, <2>2, <2>3, <2>4, <2>5 DEF Inside
  <1>6. CASE Begin
    BY <1>0, <1>1, <1>5, <1>6, BeginKeeps DEF Step
  <1>7. CASE ExecSucceeds
    BY <1>0, <1>1, <1>5, <1>7, ExecSucceedsKeeps DEF Step
  <1>8. CASE ExecConflicts
    <2>1. CurrentInv'
      BY <1>0, <1>8, RetryKeeps DEF ExecConflicts, Rollback
    <2> QED
      BY <1>1, <1>5, <1>8, <2>1 DEF Step
  <1>9. CASE ExecFails
    <2>1. CurrentInv'
      BY <1>0, <1>9, AbortKeeps DEF ExecFails, Rollback
    <2> QED
      BY <1>1, <1>5, <1>9, <2>1 DEF Step
  <1>10. CASE ExecThrowsException
    BY <1>0, <1>1, <1>5, <1>10, ExecThrowsExceptionKeeps DEF Step
  <1>11. CASE Escape
    BY <1>0, <1>1, <1>5, <1>11, EscapeKeeps DEF Step
  <1>12. CASE Check
    <2>1. /\ Running("check")
          /\ UNCHANGED <<pc, msg, type, nRetries, iRet, answer, session, pending, applied, doubt>>
      BY <1>12 DEF Check, dbVars
    <2>2. ASSUME at' = at + 1 \/ (Me = "CUSTOMER_POSITION" /\ at' = at + 2), UNCHANGED status
          PROVE  CurrentInv'
      <3>1. UNCHANGED <<pc, msg, type, nRetries, status, iRet, answer, session, pending, applied,
                        doubt>>
        BY <2>1, <2>2
      <3> QED
        BY <1>0, <2>1, <2>2, <3>1, NextFrameKeeps
    <2>3. ASSUME at' = Len(Program(Me)) + 1, status' = "invalid" PROVE CurrentInv'
      <3>1. UNCHANGED <<pc, msg, type, nRetries, iRet, answer, applied, doubt>>
        BY <2>1
      <3> QED
        BY <1>0, <2>1, <2>3, <3>1, EarlyReturnKeeps
    <2>4. CurrentInv'
      BY <1>12, <2>2, <2>3 DEF Check
    <2> QED
      BY <1>1, <1>5, <1>12, <2>4 DEF Step
  <1>13. CASE Decide
    <2>1. /\ Running("decide")
          /\ UNCHANGED <<pc, msg, type, nRetries, iRet, answer, applied, doubt>>
      BY <1>13 DEF Decide
    <2>2. ASSUME at' = at + 1, UNCHANGED <<status, session, pending>> PROVE CurrentInv'
      <3>1. UNCHANGED <<pc, msg, type, nRetries, status, iRet, answer, session, pending, applied,
                        doubt>>
        BY <2>1, <2>2
      <3> QED
        BY <1>0, <2>1, <2>2, <3>1, NextFrameKeeps
    <2>3. ASSUME Rollback, status' \in {"rollback", "invalid"}, at' = Len(Program(Me)) + 1
          PROVE  CurrentInv'
      BY <1>0, <2>1, <2>3, EarlyReturnKeeps DEF Rollback
    <2>4. CurrentInv'
      BY <1>13, <2>2, <2>3 DEF Decide
    <2> QED
      BY <1>1, <1>5, <1>13, <2>4 DEF Step
  <1>14. CASE CommitSucceeds
    BY <1>0, <1>1, <1>5, <1>14, CommitSucceedsKeeps DEF Step
  <1>15. CASE CommitConflicts
    <2>1. CurrentInv'
      BY <1>0, <1>15, RetryKeeps DEF CommitConflicts
    <2> QED
      BY <1>1, <1>5, <1>15, <2>1 DEF Step
  <1>16. CASE CommitFails
    BY <1>0, <1>1, <1>5, <1>16, CommitFailsKeeps DEF Step
  <1>17. CASE Send
    BY <1>0, <1>1, <1>5, <1>17, SendKeeps DEF Step
  <1>18. CASE Finish
    BY <1>0, <1>1, <1>5, <1>18, FinishKeeps DEF Step
  <1>19. CASE Judge
    BY <1>0, <1>1, <1>5, <1>19, JudgeKeeps DEF Step
  <1>20. CASE UNCHANGED vars
    BY <1>20 DEF vars, CurrentInv, ResultInv, RunInv, PendingInv, SessionClean, ConnectInv,
                 AppliedInv, AnswerInv, UnseenInv, SuccessMeansApplied,
                 FailureMeansNothingApplied, Phase, Me, Unit, Completed, Clean
  <1> QED
    BY <1>2, <1>3, <1>4, <1>6, <1>7, <1>8, <1>9, <1>10, <1>11, <1>12, <1>13, <1>14, <1>15,
       <1>16, <1>17, <1>18, <1>19, <1>20
       DEF Next, Step

(* WorkerInv is an invariant of a worker thread of the Brokerage House.    *)
THEOREM WorkerInvariant == Spec => []WorkerInv
  <1>1. WorkerInv /\ [Next]_vars => WorkerInv'
    BY TypeStep, StepKeeps DEF WorkerInv, CurrentInv
  <1> QED
    BY InitWorkerInv, <1>1, PTL DEF Spec

(* The worker's locals keep their types; nRetries never goes beyond the    *)
(* attempt that exceeds iMaxRetries.                                       *)
THEOREM TypesAreKept == Spec => []TypeOK
  <1>1. WorkerInv => TypeOK
    BY DEF WorkerInv
  <1> QED
    BY WorkerInvariant, <1>1, PTL

(* Between two requests no transaction is open on the session, except for  *)
(* requests whose rollback a std::exception or a failed escape() skipped.  *)
THEOREM SessionIsClean == Spec => []SessionClean
  <1>1. WorkerInv => SessionClean
    BY DEF WorkerInv, CurrentInv
  <1> QED
    BY WorkerInvariant, <1>1, PTL

(* A request answered with SUCCESS, or with the status of a check that the *)
(* harness makes after COMMIT, was committed in full, and exactly once     *)
(* unless it is a Market-Feed, however often it was retried and whatever   *)
(* later requests did on the session.                                      *)
THEOREM SuccessIsTrue == Spec => []SuccessMeansApplied
  <1>1. WorkerInv => SuccessMeansApplied
    BY DEF WorkerInv, ResultInv
  <1> QED
    BY WorkerInvariant, <1>1, PTL

(* A request answered with EXPECTED_ROLLBACK, ERR_TYPE_WRONGTXN or the     *)
(* status of a check before COMMIT left nothing behind and never will,     *)
(* Market-Feeds and requests in doubt excepted.  SuccessIsTrue covers the  *)
(* negative statuses given after COMMIT, those of Trade-Update for one.    *)
THEOREM FailureIsClean == Spec => []FailureMeansNothingApplied
  <1>1. WorkerInv => FailureMeansNothingApplied
    BY DEF WorkerInv, ResultInv
  <1> QED
    BY WorkerInvariant, <1>1, PTL
=============================================================================
