---------------------------- MODULE MarketTimer -----------------------------
(***************************************************************************)
(* The timer protocol of the Market Exchange                               *)
(* (src/MarketExchange/MarketExchange.cpp).                                *)
(*                                                                         *)
(* The emulator (EGen's CMEE, external) starts a timer for every trade     *)
(* request it accepts and acts on it only inside a call.  Worker threads,  *)
(* one per connection from the Brokerage House, call SubmitTradeRequest    *)
(* and hand the delay it returns to updateNextTimer.  The timer thread     *)
(* sleeps for that long and calls GenerateTradeResult.  The emulator has   *)
(* its own lock, m_TimerLock protects the delay and the generation, and    *)
(* nothing makes a call and the hand-over of its result atomic.            *)
(*                                                                         *)
(* Time is counted in ticks, as what remains of each delay, so that the    *)
(* state space is finite although time is not bounded.                     *)
(***************************************************************************)
EXTENDS Integers, FiniteSets, FiniteSetsExt

CONSTANTS
    Requests,       \* trade requests
    Workers,        \* MarketWorkerThreads
    MaxDelay,       \* longest timer the emulator starts, in ticks
    GenerationMod   \* m_TimerGeneration is unsigned: it wraps at this value

ASSUME MaxDelayAssumption == MaxDelay \in Nat
ASSUME GenerationAssumption == GenerationMod \in Nat \ {0}

Delays == 0..MaxDelay
None == -1          \* "no outstanding timers"

VARIABLES
    order,              \* the emulator's view of each request
    remaining,          \* ticks until the request's timer expires
    m_NextTimerDelay,
    m_TimerGeneration,
    m_TimerShutdown,
    listener,           \* startListener: "starting", "accepting", "failed"
    wpc,                \* worker threads
    returned,           \* what SubmitTradeRequest returned to each worker
    tpc,                \* the timer thread
    generation,         \* its locals
    timeout,
    next

emuVars    == <<order, remaining>>
sharedVars == <<m_NextTimerDelay, m_TimerGeneration, m_TimerShutdown>>
workerVars == <<wpc, returned, listener>>
timerVars  == <<tpc, generation, timeout, next>>
vars == <<emuVars, sharedVars, workerVars, timerVars>>

Pending == {r \in Requests : order[r] = "pending"}
Expired == {r \in Pending : remaining[r] = 0}

(* The emulator's answer: the time until the next of the timers in S.      *)
NextTimer(S, rem) == IF S = {} THEN None ELSE Min({rem[r] : r \in S})

Init ==
    /\ order = [r \in Requests |-> "new"]
    /\ remaining = [r \in Requests |-> 0]
    /\ m_NextTimerDelay = None
    /\ m_TimerGeneration = 0
    /\ m_TimerShutdown = FALSE
    /\ listener = "starting"
    /\ wpc = [w \in Workers |-> "none"]
    /\ returned = [w \in Workers |-> None]
    /\ tpc = "start"
    /\ generation = 0
    /\ timeout = 0
    /\ next = None

-----------------------------------------------------------------------------
(* startListener and the worker threads.                                   *)

(* dbt5Listen returns, or throws out of startListener into main.           *)
Listen ==
    /\ listener = "starting"
    /\ listener' \in {"accepting", "failed"}
    /\ UNCHANGED <<emuVars, sharedVars, wpc, returned, timerVars>>

(* A connection is accepted and its thread created.  When that fails the   *)
(* connection is closed again and nothing else changes.                    *)
EntryMarketWorkerThread(w) ==
    /\ listener = "accepting"
    /\ wpc[w] = "none"
    /\ wpc' = [wpc EXCEPT ![w] = "receiving"]
    /\ UNCHANGED <<emuVars, sharedVars, returned, listener, timerVars>>

(* dbt5Receive throws: the socket is closed and the thread ends.           *)
ReceiveFails(w) ==
    /\ wpc[w] = "receiving"
    /\ wpc' = [wpc EXCEPT ![w] = "none"]
    /\ UNCHANGED <<emuVars, sharedVars, returned, listener, timerVars>>

(* A request arrives and goes to the emulator, which starts a timer for it *)
(* and may act on the timers that have expired.                            *)
SubmitTradeRequest(w, r, delay, acts) ==
    LET rest == (IF acts THEN Pending \ Expired ELSE Pending) \cup {r} IN
    /\ wpc[w] = "receiving"
    /\ order[r] = "new"
    /\ remaining' = [remaining EXCEPT ![r] = delay]
    /\ order' = [q \in Requests |-> IF q \in rest THEN "pending"
                                    ELSE IF q \in Pending THEN "fired" ELSE order[q]]
    /\ returned' = [returned EXCEPT ![w] = NextTimer(rest, remaining')]
    /\ wpc' = [wpc EXCEPT ![w] = "submitted"]
    /\ UNCHANGED <<sharedVars, listener, timerVars>>

(* The signal reaches the timer thread if it is blocked.                   *)
WakeTimer == tpc' = CASE tpc = "wait"      -> "woken"
                      [] tpc = "timedwait" -> "timedwoken"
                      [] OTHER             -> tpc

(* Mutant: no signal.                                                      *)
Bug_updateNextTimer(w) ==
    /\ wpc[w] = "submitted"
    /\ m_NextTimerDelay' = returned[w]
    /\ m_TimerGeneration' = (m_TimerGeneration + 1) % GenerationMod
    /\ wpc' = [wpc EXCEPT ![w] = "receiving"]
    /\ UNCHANGED <<emuVars, m_TimerShutdown, returned, listener, timerVars>>

updateNextTimer(w) ==
    /\ wpc[w] = "submitted"
    /\ m_NextTimerDelay' = returned[w]
    /\ m_TimerGeneration' = (m_TimerGeneration + 1) % GenerationMod
    /\ WakeTimer
    /\ wpc' = [wpc EXCEPT ![w] = "receiving"]
    /\ UNCHANGED <<emuVars, m_TimerShutdown, returned, listener, generation, timeout, next>>

-----------------------------------------------------------------------------
(* MarketTimerThread.  Each action ends where the thread gives up          *)
(* m_TimerLock; what it decides next depends on the delay it then holds.   *)

(* Mutant: a timed wait although there is no timer.                        *)
Bug_LoopHead(delay) ==
    IF m_TimerShutdown
    THEN tpc' = "exited" /\ UNCHANGED <<generation, timeout>>
    ELSE /\ tpc' = "timedwait"
         /\ generation' = m_TimerGeneration
         /\ timeout' = delay

LoopHead(delay) ==
    IF m_TimerShutdown
    THEN tpc' = "exited" /\ UNCHANGED <<generation, timeout>>
    ELSE IF delay < 0
    THEN tpc' = "wait" /\ UNCHANGED <<generation, timeout>>
    ELSE /\ tpc' = "timedwait"
         /\ generation' = m_TimerGeneration
         /\ timeout' = delay

TimerStarts ==
    /\ tpc = "start"
    /\ LoopHead(m_NextTimerDelay)
    /\ UNCHANGED <<emuVars, sharedVars, workerVars, next>>

(* wait() returned: go round.                                              *)
WaitReturns ==
    /\ tpc = "woken"
    /\ LoopHead(m_NextTimerDelay)
    /\ UNCHANGED <<emuVars, sharedVars, workerVars, next>>

(* timedwait() returned: leave, go round if a worker rescheduled, or call  *)
(* the emulator without the lock.                                          *)
TimedWaitReturns ==
    /\ \/ tpc = "timedwoken"
       \/ tpc = "timedwait" /\ timeout = 0
    /\ IF m_TimerShutdown
       THEN tpc' = "exited" /\ UNCHANGED <<generation, timeout>>
       ELSE IF generation # m_TimerGeneration
       THEN LoopHead(m_NextTimerDelay)
       ELSE tpc' = "unlocked" /\ UNCHANGED <<generation, timeout>>
    /\ UNCHANGED <<emuVars, sharedVars, workerVars, next>>

GenerateTradeResult ==
    /\ tpc = "unlocked"
    /\ order' = [r \in Requests |-> IF r \in Expired THEN "fired" ELSE order[r]]
    /\ next' = NextTimer(Pending \ Expired, remaining)
    /\ tpc' = "generated"
    /\ UNCHANGED <<remaining, sharedVars, workerVars, generation, timeout>>

(* Mutant: the result is kept in any case.                                 *)
Bug_TimerRelocks ==
    /\ tpc = "generated"
    /\ m_NextTimerDelay' = next
    /\ LoopHead(next)
    /\ UNCHANGED <<emuVars, m_TimerGeneration, m_TimerShutdown, workerVars, next>>

(* The result is kept only if no worker has rescheduled meanwhile.         *)
TimerRelocks ==
    LET delay == IF generation = m_TimerGeneration THEN next ELSE m_NextTimerDelay IN
    /\ tpc = "generated"
    /\ m_NextTimerDelay' = delay
    /\ LoopHead(delay)
    /\ UNCHANGED <<emuVars, m_TimerGeneration, m_TimerShutdown, workerVars, next>>

(* POSIX lets either wait return unsignalled.                              *)
SpuriousWakeup ==
    /\ tpc \in {"wait", "timedwait"}
    /\ WakeTimer
    /\ UNCHANGED <<emuVars, sharedVars, workerVars, generation, timeout, next>>

(* Mutant: the flag is set without a signal.                               *)
Bug_Shutdown ==
    /\ listener = "failed"
    /\ ~m_TimerShutdown
    /\ m_TimerShutdown' = TRUE
    /\ UNCHANGED <<emuVars, m_NextTimerDelay, m_TimerGeneration, workerVars, timerVars>>

(* ~CMarketExchange, run by main when startListener has thrown.  It then   *)
(* joins the timer thread before it deletes the emulator.                  *)
Shutdown ==
    /\ listener = "failed"
    /\ ~m_TimerShutdown
    /\ m_TimerShutdown' = TRUE
    /\ WakeTimer
    /\ UNCHANGED <<emuVars, m_NextTimerDelay, m_TimerGeneration, workerVars,
                   generation, timeout, next>>

-----------------------------------------------------------------------------
(* One tick of the clock.                                                  *)
Tick ==
    /\ \/ \E r \in Pending : remaining[r] > 0
       \/ tpc = "timedwait" /\ timeout > 0
    /\ remaining' = [r \in Requests |-> IF r \in Pending /\ remaining[r] > 0
                                        THEN remaining[r] - 1 ELSE remaining[r]]
    /\ timeout' = IF tpc = "timedwait" /\ timeout > 0 THEN timeout - 1 ELSE timeout
    /\ UNCHANGED <<order, sharedVars, workerVars, tpc, generation, next>>

(* No thread has anything to do before time passes or a request arrives.   *)
Quiet ==
    /\ \A w \in Workers : wpc[w] # "submitted"
    /\ tpc \in {"wait", "timedwait", "exited"}

TimerStep ==
    TimerStarts \/ WaitReturns \/ TimedWaitReturns \/ GenerateTradeResult \/ TimerRelocks

WorkerStep ==
    \E w \in Workers :
        \/ EntryMarketWorkerThread(w) \/ ReceiveFails(w) \/ updateNextTimer(w)
        \/ \E r \in Requests, d \in Delays, a \in BOOLEAN : SubmitTradeRequest(w, r, d, a)

Next == Listen \/ WorkerStep \/ TimerStep \/ SpuriousWakeup \/ Shutdown \/ Tick

(* The scheduler runs threads that can run and time passes; whether        *)
(* requests arrive and waits return early is left open.                    *)
Fairness ==
    /\ WF_vars(TimerStep)
    /\ WF_vars(Shutdown)
    /\ WF_vars(Tick)
    /\ \A w \in Workers : WF_vars(updateNextTimer(w))

Spec == Init /\ [][Next]_vars /\ Fairness

(* The same on a machine where threads take no time: the clock advances    *)
(* only when all of them are blocked.  What is still late there is late    *)
(* because of the order of steps alone.                                    *)
PromptNext == Listen \/ WorkerStep \/ TimerStep \/ SpuriousWakeup \/ Shutdown \/ (Quiet /\ Tick)
PromptSpec == Init /\ [][PromptNext]_vars

-----------------------------------------------------------------------------
(* Properties.                                                             *)

(* Every variable has its type; the delay is a delay of the emulator.      *)
TypeOK ==
    /\ order \in [Requests -> {"new", "pending", "fired"}]
    /\ remaining \in [Requests -> Delays]
    /\ m_NextTimerDelay \in Delays \cup {None}
    /\ m_TimerGeneration \in 0..(GenerationMod - 1)
    /\ m_TimerShutdown \in BOOLEAN
    /\ listener \in {"starting", "accepting", "failed"}
    /\ wpc \in [Workers -> {"none", "receiving", "submitted"}]
    /\ returned \in [Workers -> Delays \cup {None}]
    /\ tpc \in {"start", "wait", "woken", "timedwait", "timedwoken", "unlocked",
                "generated", "exited"}
    /\ generation \in 0..(GenerationMod - 1)
    /\ timeout \in Delays
    /\ next \in Delays \cup {None}

(* No lost wakeup: whenever the timer thread sleeps without a timeout and  *)
(* the emulator has a pending timer, a worker is on its way to             *)
(* updateNextTimer.                                                        *)
NoLostWakeup ==
    tpc = "wait" /\ Pending # {} =>
        \E w \in Workers : wpc[w] = "submitted" /\ returned[w] >= 0

(* Every request the emulator has accepted is acted on, so that its        *)
(* Trade-Result is sent, whatever the interleaving of hand-overs.          *)
EveryRequestFires ==
    \A r \in Requests : order[r] = "pending" ~> order[r] = "fired"

(* The destructor's join returns.                                          *)
TimerThreadJoins == (listener = "failed") ~> (tpc = "exited")

(* "GenerateTradeResult must be called when that time elapses": with every *)
(* thread blocked, the timer thread wakes no later than the next pending   *)
(* timer expires.                                                          *)
TimerCoversNextDeadline ==
    Quiet /\ tpc = "timedwait" => \A r \in Pending : timeout <= remaining[r]
=============================================================================
