------------------------- MODULE MarketTimer_proofs -------------------------
(***************************************************************************)
(* Proofs about MarketTimer, for any number of worker threads and requests *)
(* and any delays.                                                         *)
(*                                                                         *)
(* m_NextTimerDelay can be out of date: between SubmitTradeRequest and     *)
(* updateNextTimer, and between GenerateTradeResult and the lock that      *)
(* follows it.  The invariant says what makes up for it in each window: a  *)
(* worker on its way to updateNextTimer, or a generation that tells the    *)
(* timer thread to drop its result.  The second needs the generation not   *)
(* to come back to a value the timer thread has read, which a counter that *)
(* wraps cannot promise; the theorem is for runs of fewer requests than    *)
(* the counter has values.                                                 *)
(***************************************************************************)
EXTENDS MarketTimer, SetTheorems

(* Fewer requests than values of the unsigned m_TimerGeneration.           *)
FewRequests == IsFiniteSet(Requests) /\ Cardinality(Requests) < GenerationMod

(* Workers between SubmitTradeRequest and updateNextTimer.                 *)
Submitted == {w \in Workers : wpc[w] = "submitted"}

(* Requests the emulator has seen.                                         *)
Accepted == {r \in Requests : order[r] # "new"}

(* A worker brings back the time until a timer, never "no timers".         *)
ReturnedInv == \A w \in Submitted : returned[w] >= 0

(* Each accepted request moves the generation once.                        *)
GenerationInv ==
    /\ IsFiniteSet(Submitted)
    /\ IsFiniteSet(Accepted)
    /\ m_TimerGeneration + Cardinality(Submitted) = Cardinality(Accepted)
    /\ generation <= m_TimerGeneration

(* The thread sleeps without a timeout only on "no outstanding timers".    *)
SleepInv == tpc = "wait" => m_NextTimerDelay < 0

(* "No outstanding timers" while there is one: a worker is about to        *)
(* correct it.                                                             *)
CoveredInv == Pending # {} => m_NextTimerDelay >= 0 \/ Submitted # {}

(* The timer thread brings back "no timers" while there is one: it will    *)
(* drop the result, or a worker is about to correct it.                    *)
StaleInv ==
    tpc = "generated" /\ next < 0 /\ Pending # {} =>
       generation # m_TimerGeneration \/ Submitted # {}

TimerInv == ReturnedInv /\ GenerationInv /\ SleepInv /\ CoveredInv /\ StaleInv

-----------------------------------------------------------------------------
(* The emulator's answer.                                                  *)

(* The answer is a delay of one of the timers, and "no timers" exactly     *)
(* when there are none.                                                    *)
LEMMA NextTimerIsADelay ==
  ASSUME NEW S, NEW rem, \A r \in S : rem[r] \in Delays
  PROVE  /\ NextTimer(S, rem) \in Delays \cup {None}
         /\ S # {} => NextTimer(S, rem) \in Delays
         /\ NextTimer(S, rem) < 0 <=> S = {}
  <1>1. CASE S = {}
    BY <1>1 DEF NextTimer, None
  <1>2. CASE S # {}
    <2> DEFINE T == {rem[r] : r \in S}
    <2>1. T # {} /\ T \subseteq Nat /\ T \subseteq Delays
      BY <1>2 DEF Delays
    <2>2. Min(T) \in T
      BY <2>1, MinOfNaturals
    <2>3. NextTimer(S, rem) = Min(T)
      BY <1>2 DEF NextTimer
    <2> HIDE DEF T
    <2>4. Min(T) \in Delays
      BY <2>1, <2>2
    <2> QED
      BY <1>2, <2>3, <2>4 DEF Delays
  <1> QED
    BY <1>1, <1>2

-----------------------------------------------------------------------------
(* Type correctness.                                                       *)

(* Every step keeps the types.                                             *)
LEMMA TypeStep == TypeOK /\ [Next]_vars => TypeOK'
  <1> SUFFICES ASSUME TypeOK, [Next]_vars PROVE TypeOK'
    OBVIOUS
  <1> USE DEF TypeOK, emuVars, sharedVars, workerVars, timerVars
  <1>1. CASE Listen
    BY <1>1 DEF Listen
  <1>2. ASSUME NEW w \in Workers, EntryMarketWorkerThread(w) PROVE TypeOK'
    BY <1>2 DEF EntryMarketWorkerThread
  <1>3. ASSUME NEW w \in Workers, ReceiveFails(w) PROVE TypeOK'
    BY <1>3 DEF ReceiveFails
  <1>4. ASSUME NEW w \in Workers, NEW r \in Requests, NEW d \in Delays, NEW a \in BOOLEAN,
               SubmitTradeRequest(w, r, d, a)
        PROVE  TypeOK'
    <2> DEFINE rest == (IF a THEN Pending \ Expired ELSE Pending) \cup {r}
    <2>1. remaining' \in [Requests -> Delays]
      BY <1>4 DEF SubmitTradeRequest
    <2>2. rest \subseteq Requests
      BY DEF Pending, Expired
    <2>3. NextTimer(rest, remaining') \in Delays \cup {None}
      BY <2>1, <2>2, NextTimerIsADelay
    <2>4. /\ returned' = [returned EXCEPT ![w] = NextTimer(rest, remaining')]
          /\ order' = [q \in Requests |-> IF q \in rest THEN "pending"
                                          ELSE IF q \in Pending THEN "fired" ELSE order[q]]
          /\ wpc' = [wpc EXCEPT ![w] = "submitted"]
          /\ UNCHANGED <<sharedVars, listener, timerVars>>
      BY <1>4 DEF SubmitTradeRequest
    <2> HIDE DEF rest
    <2> QED
      BY <2>1, <2>3, <2>4
  <1>5. ASSUME NEW w \in Workers, updateNextTimer(w) PROVE TypeOK'
    <2>1. (m_TimerGeneration + 1) % GenerationMod \in 0..(GenerationMod - 1)
      BY GenerationAssumption
    <2> QED
      BY <1>5, <2>1 DEF updateNextTimer, WakeTimer
  <1>6. CASE TimerStarts
    BY <1>6 DEF TimerStarts, LoopHead, None
  <1>7. CASE WaitReturns
    BY <1>7 DEF WaitReturns, LoopHead, None
  <1>8. CASE TimedWaitReturns
    BY <1>8 DEF TimedWaitReturns, LoopHead, None
  <1>9. CASE GenerateTradeResult
    <2>1. NextTimer(Pending \ Expired, remaining) \in Delays \cup {None}
      BY NextTimerIsADelay DEF Pending
    <2> QED
      BY <1>9, <2>1 DEF GenerateTradeResult
  <1>10. CASE TimerRelocks
    BY <1>10 DEF TimerRelocks, LoopHead, None
  <1>11. CASE SpuriousWakeup
    BY <1>11 DEF SpuriousWakeup, WakeTimer
  <1>12. CASE Shutdown
    BY <1>12 DEF Shutdown, WakeTimer
  <1>13. CASE Tick
    BY <1>13, MaxDelayAssumption DEF Tick, Delays
  <1>14. CASE UNCHANGED vars
    BY <1>14 DEF vars
  <1> QED
    BY <1>1, <1>2, <1>3, <1>4, <1>5, <1>6, <1>7, <1>8, <1>9, <1>10, <1>11, <1>12,
       <1>13, <1>14
       DEF Next, WorkerStep, TimerStep

(* The variables of the timer protocol keep their types: the delay the     *)
(* timer thread sleeps for is always one the emulator gave.                *)
THEOREM TypesAreKept == Spec => []TypeOK
  <1>1. Init => TypeOK
    <2>1. 0 \in Delays /\ 0 \in 0..(GenerationMod - 1)
      BY MaxDelayAssumption, GenerationAssumption DEF Delays
    <2> QED
      BY <2>1 DEF Init, TypeOK
  <1> QED
    BY <1>1, TypeStep, PTL DEF Spec

-----------------------------------------------------------------------------
(* No lost wakeup.                                                         *)

(* The invariant holds before any request has arrived.                     *)
LEMMA InitTimerInv == Init => TimerInv
  <1> SUFFICES ASSUME Init PROVE TimerInv
    OBVIOUS
  <1>1. Submitted = {} /\ Accepted = {} /\ Pending = {}
    BY DEF Init, Submitted, Accepted, Pending
  <1>2. GenerationInv
    BY <1>1, FS_EmptySet DEF Init, GenerationInv
  <1> QED
    BY <1>1, <1>2 DEF Init, TimerInv, ReturnedInv, SleepInv, CoveredInv, StaleInv

(* The generation has room for the worker that is about to move it.        *)
LEMMA GenerationHasRoom ==
  ASSUME FewRequests, TypeOK, GenerationInv, NEW w \in Submitted
  PROVE  (m_TimerGeneration + 1) % GenerationMod = m_TimerGeneration + 1
  <1>1. Cardinality(Accepted) <= Cardinality(Requests)
    BY FS_Subset DEF Accepted, FewRequests
  <1>2. Cardinality(Submitted) \in Nat /\ Cardinality(Submitted) # 0
    BY FS_CardinalityType, FS_EmptySet DEF GenerationInv
  <1>3. Cardinality(Accepted) \in Nat /\ Cardinality(Requests) \in Nat
    BY FS_CardinalityType DEF GenerationInv, FewRequests
  <1>4. m_TimerGeneration \in Nat /\ m_TimerGeneration + 1 < GenerationMod
    BY <1>1, <1>2, <1>3, GenerationAssumption DEF GenerationInv, TypeOK, FewRequests
  <1> QED
    BY <1>4, GenerationAssumption

(* A step that leaves the workers' and the requests' states on their side  *)
(* keeps the count.                                                        *)
LEMMA SameCounts ==
  ASSUME GenerationInv, Submitted' = Submitted, Accepted' = Accepted,
         m_TimerGeneration' = m_TimerGeneration,
         generation' = generation \/ generation' = m_TimerGeneration,
         m_TimerGeneration \in Nat
  PROVE  GenerationInv'
  BY DEF GenerationInv

(* A request accepted: a worker is on its way to updateNextTimer.          *)
LEMMA SubmitKeeps ==
  ASSUME FewRequests, TypeOK, TypeOK', TimerInv,
         NEW w \in Workers, NEW r \in Requests, NEW d \in Delays, NEW a \in BOOLEAN,
         SubmitTradeRequest(w, r, d, a)
  PROVE  TimerInv'
  <1> DEFINE rest == (IF a THEN Pending \ Expired ELSE Pending) \cup {r}
  <1>1. /\ wpc[w] = "receiving"
        /\ order[r] = "new"
        /\ wpc' = [wpc EXCEPT ![w] = "submitted"]
        /\ returned' = [returned EXCEPT ![w] = NextTimer(rest, remaining')]
        /\ order' = [q \in Requests |-> IF q \in rest THEN "pending"
                                        ELSE IF q \in Pending THEN "fired" ELSE order[q]]
        /\ UNCHANGED <<m_NextTimerDelay, m_TimerGeneration, tpc, generation, next>>
    BY DEF SubmitTradeRequest, sharedVars, timerVars
  <1>2. w \notin Submitted /\ Submitted' = Submitted \cup {w}
    BY <1>1 DEF Submitted, TypeOK
  <1>3. r \notin Accepted /\ Accepted' = Accepted \cup {r}
    BY <1>1 DEF Accepted, Pending, TypeOK
  <1>4. NextTimer(rest, remaining') >= 0
    <2>1. rest # {} /\ rest \subseteq Requests
      BY DEF Pending, Expired
    <2>2. NextTimer(rest, remaining') \in Delays
      BY <2>1, NextTimerIsADelay DEF TypeOK
    <2> QED
      BY <2>2 DEF Delays
  <1> HIDE DEF rest
  <1>5. ReturnedInv'
    BY <1>1, <1>2, <1>4 DEF ReturnedInv, TimerInv, TypeOK, Submitted
  <1>6. GenerationInv'
    <2>1. /\ IsFiniteSet(Submitted \cup {w})
          /\ Cardinality(Submitted \cup {w}) = Cardinality(Submitted) + 1
          /\ IsFiniteSet(Accepted \cup {r})
          /\ Cardinality(Accepted \cup {r}) = Cardinality(Accepted) + 1
      BY <1>2, <1>3, FS_AddElement DEF TimerInv, GenerationInv
    <2>2. Cardinality(Submitted) \in Nat /\ Cardinality(Accepted) \in Nat
      BY FS_CardinalityType DEF TimerInv, GenerationInv
    <2> QED
      BY <1>1, <1>2, <1>3, <2>1, <2>2 DEF TimerInv, GenerationInv, TypeOK
  <1> QED
    BY <1>1, <1>2, <1>5, <1>6 DEF TimerInv, SleepInv, CoveredInv, StaleInv

(* updateNextTimer: the delay covers a timer, the generation is a new one, *)
(* and the timer thread does not sleep on.                                 *)
LEMMA UpdateKeeps ==
  ASSUME FewRequests, TypeOK, TypeOK', TimerInv, NEW w \in Workers, updateNextTimer(w)
  PROVE  TimerInv'
  <1>1. /\ wpc[w] = "submitted"
        /\ wpc' = [wpc EXCEPT ![w] = "receiving"]
        /\ m_NextTimerDelay' = returned[w]
        /\ tpc' # "wait"
        /\ UNCHANGED <<order, returned, generation, next>>
    BY DEF updateNextTimer, WakeTimer, emuVars, TypeOK
  <1>2. w \in Submitted /\ Submitted' = Submitted \ {w}
    BY <1>1 DEF Submitted, TypeOK
  <1>3. Accepted' = Accepted /\ Pending' = Pending
    BY <1>1 DEF Accepted, Pending
  <1>4. m_TimerGeneration' = m_TimerGeneration + 1
    BY <1>2, GenerationHasRoom DEF updateNextTimer, TimerInv
  <1>5. GenerationInv' /\ generation' # m_TimerGeneration'
    <2>1. /\ IsFiniteSet(Submitted \ {w})
          /\ Cardinality(Submitted \ {w}) = Cardinality(Submitted) - 1
      BY <1>2, FS_RemoveElement DEF TimerInv, GenerationInv
    <2>2. Cardinality(Submitted) \in Nat /\ Cardinality(Accepted) \in Nat
      BY FS_CardinalityType DEF TimerInv, GenerationInv
    <2> QED
      BY <1>1, <1>2, <1>3, <1>4, <2>1, <2>2 DEF TimerInv, GenerationInv, TypeOK
  <1>6. returned[w] >= 0 /\ ReturnedInv'
    BY <1>1, <1>2 DEF TimerInv, ReturnedInv
  <1> QED
    BY <1>1, <1>5, <1>6 DEF TimerInv, SleepInv, CoveredInv, StaleInv

(* A step that leaves the emulator and the workers alone and gives the     *)
(* timer thread its next wait from the delay it leaves behind.             *)
LEMMA RestKeeps ==
  ASSUME TypeOK, TypeOK', TimerInv, Submitted' = Submitted, Pending' = Pending,
         Accepted' = Accepted, returned' = returned,
         m_NextTimerDelay' = m_NextTimerDelay, m_TimerGeneration' = m_TimerGeneration,
         generation' = generation \/ generation' = m_TimerGeneration,
         tpc' = "wait" => tpc = "wait" \/ m_NextTimerDelay < 0,
         tpc' = "generated" => tpc = "generated" /\ UNCHANGED <<generation, next>>
  PROVE  TimerInv'
  <1>1. GenerationInv'
    BY SameCounts DEF TimerInv, TypeOK
  <1> QED
    BY <1>1 DEF TimerInv, ReturnedInv, SleepInv, CoveredInv, StaleInv

(* Every step keeps the invariant.                                         *)
LEMMA TimerStepKeeps ==
  ASSUME FewRequests, TypeOK, TypeOK', TimerInv, [Next]_vars
  PROVE  TimerInv'
  <1> USE DEF emuVars, sharedVars, workerVars, timerVars
  <1> DEFINE SameWork == /\ Submitted' = Submitted /\ Pending' = Pending
                         /\ Accepted' = Accepted /\ returned' = returned
  <1>0. wpc' = wpc /\ order' = order /\ returned' = returned => SameWork
    BY DEF Submitted, Accepted, Pending
  <1>1. CASE Listen
    BY <1>0, <1>1, RestKeeps DEF Listen
  <1>2. ASSUME NEW w \in Workers, EntryMarketWorkerThread(w) PROVE TimerInv'
    <2>1. SameWork
      BY <1>2 DEF EntryMarketWorkerThread, Submitted, Accepted, Pending, TypeOK
    <2> QED
      BY <1>2, <2>1, RestKeeps DEF EntryMarketWorkerThread
  <1>3. ASSUME NEW w \in Workers, ReceiveFails(w) PROVE TimerInv'
    <2>1. SameWork
      BY <1>3 DEF ReceiveFails, Submitted, Accepted, Pending, TypeOK
    <2> QED
      BY <1>3, <2>1, RestKeeps DEF ReceiveFails
  <1>4. ASSUME NEW w \in Workers, NEW r \in Requests, NEW d \in Delays, NEW a \in BOOLEAN,
               SubmitTradeRequest(w, r, d, a)
        PROVE  TimerInv'
    BY <1>4, SubmitKeeps
  <1>5. ASSUME NEW w \in Workers, updateNextTimer(w) PROVE TimerInv'
    BY <1>5, UpdateKeeps
  <1>6. CASE TimerStarts
    BY <1>0, <1>6, RestKeeps DEF TimerStarts, LoopHead
  <1>7. CASE WaitReturns
    BY <1>0, <1>7, RestKeeps DEF WaitReturns, LoopHead
  <1>8. CASE TimedWaitReturns
    BY <1>0, <1>8, RestKeeps DEF TimedWaitReturns, LoopHead
  <1>9. CASE GenerateTradeResult
    <2>1. /\ order' = [r \in Requests |-> IF r \in Expired THEN "fired" ELSE order[r]]
          /\ next' = NextTimer(Pending \ Expired, remaining)
          /\ tpc' = "generated"
          /\ UNCHANGED <<m_NextTimerDelay, m_TimerGeneration, generation, wpc, returned>>
      BY <1>9 DEF GenerateTradeResult
    <2>2. /\ Submitted' = Submitted
          /\ Accepted' = Accepted
          /\ Pending' = Pending \ Expired
      BY <2>1 DEF Submitted, Accepted, Pending, Expired, TypeOK
    <2>3. next' < 0 => Pending' = {}
      BY <2>1, <2>2, NextTimerIsADelay DEF TypeOK, Pending
    <2>4. GenerationInv'
      BY <2>1, <2>2, SameCounts DEF TimerInv, TypeOK
    <2> QED
      BY <2>1, <2>2, <2>3, <2>4 DEF TimerInv, ReturnedInv, SleepInv, CoveredInv, StaleInv
  <1>10. CASE TimerRelocks
    <2>1. SameWork
      BY <1>0, <1>10 DEF TimerRelocks
    <2>2. /\ tpc = "generated" /\ tpc' # "generated"
          /\ m_TimerGeneration' = m_TimerGeneration
          /\ generation' = generation \/ generation' = m_TimerGeneration
          /\ m_NextTimerDelay' = IF generation = m_TimerGeneration THEN next ELSE m_NextTimerDelay
          /\ tpc' = "wait" => m_NextTimerDelay' < 0
      BY <1>10 DEF TimerRelocks, LoopHead
    <2>3. GenerationInv'
      BY <2>1, <2>2, SameCounts DEF TimerInv, TypeOK
    <2>4. CoveredInv'
      BY <2>1, <2>2 DEF TimerInv, CoveredInv, StaleInv, TypeOK, Delays, None
    <2> QED
      BY <2>1, <2>2, <2>3, <2>4 DEF TimerInv, ReturnedInv, SleepInv, StaleInv
  <1>11. CASE SpuriousWakeup
    BY <1>0, <1>11, RestKeeps DEF SpuriousWakeup, WakeTimer
  <1>12. CASE Shutdown
    BY <1>0, <1>12, RestKeeps DEF Shutdown, WakeTimer
  <1>13. CASE Tick
    BY <1>0, <1>13, RestKeeps DEF Tick
  <1>14. CASE UNCHANGED vars
    BY <1>0, <1>14, RestKeeps DEF vars
  <1> QED
    BY <1>1, <1>2, <1>3, <1>4, <1>5, <1>6, <1>7, <1>8, <1>9, <1>10, <1>11, <1>12,
       <1>13, <1>14
       DEF Next, WorkerStep, TimerStep

(* Whenever MarketTimerThread sleeps without a timeout and the emulator    *)
(* has a pending timer, a worker is on its way to updateNextTimer: for any *)
(* number of workers and requests, as long as the generation does not wrap *)
(* within the run.                                                         *)
THEOREM WakeupsAreNotLost ==
  ASSUME FewRequests
  PROVE  Spec => []NoLostWakeup
  <1>1. TypeOK /\ TypeOK' /\ TimerInv /\ [Next]_vars => TimerInv'
    BY TimerStepKeeps
  <1>2. TimerInv /\ TypeOK => NoLostWakeup
    BY DEF TimerInv, ReturnedInv, SleepInv, CoveredInv, NoLostWakeup, Submitted, TypeOK,
           Delays, None
  <1> QED
    BY TypesAreKept, InitTimerInv, <1>1, <1>2, PTL DEF Spec
=============================================================================
