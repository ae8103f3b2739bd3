------------------------------- MODULE MEESUT -------------------------------
(***************************************************************************)
(* The Market Exchange's side of the connections to the Brokerage House    *)
(* (src/interfaces/MEESUT.cpp, src/interfaces/BaseInterface.cpp and the    *)
(* part of src/interfaces/CSocket.cpp they use).                           *)
(*                                                                         *)
(* Every Trade-Result or Market-Feed that the market exchange emulator     *)
(* produces is carried by a detached thread of its own.  The thread takes  *)
(* a socket from a pool, sends the request, waits for the reply, puts the  *)
(* socket back and leaves.  The destructor waits for the threads to leave  *)
(* before it closes the sockets.                                           *)
(*                                                                         *)
(* A request is identified with the thread that carries it.  One atomic    *)
(* action per critical section of m_PoolLock and m_ThreadCountLock, and    *)
(* one per socket call.                                                    *)
(***************************************************************************)
EXTENDS Naturals, Sequences, FiniteSets

CONSTANTS
    Threads,        \* detached threads, one per request
    iConnections,   \* size of the pool asked for; socket 1 is CBaseInterface's
    NoSocket        \* "holds no socket"

ASSUME ConnectionsAssumption == iConnections \in Nat \ {0}
ASSUME NoSocketAssumption    == NoSocket \notin Nat
ASSUME ThreadsAssumption     == IsFiniteSet(Threads)

Sockets == 1..iConnections

VARIABLES
    m_FreeSockets,         \* the pool: a vector used as a stack
    m_ExtraSockets,        \* the sockets the constructor opened beyond the first
    m_OutstandingThreads,  \* what the destructor waits to see at zero
    poolWaiters,           \* threads blocked on m_PoolCond
    pc,                    \* where each thread is
    pSocket,               \* the socket each thread holds
    conn,                  \* each socket's connection, as the kernel knows it
    epoch,                 \* number of connections each socket has made
    replies,               \* replies on each connection, by request
    bh,                    \* the Brokerage House's handling of each request
    via,                   \* the connection each request was sent on
    outcome,               \* what talkToSUT logged for each request
    dtor                   \* progress of ~CMEESUT

poolVars == <<m_FreeSockets, m_ExtraSockets, poolWaiters, pSocket>>
netVars  == <<conn, epoch, replies, bh, via>>
vars == <<m_FreeSockets, m_ExtraSockets, m_OutstandingThreads, poolWaiters, pc,
          pSocket, conn, epoch, replies, bh, via, outcome, dtor>>

(* "starting": threadStarted() called, pthread_create() not yet returned.  *)
PCs == {"new", "starting", "acquire", "poolwait", "send", "reconnectAfterSend",
        "recv", "reconnectAfterRecv", "release", "finish", "done", "failed"}

(* Between threadStarted() and threadFinished().                           *)
Active(t) == pc[t] \notin {"new", "done", "failed"}

(***************************************************************************)
(* Kernel state of a connection: no descriptor, established, closed by the *)
(* peer (the next send still succeeds), reset (a send fails with EPIPE).   *)
(***************************************************************************)
Conns == {"nofd", "up", "fin", "reset"}

(* What the Brokerage House did with a request.                            *)
BHStates == {"unsent", "inflight", "executing", "executed", "lost"}

(* What became of a request: what talkToSUT logged (a reply, its own or    *)
(* another request's; -1; -2), or the error path that skipped the log.     *)
Outcomes == {"none", "reply", "stray", "sendError", "receiveError", "thrown", "notcreated"}

(***************************************************************************)
(* The constructor.  CBaseInterface pushes its socket whether or not it    *)
(* could connect; the loop over the others stops at the first failure.     *)
(***************************************************************************)
Init ==
    /\ \E opened \in 0..(iConnections - 1), base \in {"up", "nofd"} :
          /\ m_ExtraSockets = 2..(opened + 1)
          /\ m_FreeSockets = [i \in 1..(opened + 1) |-> i]
          /\ conn = [s \in Sockets |-> IF s = 1 THEN base
                                       ELSE IF s <= opened + 1 THEN "up" ELSE "nofd"]
    /\ m_OutstandingThreads = 0
    /\ poolWaiters = {}
    /\ pc = [t \in Threads |-> "new"]
    /\ pSocket = [t \in Threads |-> NoSocket]
    /\ epoch = [s \in Sockets |-> 0]
    /\ replies = [s \in Sockets |-> <<>>]
    /\ bh = [t \in Threads |-> "unsent"]
    /\ via = [t \in Threads |-> <<NoSocket, 0>>]
    /\ outcome = [t \in Threads |-> "none"]
    /\ dtor = "alive"

-----------------------------------------------------------------------------
(* RunTradeResultAsync and RunMarketFeedAsync, called by the emulator.     *)

(* Mutant: the thread is not counted.                                      *)
Bug_ThreadStarted(t) ==
    /\ dtor = "alive"
    /\ pc[t] = "new"
    /\ pc' = [pc EXCEPT ![t] = "starting"]
    /\ UNCHANGED <<poolVars, netVars, m_OutstandingThreads, outcome, dtor>>

(* threadStarted() precedes pthread_create().  The emulator calls in only  *)
(* while it exists, and it is deleted before this object is.               *)
ThreadStarted(t) ==
    /\ dtor = "alive"
    /\ pc[t] = "new"
    /\ m_OutstandingThreads' = m_OutstandingThreads + 1
    /\ pc' = [pc EXCEPT ![t] = "starting"]
    /\ UNCHANGED <<poolVars, netVars, outcome, dtor>>

CreateSucceeds(t) ==
    /\ pc[t] = "starting"
    /\ pc' = [pc EXCEPT ![t] = "acquire"]
    /\ UNCHANGED <<poolVars, netVars, m_OutstandingThreads, outcome, dtor>>

(* pthread_create() fails: threadFinished(), and the request is dropped.   *)
CreateFails(t) ==
    /\ pc[t] = "starting"
    /\ m_OutstandingThreads' = m_OutstandingThreads - 1
    /\ pc' = [pc EXCEPT ![t] = "failed"]
    /\ outcome' = [outcome EXCEPT ![t] = "notcreated"]
    /\ UNCHANGED <<poolVars, netVars, dtor>>

-----------------------------------------------------------------------------
(* TradeResultAsync and MarketFeedAsync.                                   *)

(* Mutant: back() without pop_back().                                      *)
Bug_AcquireSocket(t) ==
    /\ pc[t] = "acquire"
    /\ m_FreeSockets # <<>>
    /\ pSocket' = [pSocket EXCEPT ![t] = m_FreeSockets[Len(m_FreeSockets)]]
    /\ pc' = [pc EXCEPT ![t] = "send"]
    /\ UNCHANGED <<m_FreeSockets, m_ExtraSockets, poolWaiters, netVars,
                   m_OutstandingThreads, outcome, dtor>>

(* acquireSocket(), the pool has a socket: the last one released.          *)
AcquireSocket(t) ==
    /\ pc[t] = "acquire"
    /\ m_FreeSockets # <<>>
    /\ pSocket' = [pSocket EXCEPT ![t] = m_FreeSockets[Len(m_FreeSockets)]]
    /\ m_FreeSockets' = SubSeq(m_FreeSockets, 1, Len(m_FreeSockets) - 1)
    /\ pc' = [pc EXCEPT ![t] = "send"]
    /\ UNCHANGED <<m_ExtraSockets, poolWaiters, netVars, m_OutstandingThreads,
                   outcome, dtor>>

(* acquireSocket(), the pool is empty: wait on m_PoolCond.                 *)
WaitForSocket(t) ==
    /\ pc[t] = "acquire"
    /\ m_FreeSockets = <<>>
    /\ poolWaiters' = poolWaiters \cup {t}
    /\ pc' = [pc EXCEPT ![t] = "poolwait"]
    /\ UNCHANGED <<m_FreeSockets, m_ExtraSockets, pSocket, netVars,
                   m_OutstandingThreads, outcome, dtor>>

(* POSIX allows a wait to return unsignalled; the loop tests again.        *)
SpuriousWakeup(t) ==
    /\ pc[t] = "poolwait"
    /\ poolWaiters' = poolWaiters \ {t}
    /\ pc' = [pc EXCEPT ![t] = "acquire"]
    /\ UNCHANGED <<m_FreeSockets, m_ExtraSockets, pSocket, netVars,
                   m_OutstandingThreads, outcome, dtor>>

(* talkToSUT: dbt5Send accepts the whole request.  On a connection the     *)
(* peer has closed the kernel accepts it and the peer answers with a reset.*)
SendSucceeds(t) ==
    LET s == pSocket[t] IN
    /\ pc[t] = "send"
    /\ conn[s] \in {"up", "fin"}
    /\ bh' = [bh EXCEPT ![t] = IF conn[s] = "up" THEN "inflight" ELSE "lost"]
    /\ conn' = [conn EXCEPT ![s] = IF @ = "fin" THEN "reset" ELSE @]
    /\ via' = [via EXCEPT ![t] = <<s, epoch[s]>>]
    /\ pc' = [pc EXCEPT ![t] = "recv"]
    /\ UNCHANGED <<poolVars, m_OutstandingThreads, epoch, replies, outcome, dtor>>

(* dbt5Send throws, possibly after part of the request was accepted: the   *)
(* descriptor is invalid or the connection is dead.  dbt5Reconnect starts  *)
(* with dbt5Disconnect.                                                    *)
SendFails(t) ==
    LET s == pSocket[t] IN
    /\ pc[t] = "send"
    /\ conn[s] # "up"
    /\ conn' = [conn EXCEPT ![s] = "nofd"]
    /\ replies' = [replies EXCEPT ![s] = <<>>]
    /\ bh' = [bh EXCEPT ![t] = "lost"]
    /\ pc' = [pc EXCEPT ![t] = "reconnectAfterSend"]
    /\ UNCHANGED <<poolVars, m_OutstandingThreads, epoch, via, outcome, dtor>>

(* dbt5Connect inside dbt5Reconnect, after a send error: the error is      *)
(* logged as -1 only when it succeeds, otherwise CSocketErr leaves         *)
(* talkToSUT and the thread function only reports it.                      *)
ReconnectAfterSend(t) ==
    LET s == pSocket[t] IN
    /\ pc[t] = "reconnectAfterSend"
    /\ \/ /\ conn' = [conn EXCEPT ![s] = "up"]
          /\ epoch' = [epoch EXCEPT ![s] = @ + 1]
          /\ outcome' = [outcome EXCEPT ![t] = "sendError"]
       \/ /\ outcome' = [outcome EXCEPT ![t] = "thrown"]
          /\ UNCHANGED <<conn, epoch>>
    /\ pc' = [pc EXCEPT ![t] = "release"]
    /\ UNCHANGED <<poolVars, m_OutstandingThreads, replies, bh, via, dtor>>

(* dbt5Receive returns the reply at the head of the stream.                *)
ReceiveSucceeds(t) ==
    LET s == pSocket[t] IN
    /\ pc[t] = "recv"
    /\ conn[s] # "nofd"
    /\ replies[s] # <<>>
    /\ outcome' = [outcome EXCEPT ![t] = IF Head(replies[s]) = t THEN "reply" ELSE "stray"]
    /\ replies' = [replies EXCEPT ![s] = Tail(@)]
    /\ pc' = [pc EXCEPT ![t] = "release"]
    /\ UNCHANGED <<poolVars, m_OutstandingThreads, conn, epoch, bh, via, dtor>>

(* The stream ended: ERR_SOCKET_CLOSED, logged as -2 and followed by       *)
(* dbt5Reconnect.                                                          *)
ReceiveClosed(t) ==
    LET s == pSocket[t] IN
    /\ pc[t] = "recv"
    /\ conn[s] \in {"fin", "reset"}
    /\ replies[s] = <<>>
    /\ conn' = [conn EXCEPT ![s] = "nofd"]
    /\ outcome' = [outcome EXCEPT ![t] = "receiveError"]
    /\ pc' = [pc EXCEPT ![t] = "reconnectAfterRecv"]
    /\ UNCHANGED <<poolVars, m_OutstandingThreads, epoch, replies, bh, via, dtor>>

(* Mutant: recv() interrupted by a signal counts as an error.              *)
Bug_ReceiveFails(t) ==
    /\ pc[t] = "recv"
    /\ conn[pSocket[t]] \in {"up", "reset"}
    /\ outcome' = [outcome EXCEPT ![t] = "receiveError"]
    /\ pc' = [pc EXCEPT ![t] = "release"]
    /\ UNCHANGED <<poolVars, netVars, m_OutstandingThreads, dtor>>

(* Any other error (a reset connection): ERR_SOCKET_RECV, logged as -2,    *)
(* and the socket goes back to the pool as it is.                          *)
ReceiveFails(t) ==
    LET s == pSocket[t] IN
    /\ pc[t] = "recv"
    /\ conn[s] = "reset"
    /\ replies' = [replies EXCEPT ![s] = <<>>]
    /\ outcome' = [outcome EXCEPT ![t] = "receiveError"]
    /\ pc' = [pc EXCEPT ![t] = "release"]
    /\ UNCHANGED <<poolVars, m_OutstandingThreads, conn, epoch, bh, via, dtor>>

ReconnectAfterRecv(t) ==
    LET s == pSocket[t] IN
    /\ pc[t] = "reconnectAfterRecv"
    /\ \/ /\ conn' = [conn EXCEPT ![s] = "up"]
          /\ epoch' = [epoch EXCEPT ![s] = @ + 1]
       \/ UNCHANGED <<conn, epoch>>
    /\ pc' = [pc EXCEPT ![t] = "release"]
    /\ UNCHANGED <<poolVars, m_OutstandingThreads, replies, bh, via, outcome, dtor>>

(* Mutant: push_back without a signal.                                     *)
Bug_ReleaseSocket(t) ==
    /\ pc[t] = "release"
    /\ m_FreeSockets' = Append(m_FreeSockets, pSocket[t])
    /\ pSocket' = [pSocket EXCEPT ![t] = NoSocket]
    /\ pc' = [pc EXCEPT ![t] = "finish"]
    /\ UNCHANGED <<m_ExtraSockets, poolWaiters, netVars, m_OutstandingThreads, outcome, dtor>>

(* releaseSocket(): push_back and signal one waiter, which tests again.    *)
ReleaseSocket(t) ==
    /\ pc[t] = "release"
    /\ m_FreeSockets' = Append(m_FreeSockets, pSocket[t])
    /\ pSocket' = [pSocket EXCEPT ![t] = NoSocket]
    /\ \/ /\ poolWaiters = {}
          /\ pc' = [pc EXCEPT ![t] = "finish"]
          /\ UNCHANGED poolWaiters
       \/ \E w \in poolWaiters :
             /\ poolWaiters' = poolWaiters \ {w}
             /\ pc' = [pc EXCEPT ![t] = "finish", ![w] = "acquire"]
    /\ UNCHANGED <<m_ExtraSockets, netVars, m_OutstandingThreads, outcome, dtor>>

(* Mutant: the destructor is not woken.                                    *)
Bug_ThreadFinished(t) ==
    /\ pc[t] = "finish"
    /\ m_OutstandingThreads' = m_OutstandingThreads - 1
    /\ pc' = [pc EXCEPT ![t] = "done"]
    /\ UNCHANGED <<poolVars, netVars, outcome, dtor>>

(* threadFinished(): the last thread wakes the destructor.                 *)
ThreadFinished(t) ==
    /\ pc[t] = "finish"
    /\ m_OutstandingThreads' = m_OutstandingThreads - 1
    /\ dtor' = IF m_OutstandingThreads' = 0 /\ dtor = "waiting" THEN "testing" ELSE dtor
    /\ pc' = [pc EXCEPT ![t] = "done"]
    /\ UNCHANGED <<poolVars, netVars, outcome>>

-----------------------------------------------------------------------------
(* ~CMEESUT.  ~CMarketExchange has joined the timer thread and deleted the *)
(* emulator, so no caller is inside RunTradeResultAsync any more.          *)

DtorBegins ==
    /\ dtor = "alive"
    /\ \A t \in Threads : pc[t] # "starting"
    /\ dtor' = "testing"
    /\ UNCHANGED <<poolVars, netVars, m_OutstandingThreads, pc, outcome>>

DtorWaits ==
    /\ dtor = "testing"
    /\ m_OutstandingThreads > 0
    /\ dtor' = "waiting"
    /\ UNCHANGED <<poolVars, netVars, m_OutstandingThreads, pc, outcome>>

(* Mutant: the count is tested with if instead of while.                   *)
Bug_DtorWakesSpuriously ==
    /\ dtor = "waiting"
    /\ dtor' = "destroyed"
    /\ UNCHANGED <<poolVars, netVars, m_OutstandingThreads, pc, outcome>>

DtorWakesSpuriously ==
    /\ dtor = "waiting"
    /\ dtor' = "testing"
    /\ UNCHANGED <<poolVars, netVars, m_OutstandingThreads, pc, outcome>>

(* The extra sockets are deleted here, the first one by ~CBaseInterface.   *)
DtorCloses ==
    /\ dtor = "testing"
    /\ m_OutstandingThreads = 0
    /\ conn' = [s \in Sockets |-> IF s \in m_ExtraSockets \cup {1} THEN "nofd" ELSE conn[s]]
    /\ dtor' = "destroyed"
    /\ UNCHANGED <<poolVars, m_OutstandingThreads, pc, epoch, replies, bh, via, outcome>>

-----------------------------------------------------------------------------
(* The Brokerage House and the network.                                    *)

(* A worker's dbt5Receive returns the request once all of it has arrived.  *)
BHReceives(t) ==
    /\ bh[t] = "inflight"
    /\ bh' = [bh EXCEPT ![t] = "executing"]
    /\ UNCHANGED <<poolVars, conn, epoch, replies, via, m_OutstandingThreads, pc,
                   outcome, dtor>>

(* The worker replies on the connection the request came in on; the reply  *)
(* is lost if that connection is gone.                                     *)
BHReplies(t) ==
    LET s == via[t][1] IN
    /\ bh[t] = "executing"
    /\ bh' = [bh EXCEPT ![t] = "executed"]
    /\ replies' = IF epoch[s] = via[t][2] /\ conn[s] = "up"
                  THEN [replies EXCEPT ![s] = Append(@, t)] ELSE replies
    /\ UNCHANGED <<poolVars, conn, epoch, via, m_OutstandingThreads, pc, outcome, dtor>>

(* The worker ends or its process dies: the connection is closed in order  *)
(* or reset, and a request still on its way is lost.                       *)
PeerCloses(s) ==
    /\ conn[s] = "up"
    /\ \E c \in {"fin", "reset"} : conn' = [conn EXCEPT ![s] = c]
    /\ bh' = [t \in Threads |-> IF bh[t] = "inflight" /\ via[t] = <<s, epoch[s]>>
                                THEN "lost" ELSE bh[t]]
    /\ UNCHANGED <<poolVars, epoch, replies, via, m_OutstandingThreads, pc, outcome, dtor>>

-----------------------------------------------------------------------------
ThreadStep(t) ==
    \/ CreateSucceeds(t) \/ CreateFails(t)
    \/ AcquireSocket(t) \/ WaitForSocket(t)
    \/ SendSucceeds(t) \/ SendFails(t) \/ ReconnectAfterSend(t)
    \/ ReceiveSucceeds(t) \/ ReceiveClosed(t) \/ ReceiveFails(t) \/ ReconnectAfterRecv(t)
    \/ ReleaseSocket(t) \/ ThreadFinished(t)

BHStep(t) == BHReceives(t) \/ BHReplies(t)

DtorStep == DtorWaits \/ DtorCloses

Next ==
    \/ \E t \in Threads : ThreadStarted(t) \/ ThreadStep(t) \/ SpuriousWakeup(t) \/ BHStep(t)
    \/ \E s \in Sockets : PeerCloses(s)
    \/ DtorBegins \/ DtorStep \/ DtorWakesSpuriously

(* Threads are scheduled, connect() and the destructor's wait return, and  *)
(* the Brokerage House answers what it received.  Nothing is assumed of    *)
(* when requests are produced, when connections break or when the          *)
(* destructor is called.                                                   *)
Fairness ==
    /\ \A t \in Threads : WF_vars(ThreadStep(t)) /\ WF_vars(BHStep(t))
    /\ WF_vars(DtorStep)

Spec == Init /\ [][Next]_vars /\ Fairness

-----------------------------------------------------------------------------
(* Properties.                                                             *)

Opened   == {1} \cup m_ExtraSockets
FreeSet  == {m_FreeSockets[i] : i \in 1..Len(m_FreeSockets)}
Holders  == {t \in Threads : pSocket[t] # NoSocket}
Outstanding == {t \in Threads : Active(t)}

(* Every variable has the type its C++ declaration gives it; in particular *)
(* m_OutstandingThreads never goes below zero.                             *)
TypeOK ==
    /\ m_FreeSockets \in Seq(Sockets)
    /\ m_ExtraSockets \subseteq Sockets
    /\ m_OutstandingThreads \in Nat
    /\ poolWaiters \subseteq Threads
    /\ pc \in [Threads -> PCs]
    /\ pSocket \in [Threads -> Sockets \cup {NoSocket}]
    /\ conn \in [Sockets -> Conns]
    /\ epoch \in [Sockets -> Nat]
    /\ replies \in [Sockets -> Seq(Threads)]
    /\ bh \in [Threads -> BHStates]
    /\ via \in [Threads -> (Sockets \cup {NoSocket}) \X Nat]
    /\ outcome \in [Threads -> Outcomes]
    /\ dtor \in {"alive", "testing", "waiting", "destroyed"}

(* acquireSocket/releaseSocket never lose, duplicate or share a socket: at *)
(* every moment each opened socket is either once in m_FreeSockets or held *)
(* by exactly one thread, whatever error path talkToSUT took.              *)
PoolSound ==
    /\ \A i, j \in 1..Len(m_FreeSockets) :
          m_FreeSockets[i] = m_FreeSockets[j] => i = j
    /\ \A t, u \in Holders : pSocket[t] = pSocket[u] => t = u
    /\ \A t \in Holders : pSocket[t] \notin FreeSet
    /\ FreeSet \cup {pSocket[t] : t \in Holders} = Opened

(* Once ~CMEESUT is past its wait, no detached thread is between           *)
(* threadStarted() and threadFinished(), so none can touch the destroyed   *)
(* pool.                                                                   *)
DestroyedQuiescent ==
    dtor = "destroyed" => \A t \in Threads : ~Active(t) /\ pSocket[t] = NoSocket

(* The reply talkToSUT logs for a request is the reply to that request:    *)
(* no error path hands a connection with an unread reply to the next user, *)
(* and a logged reply means that the Brokerage House ran the request.      *)
ReplyMatchesRequest ==
    \A t \in Threads : /\ outcome[t] # "stray"
                       /\ outcome[t] = "reply" => bh[t] = "executed"

(* Every Trade-Result or Market-Feed thread the emulator starts gets a     *)
(* socket and leaves again, however connections break: m_PoolCond's        *)
(* signal-one protocol strands no waiter.                                  *)
RequestsFinish ==
    \A t \in Threads : pc[t] = "starting" ~> pc[t] \in {"done", "failed"}

(* ~CMEESUT returns: the last threadFinished() wakes it.                   *)
DestructorReturns == (dtor = "testing") ~> (dtor = "destroyed")
=============================================================================
