---------------------------- MODULE MEESUT_proofs ----------------------------
(***************************************************************************)
(* Proofs about MEESUT for any number of threads and sockets.              *)
(*                                                                         *)
(* The inductive invariant IInv adds to TypeOK and PoolSound what the code *)
(* does not say but relies on: which program points hold a socket, that    *)
(* waiters are where the condition variable thinks they are, and that the  *)
(* counter is the number of threads between threadStarted() and            *)
(* threadFinished().  ReplyInv adds, for replies, that only the holder of  *)
(* a socket can be waiting for one on its connection.                      *)
(***************************************************************************)
EXTENDS MEESUT, TLAPS, FiniteSetTheorems, SequenceTheorems

HoldingPCs == {"send", "reconnectAfterSend", "recv", "reconnectAfterRecv", "release"}

HoldsInv == \A t \in Threads : pSocket[t] # NoSocket <=> pc[t] \in HoldingPCs

WaitersInv == \A t \in poolWaiters : pc[t] = "poolwait"

CountInv == m_OutstandingThreads = Cardinality(Outstanding)

DtorInv == dtor = "destroyed" => m_OutstandingThreads = 0

IInv == TypeOK /\ PoolSound /\ HoldsInv /\ WaitersInv /\ CountInv /\ DtorInv

-----------------------------------------------------------------------------
USE DEF PCs, Conns, BHStates, Outcomes, HoldingPCs

(* The pool holds at least CBaseInterface's socket.                        *)
LEMMA FirstSocket == 1 \in Sockets
  BY ConnectionsAssumption DEF Sockets

(* pop_back() on a non-empty pool: what is left is the pool without its    *)
(* last socket.                                                            *)
LEMMA PopBack ==
  ASSUME NEW s \in Seq(Sockets), s # <<>>
  PROVE  LET r == SubSeq(s, 1, Len(s) - 1)
         IN  /\ r \in Seq(Sockets)
             /\ Len(r) = Len(s) - 1
             /\ \A i \in 1..(Len(s) - 1) : r[i] = s[i]
             /\ Len(s) \in Nat \ {0}
             /\ s[Len(s)] \in Sockets
  <1> DEFINE n == Len(s)
             r == SubSeq(s, 1, n - 1)
  <1>1. n \in Nat \ {0} /\ \A i \in 1..n : s[i] \in Sockets
    BY EmptySeq, ElementOfSeq, LenProperties
  <1>2. /\ 1 \in Int /\ n - 1 \in Int
        /\ \A i \in 1..(n - 1) : s[i] \in Sockets
    BY <1>1
  <1>3. /\ r \in Seq(Sockets)
        /\ Len(r) = IF 1 <= n - 1 THEN n - 1 - 1 + 1 ELSE 0
        /\ \A i \in 1..(n - 1 - 1 + 1) : r[i] = s[1 + i - 1]
    BY <1>2, SubSeqProperties
  <1> HIDE DEF n, r
  <1>4. Len(r) = n - 1 /\ \A i \in 1..(n - 1) : r[i] = s[i]
    BY <1>1, <1>3
  <1>5. s[n] \in Sockets
    BY <1>1
  <1> QED
    BY <1>1, <1>3, <1>4, <1>5 DEF n, r

-----------------------------------------------------------------------------
(* Type correctness.                                                       *)

(* The constructor leaves the types.                                       *)
LEMMA InitTypeOK == Init => TypeOK
  <1> SUFFICES ASSUME Init PROVE TypeOK
    OBVIOUS
  <1> USE ConnectionsAssumption DEF Init, Sockets
  <1>1. PICK opened \in 0..(iConnections - 1), base \in {"up", "nofd"} :
          /\ m_ExtraSockets = 2..(opened + 1)
          /\ m_FreeSockets = [i \in 1..(opened + 1) |-> i]
          /\ conn = [s \in Sockets |-> IF s = 1 THEN base
                                       ELSE IF s <= opened + 1 THEN "up" ELSE "nofd"]
    OBVIOUS
  <1>2. m_FreeSockets \in Seq(Sockets)
    BY <1>1, IsASeq
  <1> QED
    BY <1>1, <1>2 DEF TypeOK

(* The set the counter counts is finite, so it is empty exactly when the   *)
(* counter is zero.                                                        *)
LEMMA OutstandingCounted ==
  ASSUME TypeOK
  PROVE  /\ IsFiniteSet(Outstanding)
         /\ Cardinality(Outstanding) \in Nat
         /\ \A t \in Outstanding : Cardinality(Outstanding) - 1 \in Nat
         /\ Cardinality(Outstanding) = 0 <=> Outstanding = {}
  <1>1. IsFiniteSet(Outstanding)
    BY ThreadsAssumption, FS_Subset DEF Outstanding
  <1>2. Cardinality(Outstanding) \in Nat
    BY <1>1, FS_CardinalityType
  <1>3. Cardinality(Outstanding) = 0 <=> Outstanding = {}
    BY <1>1, FS_EmptySet
  <1> QED
    BY <1>1, <1>2, <1>3

(* A thread that is talking to the Brokerage House has a socket to talk    *)
(* through: talkToSUT never dereferences a null pointer.                   *)
LEMMA HolderHasSocket ==
  ASSUME TypeOK, HoldsInv, NEW t \in Threads, pc[t] \in HoldingPCs
  PROVE  pSocket[t] \in Sockets
  BY DEF TypeOK, HoldsInv

(* Every step keeps the types.                                             *)
LEMMA TypeStep == IInv /\ [Next]_vars => TypeOK'
  <1> SUFFICES ASSUME IInv, [Next]_vars PROVE TypeOK'
    OBVIOUS
  <1> USE DEF IInv, TypeOK, poolVars, netVars
  <1>1. ASSUME NEW t \in Threads, ThreadStarted(t) PROVE TypeOK'
    BY <1>1 DEF ThreadStarted
  <1>2. ASSUME NEW t \in Threads, CreateSucceeds(t) PROVE TypeOK'
    BY <1>2 DEF CreateSucceeds
  <1>3. ASSUME NEW t \in Threads, CreateFails(t) PROVE TypeOK'
    <2>1. t \in Outstanding
      BY <1>3 DEF CreateFails, Outstanding, Active
    <2>2. m_OutstandingThreads - 1 \in Nat
      BY <2>1, OutstandingCounted DEF CountInv
    <2> QED
      BY <1>3, <2>2 DEF CreateFails
  <1>4. ASSUME NEW t \in Threads, AcquireSocket(t) PROVE TypeOK'
    BY <1>4, PopBack DEF AcquireSocket
  <1>5. ASSUME NEW t \in Threads, WaitForSocket(t) PROVE TypeOK'
    BY <1>5 DEF WaitForSocket
  <1>6. ASSUME NEW t \in Threads, SpuriousWakeup(t) PROVE TypeOK'
    BY <1>6 DEF SpuriousWakeup
  <1>7. ASSUME NEW t \in Threads, SendSucceeds(t) PROVE TypeOK'
    <2>1. pSocket[t] \in Sockets
      BY <1>7, HolderHasSocket DEF SendSucceeds
    <2>2. <<pSocket[t], epoch[pSocket[t]]>> \in (Sockets \cup {NoSocket}) \X Nat
      BY <2>1
    <2>3. via' \in [Threads -> (Sockets \cup {NoSocket}) \X Nat]
      BY <1>7, <2>2 DEF SendSucceeds
    <2>4. conn' \in [Sockets -> Conns]
      BY <1>7, <2>1 DEF SendSucceeds
    <2> QED
      BY <1>7, <2>3, <2>4 DEF SendSucceeds
  <1>8. ASSUME NEW t \in Threads, SendFails(t) PROVE TypeOK'
    <2>1. pSocket[t] \in Sockets
      BY <1>8, HolderHasSocket DEF SendFails
    <2>2. replies' \in [Sockets -> Seq(Threads)]
      BY <1>8, <2>1, EmptySeq DEF SendFails
    <2> QED
      BY <1>8, <2>1, <2>2 DEF SendFails
  <1>9. ASSUME NEW t \in Threads, ReconnectAfterSend(t) PROVE TypeOK'
    <2>1. pSocket[t] \in Sockets
      BY <1>9, HolderHasSocket DEF ReconnectAfterSend
    <2>2. conn' \in [Sockets -> Conns]
      BY <1>9, <2>1 DEF ReconnectAfterSend
    <2>3. epoch[pSocket[t]] + 1 \in Nat
      BY <2>1
    <2>4. epoch' \in [Sockets -> Nat]
      BY <1>9, <2>3 DEF ReconnectAfterSend
    <2> QED
      BY <1>9, <2>2, <2>4 DEF ReconnectAfterSend
  <1>10. ASSUME NEW t \in Threads, ReceiveSucceeds(t) PROVE TypeOK'
    <2>1. pSocket[t] \in Sockets
      BY <1>10, HolderHasSocket DEF ReceiveSucceeds
    <2>2. Tail(replies[pSocket[t]]) \in Seq(Threads)
      BY <1>10, <2>1, HeadTailProperties DEF ReceiveSucceeds
    <2>3. replies' \in [Sockets -> Seq(Threads)]
      BY <1>10, <2>1, <2>2 DEF ReceiveSucceeds
    <2> QED
      BY <1>10, <2>3 DEF ReceiveSucceeds
  <1>11. ASSUME NEW t \in Threads, ReceiveClosed(t) PROVE TypeOK'
    BY <1>11 DEF ReceiveClosed
  <1>12. ASSUME NEW t \in Threads, ReceiveFails(t) PROVE TypeOK'
    <2>1. pSocket[t] \in Sockets
      BY <1>12, HolderHasSocket DEF ReceiveFails
    <2>2. replies' \in [Sockets -> Seq(Threads)]
      BY <1>12, <2>1, EmptySeq DEF ReceiveFails
    <2> QED
      BY <1>12, <2>2 DEF ReceiveFails
  <1>13. ASSUME NEW t \in Threads, ReconnectAfterRecv(t) PROVE TypeOK'
    <2>1. pSocket[t] \in Sockets
      BY <1>13, HolderHasSocket DEF ReconnectAfterRecv
    <2>2. conn' \in [Sockets -> Conns]
      BY <1>13, <2>1 DEF ReconnectAfterRecv
    <2>3. epoch[pSocket[t]] + 1 \in Nat
      BY <2>1
    <2>4. epoch' \in [Sockets -> Nat]
      BY <1>13, <2>3 DEF ReconnectAfterRecv
    <2> QED
      BY <1>13, <2>2, <2>4 DEF ReconnectAfterRecv
  <1>14. ASSUME NEW t \in Threads, ReleaseSocket(t) PROVE TypeOK'
    <2>1. pSocket[t] \in Sockets
      BY <1>14 DEF ReleaseSocket, HoldsInv
    <2>2. Append(m_FreeSockets, pSocket[t]) \in Seq(Sockets)
      BY <2>1, AppendProperties
    <2> QED
      BY <1>14, <2>2 DEF ReleaseSocket
  <1>15. ASSUME NEW t \in Threads, ThreadFinished(t) PROVE TypeOK'
    <2>1. t \in Outstanding
      BY <1>15 DEF ThreadFinished, Outstanding, Active
    <2>2. m_OutstandingThreads - 1 \in Nat
      BY <2>1, OutstandingCounted DEF CountInv
    <2> QED
      BY <1>15, <2>2 DEF ThreadFinished
  <1>16. ASSUME NEW t \in Threads, BHReceives(t) PROVE TypeOK'
    BY <1>16 DEF BHReceives
  <1>17. ASSUME NEW t \in Threads, BHReplies(t) PROVE TypeOK'
    <2>1. \A q \in Seq(Threads) : Append(q, t) \in Seq(Threads)
      BY AppendProperties
    <2>2. replies' \in [Sockets -> Seq(Threads)]
      BY <1>17, <2>1 DEF BHReplies
    <2> QED
      BY <1>17, <2>2 DEF BHReplies
  <1>18. CASE DtorBegins
    BY <1>18 DEF DtorBegins
  <1>19. CASE DtorWaits
    BY <1>19 DEF DtorWaits
  <1>20. CASE DtorWakesSpuriously
    BY <1>20 DEF DtorWakesSpuriously
  <1>21. CASE DtorCloses
    BY <1>21 DEF DtorCloses
  <1>22. ASSUME NEW s \in Sockets, PeerCloses(s) PROVE TypeOK'
    BY <1>22 DEF PeerCloses
  <1>23. CASE UNCHANGED vars
    BY <1>23 DEF vars
  <1> QED
    BY <1>1, <1>2, <1>3, <1>4, <1>5, <1>6, <1>7, <1>8, <1>9, <1>10, <1>11, <1>12,
       <1>13, <1>14, <1>15, <1>16, <1>17, <1>18, <1>19, <1>20, <1>21, <1>22, <1>23
       DEF Next, ThreadStep, BHStep, DtorStep

-----------------------------------------------------------------------------
(* Who holds a socket and who waits for one.                               *)

(* The program points between acquireSocket() and releaseSocket() are the  *)
(* ones that hold a socket, and a thread on m_PoolCond is inside           *)
(* acquireSocket(): every step keeps both.                                 *)
LEMMA HoldsStep == IInv /\ [Next]_vars => HoldsInv' /\ WaitersInv'
  <1> SUFFICES ASSUME IInv, [Next]_vars PROVE HoldsInv' /\ WaitersInv'
    OBVIOUS
  <1> USE NoSocketAssumption DEF IInv, TypeOK, HoldsInv, WaitersInv, poolVars, netVars
  <1>1. ASSUME NEW t \in Threads, ThreadStarted(t) PROVE HoldsInv' /\ WaitersInv'
    BY <1>1 DEF ThreadStarted
  <1>2. ASSUME NEW t \in Threads, CreateSucceeds(t) PROVE HoldsInv' /\ WaitersInv'
    BY <1>2 DEF CreateSucceeds
  <1>3. ASSUME NEW t \in Threads, CreateFails(t) PROVE HoldsInv' /\ WaitersInv'
    BY <1>3 DEF CreateFails
  <1>4. ASSUME NEW t \in Threads, AcquireSocket(t) PROVE HoldsInv' /\ WaitersInv'
    <2>1. m_FreeSockets[Len(m_FreeSockets)] \in Sockets
      BY <1>4, PopBack DEF AcquireSocket
    <2>2. m_FreeSockets[Len(m_FreeSockets)] # NoSocket
      BY <2>1 DEF Sockets
    <2> HIDE NoSocketAssumption
    <2> QED
      BY <1>4, <2>2 DEF AcquireSocket
  <1>5. ASSUME NEW t \in Threads, WaitForSocket(t) PROVE HoldsInv' /\ WaitersInv'
    BY <1>5 DEF WaitForSocket
  <1>6. ASSUME NEW t \in Threads, SpuriousWakeup(t) PROVE HoldsInv' /\ WaitersInv'
    BY <1>6 DEF SpuriousWakeup
  <1>7. ASSUME NEW t \in Threads, SendSucceeds(t) PROVE HoldsInv' /\ WaitersInv'
    BY <1>7 DEF SendSucceeds
  <1>8. ASSUME NEW t \in Threads, SendFails(t) PROVE HoldsInv' /\ WaitersInv'
    BY <1>8 DEF SendFails
  <1>9. ASSUME NEW t \in Threads, ReconnectAfterSend(t) PROVE HoldsInv' /\ WaitersInv'
    BY <1>9 DEF ReconnectAfterSend
  <1>10. ASSUME NEW t \in Threads, ReceiveSucceeds(t) PROVE HoldsInv' /\ WaitersInv'
    BY <1>10 DEF ReceiveSucceeds
  <1>11. ASSUME NEW t \in Threads, ReceiveClosed(t) PROVE HoldsInv' /\ WaitersInv'
    BY <1>11 DEF ReceiveClosed
  <1>12. ASSUME NEW t \in Threads, ReceiveFails(t) PROVE HoldsInv' /\ WaitersInv'
    BY <1>12 DEF ReceiveFails
  <1>13. ASSUME NEW t \in Threads, ReconnectAfterRecv(t) PROVE HoldsInv' /\ WaitersInv'
    BY <1>13 DEF ReconnectAfterRecv
  <1>14. ASSUME NEW t \in Threads, ReleaseSocket(t) PROVE HoldsInv' /\ WaitersInv'
    <2>1. CASE pc' = [pc EXCEPT ![t] = "finish"]
      BY <1>14, <2>1 DEF ReleaseSocket
    <2>2. ASSUME NEW w \in poolWaiters, poolWaiters' = poolWaiters \ {w},
                 pc' = [pc EXCEPT ![t] = "finish", ![w] = "acquire"]
          PROVE  HoldsInv' /\ WaitersInv'
      <3>1. w # t /\ pSocket[w] = NoSocket
        BY <1>14 DEF ReleaseSocket
      <3> QED
        BY <1>14, <2>2, <3>1 DEF ReleaseSocket
    <2> QED
      BY <1>14, <2>1, <2>2 DEF ReleaseSocket
  <1>15. ASSUME NEW t \in Threads, ThreadFinished(t) PROVE HoldsInv' /\ WaitersInv'
    BY <1>15 DEF ThreadFinished
  <1>16. ASSUME NEW t \in Threads, BHReceives(t) PROVE HoldsInv' /\ WaitersInv'
    BY <1>16 DEF BHReceives
  <1>17. ASSUME NEW t \in Threads, BHReplies(t) PROVE HoldsInv' /\ WaitersInv'
    BY <1>17 DEF BHReplies
  <1>18. CASE DtorBegins
    BY <1>18 DEF DtorBegins
  <1>19. CASE DtorWaits
    BY <1>19 DEF DtorWaits
  <1>20. CASE DtorWakesSpuriously
    BY <1>20 DEF DtorWakesSpuriously
  <1>21. CASE DtorCloses
    BY <1>21 DEF DtorCloses
  <1>22. ASSUME NEW s \in Sockets, PeerCloses(s) PROVE HoldsInv' /\ WaitersInv'
    BY <1>22 DEF PeerCloses
  <1>23. CASE UNCHANGED vars
    BY <1>23 DEF vars
  <1> QED
    BY <1>1, <1>2, <1>3, <1>4, <1>5, <1>6, <1>7, <1>8, <1>9, <1>10, <1>11,
       <1>12, <1>13, <1>14, <1>15, <1>16, <1>17, <1>18, <1>19, <1>20,
       <1>21, <1>22, <1>23
       DEF Next, ThreadStep, BHStep, DtorStep

-----------------------------------------------------------------------------
(* The pool.                                                               *)

(* The property depends on three variables only.                           *)
LEMMA PoolUnchanged ==
  ASSUME PoolSound, UNCHANGED <<m_FreeSockets, m_ExtraSockets, pSocket>>
  PROVE  PoolSound'
  BY DEF PoolSound, FreeSet, Holders, Opened

(* acquireSocket() moves the last free socket to its caller.               *)
LEMMA AcquireKeepsPool ==
  ASSUME IInv, NEW t \in Threads, AcquireSocket(t)
  PROVE  PoolSound'
  <1> DEFINE n == Len(m_FreeSockets)
             sock == m_FreeSockets[n]
             Held == {pSocket[u] : u \in Holders}
  <1>1. /\ n \in Nat \ {0}
        /\ sock \in Sockets
        /\ Len(m_FreeSockets') = n - 1
        /\ \A i \in 1..(n - 1) : m_FreeSockets'[i] = m_FreeSockets[i]
    BY PopBack DEF AcquireSocket, IInv, TypeOK
  <1>2. sock # NoSocket
    BY <1>1, NoSocketAssumption DEF Sockets
  <1>3. /\ pSocket' = [pSocket EXCEPT ![t] = sock]
        /\ pSocket[t] = NoSocket
        /\ pSocket \in [Threads -> Sockets \cup {NoSocket}]
    BY DEF AcquireSocket, HoldsInv, IInv, TypeOK
  <1>4. /\ Holders' = Holders \cup {t}
        /\ t \notin Holders
        /\ pSocket'[t] = sock
        /\ \A u \in Holders : pSocket'[u] = pSocket[u]
    BY <1>2, <1>3 DEF Holders
  <1>5. /\ \A i, j \in 1..n : m_FreeSockets[i] = m_FreeSockets[j] => i = j
        /\ \A u, v \in Holders : pSocket[u] = pSocket[v] => u = v
        /\ \A u \in Holders : pSocket[u] \notin FreeSet
        /\ FreeSet \cup Held = Opened
    BY DEF IInv, PoolSound
  <1>6. FreeSet = {m_FreeSockets[i] : i \in 1..n}
    BY DEF FreeSet
  <1>7. FreeSet' = {m_FreeSockets'[i] : i \in 1..(n - 1)}
    BY <1>1 DEF FreeSet
  <1>8. Opened' = Opened
    BY DEF AcquireSocket, Opened
  <1>9. sock = m_FreeSockets[n]
    OBVIOUS
  <1>10. {pSocket'[u] : u \in Holders'} = Held \cup {sock}
    BY <1>4
  <1> HIDE DEF n, sock, Held
  <1>11. /\ n \in 1..n
         /\ 1..n = (1..(n - 1)) \cup {n}
         /\ \A i \in 1..(n - 1) : i \in 1..n /\ i # n
    BY <1>1
  <1>12. FreeSet = FreeSet' \cup {sock} /\ sock \notin FreeSet'
    BY <1>1, <1>5, <1>6, <1>7, <1>9, <1>11
  <1>13. \A i, j \in 1..Len(m_FreeSockets') : m_FreeSockets'[i] = m_FreeSockets'[j] => i = j
    BY <1>1, <1>5, <1>11
  <1>14. \A u, v \in Holders' : pSocket'[u] = pSocket'[v] => u = v
    BY <1>4, <1>5, <1>12
  <1>15. \A u \in Holders' : pSocket'[u] \notin FreeSet'
    BY <1>4, <1>5, <1>12
  <1>16. FreeSet' \cup {pSocket'[u] : u \in Holders'} = Opened'
    BY <1>5, <1>8, <1>10, <1>12
  <1> QED
    BY <1>13, <1>14, <1>15, <1>16 DEF PoolSound

(* releaseSocket() puts the caller's socket back, whatever talkToSUT did   *)
(* with it.                                                                *)
LEMMA ReleaseKeepsPool ==
  ASSUME IInv, NEW t \in Threads, ReleaseSocket(t)
  PROVE  PoolSound'
  <1> DEFINE n == Len(m_FreeSockets)
             sock == pSocket[t]
             Held == {pSocket[u] : u \in Holders}
  <1>1. sock \in Sockets /\ t \in Holders
    BY HolderHasSocket DEF IInv, ReleaseSocket, HoldsInv, Holders
  <1>2. n \in Nat /\ m_FreeSockets \in Seq(Sockets)
    BY LenProperties DEF IInv, TypeOK
  <1>3. /\ Len(m_FreeSockets') = n + 1
        /\ \A i \in 1..n : m_FreeSockets'[i] = m_FreeSockets[i]
        /\ m_FreeSockets'[n + 1] = sock
    BY <1>1, <1>2, AppendProperties DEF ReleaseSocket
  <1>4. /\ pSocket' = [pSocket EXCEPT ![t] = NoSocket]
        /\ pSocket \in [Threads -> Sockets \cup {NoSocket}]
    BY DEF ReleaseSocket, IInv, TypeOK
  <1>5. /\ Holders' = Holders \ {t}
        /\ \A u \in Holders' : pSocket'[u] = pSocket[u]
    BY <1>4 DEF Holders
  <1>6. /\ \A i, j \in 1..n : m_FreeSockets[i] = m_FreeSockets[j] => i = j
        /\ \A u, v \in Holders : pSocket[u] = pSocket[v] => u = v
        /\ \A u \in Holders : pSocket[u] \notin FreeSet
        /\ FreeSet \cup Held = Opened
    BY DEF IInv, PoolSound
  <1>7. FreeSet = {m_FreeSockets[i] : i \in 1..n}
    BY DEF FreeSet
  <1>8. FreeSet' = {m_FreeSockets'[i] : i \in 1..(n + 1)}
    BY <1>3 DEF FreeSet
  <1>9. Opened' = Opened
    BY DEF ReleaseSocket, Opened
  <1>10. Held = {pSocket'[u] : u \in Holders'} \cup {sock}
    BY <1>1, <1>5
  <1>11. sock = pSocket[t]
    OBVIOUS
  <1> HIDE DEF n, sock, Held
  <1>12. /\ 1..(n + 1) = (1..n) \cup {n + 1}
         /\ \A i \in 1..n : i # n + 1
    BY <1>2
  <1>13. FreeSet' = FreeSet \cup {sock} /\ sock \notin FreeSet
    BY <1>1, <1>3, <1>6, <1>7, <1>8, <1>11, <1>12
  <1>14. \A i, j \in 1..Len(m_FreeSockets') : m_FreeSockets'[i] = m_FreeSockets'[j] => i = j
    <2>1. \A i \in 1..n : m_FreeSockets[i] # sock
      BY <1>7, <1>13
    <2> QED
      BY <2>1, <1>3, <1>6, <1>12
  <1>15. \A u, v \in Holders' : pSocket'[u] = pSocket'[v] => u = v
    BY <1>5, <1>6
  <1>16. \A u \in Holders' : pSocket'[u] \notin FreeSet'
    BY <1>1, <1>5, <1>6, <1>11, <1>13
  <1>17. FreeSet' \cup {pSocket'[u] : u \in Holders'} = Opened'
    BY <1>6, <1>9, <1>10, <1>13
  <1> QED
    BY <1>14, <1>15, <1>16, <1>17 DEF PoolSound

(* No step loses, duplicates or shares a socket.                           *)
LEMMA PoolStep == IInv /\ [Next]_vars => PoolSound'
  <1> SUFFICES ASSUME IInv, [Next]_vars PROVE PoolSound'
    OBVIOUS
  <1> USE DEF poolVars
  <1>0. PoolSound
    BY DEF IInv
  <1>1. ASSUME NEW t \in Threads, ThreadStarted(t) PROVE PoolSound'
    BY <1>1, <1>0, PoolUnchanged DEF ThreadStarted
  <1>2. ASSUME NEW t \in Threads, CreateSucceeds(t) PROVE PoolSound'
    BY <1>2, <1>0, PoolUnchanged DEF CreateSucceeds
  <1>3. ASSUME NEW t \in Threads, CreateFails(t) PROVE PoolSound'
    BY <1>3, <1>0, PoolUnchanged DEF CreateFails
  <1>4. ASSUME NEW t \in Threads, AcquireSocket(t) PROVE PoolSound'
    BY <1>4, AcquireKeepsPool
  <1>5. ASSUME NEW t \in Threads, WaitForSocket(t) PROVE PoolSound'
    BY <1>5, <1>0, PoolUnchanged DEF WaitForSocket
  <1>6. ASSUME NEW t \in Threads, SpuriousWakeup(t) PROVE PoolSound'
    BY <1>6, <1>0, PoolUnchanged DEF SpuriousWakeup
  <1>7. ASSUME NEW t \in Threads, SendSucceeds(t) PROVE PoolSound'
    BY <1>7, <1>0, PoolUnchanged DEF SendSucceeds
  <1>8. ASSUME NEW t \in Threads, SendFails(t) PROVE PoolSound'
    BY <1>8, <1>0, PoolUnchanged DEF SendFails
  <1>9. ASSUME NEW t \in Threads, ReconnectAfterSend(t) PROVE PoolSound'
    BY <1>9, <1>0, PoolUnchanged DEF ReconnectAfterSend
  <1>10. ASSUME NEW t \in Threads, ReceiveSucceeds(t) PROVE PoolSound'
    BY <1>10, <1>0, PoolUnchanged DEF ReceiveSucceeds
  <1>11. ASSUME NEW t \in Threads, ReceiveClosed(t) PROVE PoolSound'
    BY <1>11, <1>0, PoolUnchanged DEF ReceiveClosed
  <1>12. ASSUME NEW t \in Threads, ReceiveFails(t) PROVE PoolSound'
    BY <1>12, <1>0, PoolUnchanged DEF ReceiveFails
  <1>13. ASSUME NEW t \in Threads, ReconnectAfterRecv(t) PROVE PoolSound'
    BY <1>13, <1>0, PoolUnchanged DEF ReconnectAfterRecv
  <1>14. ASSUME NEW t \in Threads, ReleaseSocket(t) PROVE PoolSound'
    BY <1>14, ReleaseKeepsPool
  <1>15. ASSUME NEW t \in Threads, ThreadFinished(t) PROVE PoolSound'
    BY <1>15, <1>0, PoolUnchanged DEF ThreadFinished
  <1>16. ASSUME NEW t \in Threads, BHReceives(t) PROVE PoolSound'
    BY <1>16, <1>0, PoolUnchanged DEF BHReceives
  <1>17. ASSUME NEW t \in Threads, BHReplies(t) PROVE PoolSound'
    BY <1>17, <1>0, PoolUnchanged DEF BHReplies
  <1>18. CASE DtorBegins
    BY <1>18, <1>0, PoolUnchanged DEF DtorBegins
  <1>19. CASE DtorWaits
    BY <1>19, <1>0, PoolUnchanged DEF DtorWaits
  <1>20. CASE DtorWakesSpuriously
    BY <1>20, <1>0, PoolUnchanged DEF DtorWakesSpuriously
  <1>21. CASE DtorCloses
    BY <1>21, <1>0, PoolUnchanged DEF DtorCloses
  <1>22. ASSUME NEW s \in Sockets, PeerCloses(s) PROVE PoolSound'
    BY <1>22, <1>0, PoolUnchanged DEF PeerCloses
  <1>23. CASE UNCHANGED vars
    BY <1>23, <1>0, PoolUnchanged DEF vars
  <1> QED
    BY <1>1, <1>2, <1>3, <1>4, <1>5, <1>6, <1>7, <1>8, <1>9, <1>10, <1>11,
       <1>12, <1>13, <1>14, <1>15, <1>16, <1>17, <1>18, <1>19, <1>20,
       <1>21, <1>22, <1>23
       DEF Next, ThreadStep, BHStep, DtorStep

-----------------------------------------------------------------------------
(* The count of threads and the destructor.                                *)

(* A step that leaves every thread on its side of threadStarted() and      *)
(* threadFinished() leaves what is counted.                                *)
LEMMA SameOutstanding ==
  ASSUME CountInv, m_OutstandingThreads' = m_OutstandingThreads,
         \A t \in Threads : Active(t)' <=> Active(t)
  PROVE  CountInv'
  <1>1. Outstanding' = Outstanding
    BY DEF Outstanding
  <1> QED
    BY <1>1 DEF CountInv

(* A thread that leaves, or is never created, is counted out once.         *)
LEMMA CountedOut ==
  ASSUME TypeOK, CountInv, NEW t \in Threads, Active(t), ~Active(t)',
         \A u \in Threads \ {t} : Active(u)' <=> Active(u),
         m_OutstandingThreads' = m_OutstandingThreads - 1
  PROVE  CountInv'
  <1>1. t \in Outstanding /\ Outstanding' = Outstanding \ {t}
    BY DEF Outstanding
  <1>2. Cardinality(Outstanding \ {t}) = Cardinality(Outstanding) - 1
    BY <1>1, OutstandingCounted, FS_RemoveElement
  <1> QED
    BY <1>1, <1>2 DEF CountInv

(* m_OutstandingThreads counts the threads between threadStarted() and     *)
(* threadFinished(), on every path.                                        *)
LEMMA CountStep == IInv /\ [Next]_vars => CountInv'
  <1> SUFFICES ASSUME IInv, [Next]_vars PROVE CountInv'
    OBVIOUS
  <1> USE DEF IInv, TypeOK, Active
  <1>1. ASSUME NEW t \in Threads, ThreadStarted(t) PROVE CountInv'
    <2>1. t \notin Outstanding /\ Outstanding' = Outstanding \cup {t}
      BY <1>1 DEF ThreadStarted, Outstanding
    <2>2. Cardinality(Outstanding \cup {t}) = Cardinality(Outstanding) + 1
      BY <2>1, OutstandingCounted, FS_AddElement
    <2> QED
      BY <1>1, <2>1, <2>2 DEF ThreadStarted, CountInv
  <1>2. ASSUME NEW t \in Threads, CreateSucceeds(t) PROVE CountInv'
    BY <1>2, SameOutstanding DEF CreateSucceeds
  <1>3. ASSUME NEW t \in Threads, CreateFails(t) PROVE CountInv'
    BY <1>3, CountedOut DEF CreateFails
  <1>4. ASSUME NEW t \in Threads, AcquireSocket(t) PROVE CountInv'
    BY <1>4, SameOutstanding DEF AcquireSocket
  <1>5. ASSUME NEW t \in Threads, WaitForSocket(t) PROVE CountInv'
    BY <1>5, SameOutstanding DEF WaitForSocket
  <1>6. ASSUME NEW t \in Threads, SpuriousWakeup(t) PROVE CountInv'
    BY <1>6, SameOutstanding DEF SpuriousWakeup
  <1>7. ASSUME NEW t \in Threads, SendSucceeds(t) PROVE CountInv'
    BY <1>7, SameOutstanding DEF SendSucceeds
  <1>8. ASSUME NEW t \in Threads, SendFails(t) PROVE CountInv'
    BY <1>8, SameOutstanding DEF SendFails
  <1>9. ASSUME NEW t \in Threads, ReconnectAfterSend(t) PROVE CountInv'
    BY <1>9, SameOutstanding DEF ReconnectAfterSend
  <1>10. ASSUME NEW t \in Threads, ReceiveSucceeds(t) PROVE CountInv'
    BY <1>10, SameOutstanding DEF ReceiveSucceeds
  <1>11. ASSUME NEW t \in Threads, ReceiveClosed(t) PROVE CountInv'
    BY <1>11, SameOutstanding DEF ReceiveClosed
  <1>12. ASSUME NEW t \in Threads, ReceiveFails(t) PROVE CountInv'
    BY <1>12, SameOutstanding DEF ReceiveFails
  <1>13. ASSUME NEW t \in Threads, ReconnectAfterRecv(t) PROVE CountInv'
    BY <1>13, SameOutstanding DEF ReconnectAfterRecv
  <1>14. ASSUME NEW t \in Threads, ReleaseSocket(t) PROVE CountInv'
    BY <1>14, SameOutstanding DEF ReleaseSocket, WaitersInv
  <1>15. ASSUME NEW t \in Threads, ThreadFinished(t) PROVE CountInv'
    BY <1>15, CountedOut DEF ThreadFinished
  <1>16. ASSUME NEW t \in Threads, BHReceives(t) PROVE CountInv'
    BY <1>16, SameOutstanding DEF BHReceives
  <1>17. ASSUME NEW t \in Threads, BHReplies(t) PROVE CountInv'
    BY <1>17, SameOutstanding DEF BHReplies
  <1>18. CASE DtorBegins
    BY <1>18, SameOutstanding DEF DtorBegins
  <1>19. CASE DtorWaits
    BY <1>19, SameOutstanding DEF DtorWaits
  <1>20. CASE DtorWakesSpuriously
    BY <1>20, SameOutstanding DEF DtorWakesSpuriously
  <1>21. CASE DtorCloses
    BY <1>21, SameOutstanding DEF DtorCloses
  <1>22. ASSUME NEW s \in Sockets, PeerCloses(s) PROVE CountInv'
    BY <1>22, SameOutstanding DEF PeerCloses
  <1>23. CASE UNCHANGED vars
    BY <1>23, SameOutstanding DEF vars
  <1> QED
    BY <1>1, <1>2, <1>3, <1>4, <1>5, <1>6, <1>7, <1>8, <1>9, <1>10, <1>11,
       <1>12, <1>13, <1>14, <1>15, <1>16, <1>17, <1>18, <1>19, <1>20,
       <1>21, <1>22, <1>23
       DEF Next, ThreadStep, BHStep, DtorStep

(* Once destroyed, nothing is outstanding any more and nothing starts.     *)
LEMMA DtorKeeps == IInv /\ [Next]_vars => DtorInv'
  <1> SUFFICES ASSUME IInv, [Next]_vars PROVE DtorInv'
    OBVIOUS
  <1> USE DEF IInv, TypeOK, DtorInv
  <1>0. \A t \in Threads : Active(t) => dtor # "destroyed"
    BY OutstandingCounted DEF CountInv, Outstanding
  <1>1. ASSUME NEW t \in Threads, ThreadStarted(t) PROVE DtorInv'
    BY <1>1 DEF ThreadStarted
  <1>2. ASSUME NEW t \in Threads, CreateSucceeds(t) PROVE DtorInv'
    BY <1>2 DEF CreateSucceeds
  <1>3. ASSUME NEW t \in Threads, CreateFails(t) PROVE DtorInv'
    BY <1>3, <1>0 DEF CreateFails, Active
  <1>4. ASSUME NEW t \in Threads, AcquireSocket(t) PROVE DtorInv'
    BY <1>4 DEF AcquireSocket
  <1>5. ASSUME NEW t \in Threads, WaitForSocket(t) PROVE DtorInv'
    BY <1>5 DEF WaitForSocket
  <1>6. ASSUME NEW t \in Threads, SpuriousWakeup(t) PROVE DtorInv'
    BY <1>6 DEF SpuriousWakeup
  <1>7. ASSUME NEW t \in Threads, SendSucceeds(t) PROVE DtorInv'
    BY <1>7 DEF SendSucceeds
  <1>8. ASSUME NEW t \in Threads, SendFails(t) PROVE DtorInv'
    BY <1>8 DEF SendFails
  <1>9. ASSUME NEW t \in Threads, ReconnectAfterSend(t) PROVE DtorInv'
    BY <1>9 DEF ReconnectAfterSend
  <1>10. ASSUME NEW t \in Threads, ReceiveSucceeds(t) PROVE DtorInv'
    BY <1>10 DEF ReceiveSucceeds
  <1>11. ASSUME NEW t \in Threads, ReceiveClosed(t) PROVE DtorInv'
    BY <1>11 DEF ReceiveClosed
  <1>12. ASSUME NEW t \in Threads, ReceiveFails(t) PROVE DtorInv'
    BY <1>12 DEF ReceiveFails
  <1>13. ASSUME NEW t \in Threads, ReconnectAfterRecv(t) PROVE DtorInv'
    BY <1>13 DEF ReconnectAfterRecv
  <1>14. ASSUME NEW t \in Threads, ReleaseSocket(t) PROVE DtorInv'
    BY <1>14 DEF ReleaseSocket
  <1>15. ASSUME NEW t \in Threads, ThreadFinished(t) PROVE DtorInv'
    BY <1>15, <1>0 DEF ThreadFinished, Active
  <1>16. ASSUME NEW t \in Threads, BHReceives(t) PROVE DtorInv'
    BY <1>16 DEF BHReceives
  <1>17. ASSUME NEW t \in Threads, BHReplies(t) PROVE DtorInv'
    BY <1>17 DEF BHReplies
  <1>18. CASE DtorBegins
    BY <1>18 DEF DtorBegins
  <1>19. CASE DtorWaits
    BY <1>19 DEF DtorWaits
  <1>20. CASE DtorWakesSpuriously
    BY <1>20 DEF DtorWakesSpuriously
  <1>21. CASE DtorCloses
    BY <1>21 DEF DtorCloses
  <1>22. ASSUME NEW s \in Sockets, PeerCloses(s) PROVE DtorInv'
    BY <1>22 DEF PeerCloses
  <1>23. CASE UNCHANGED vars
    BY <1>23 DEF vars
  <1> QED
    BY <1>1, <1>2, <1>3, <1>4, <1>5, <1>6, <1>7, <1>8, <1>9, <1>10, <1>11,
       <1>12, <1>13, <1>14, <1>15, <1>16, <1>17, <1>18, <1>19, <1>20,
       <1>21, <1>22, <1>23
       DEF Next, ThreadStep, BHStep, DtorStep

-----------------------------------------------------------------------------
(* Replies and requests.                                                   *)

(* The connection a request was sent on is still the one its socket has.   *)
Current(t) == epoch[via[t][1]] = via[t][2] /\ conn[via[t][1]] = "up"

(* A request that the Brokerage House has not answered yet, on a           *)
(* connection that is still there, has its thread waiting in dbt5Receive.  *)
UnansweredInv ==
    \A t \in Threads :
       bh[t] \in {"inflight", "executing"} =>
          /\ via[t][1] \in Sockets
          /\ via[t][2] <= epoch[via[t][1]]
          /\ Current(t) => pc[t] = "recv" /\ pSocket[t] = via[t][1]

(* At most one reply is on a connection, and the thread that waits for it  *)
(* is the one that holds the socket.                                       *)
UnreadInv ==
    \A s \in Sockets :
       replies[s] # <<>> =>
          \E t \in Threads : /\ replies[s] = <<t>>
                             /\ pc[t] = "recv"
                             /\ pSocket[t] = s
                             /\ bh[t] = "executed"

(* What talkToSUT has logged: never another request's reply.               *)
LoggedInv ==
    \A t \in Threads : /\ outcome[t] # "stray"
                       /\ outcome[t] = "reply" => /\ bh[t] = "executed"
                                                  /\ pc[t] \in {"release", "finish", "done"}

ReplyInv == UnansweredInv /\ UnreadInv /\ LoggedInv

(* Every step keeps the pairing.  It rests on the pool: a socket's holder  *)
(* is the only thread that can be waiting for a reply on it.               *)
LEMMA ReplyStep == IInv /\ ReplyInv /\ [Next]_vars => ReplyInv'
  <1> SUFFICES ASSUME IInv, ReplyInv, [Next]_vars PROVE ReplyInv'
    OBVIOUS
  <1> USE DEF IInv, TypeOK, HoldsInv, WaitersInv, ReplyInv, UnansweredInv, UnreadInv,
              LoggedInv, Current, poolVars, netVars
  <1>0. \A t, u \in Threads : pc[t] \in HoldingPCs /\ pSocket[u] = pSocket[t] => u = t
    BY DEF PoolSound, Holders
  <1>1. ASSUME NEW t \in Threads, ThreadStarted(t) PROVE ReplyInv'
    BY <1>1 DEF ThreadStarted
  <1>2. ASSUME NEW t \in Threads, CreateSucceeds(t) PROVE ReplyInv'
    BY <1>2 DEF CreateSucceeds
  <1>3. ASSUME NEW t \in Threads, CreateFails(t) PROVE ReplyInv'
    BY <1>3 DEF CreateFails
  <1>4. ASSUME NEW t \in Threads, AcquireSocket(t) PROVE ReplyInv'
    BY <1>4 DEF AcquireSocket
  <1>5. ASSUME NEW t \in Threads, WaitForSocket(t) PROVE ReplyInv'
    BY <1>5 DEF WaitForSocket
  <1>6. ASSUME NEW t \in Threads, SpuriousWakeup(t) PROVE ReplyInv'
    BY <1>6 DEF SpuriousWakeup
  <1>7. ASSUME NEW t \in Threads, SendSucceeds(t) PROVE ReplyInv'
    BY <1>7 DEF SendSucceeds
  <1>8. ASSUME NEW t \in Threads, SendFails(t) PROVE ReplyInv'
    BY <1>8 DEF SendFails
  <1>9. ASSUME NEW t \in Threads, ReconnectAfterSend(t) PROVE ReplyInv'
    BY <1>9 DEF ReconnectAfterSend
  <1>10. ASSUME NEW t \in Threads, ReceiveSucceeds(t) PROVE ReplyInv'
    <2>1. pSocket[t] \in Sockets /\ replies[pSocket[t]] # <<>>
      BY <1>10 DEF ReceiveSucceeds
    <2>2. PICK u \in Threads : /\ replies[pSocket[t]] = <<u>>
                              /\ pc[u] = "recv"
                              /\ pSocket[u] = pSocket[t]
                              /\ bh[u] = "executed"
      BY <2>1
    <2>3. u = t
      BY <1>0, <1>10, <2>2 DEF ReceiveSucceeds
    <2>4. Head(replies[pSocket[t]]) = t /\ Tail(replies[pSocket[t]]) = <<>>
      BY <2>2, <2>3
    <2>5. /\ outcome' = [outcome EXCEPT ![t] = "reply"]
          /\ replies' = [replies EXCEPT ![pSocket[t]] = <<>>]
          /\ pc' = [pc EXCEPT ![t] = "release"]
          /\ UNCHANGED <<pSocket, conn, epoch, bh, via>>
      BY <1>10, <2>4 DEF ReceiveSucceeds
    <2>6. UnansweredInv'
      BY <2>2, <2>3, <2>5
    <2>7. UnreadInv'
      BY <1>0, <1>10, <2>1, <2>5 DEF ReceiveSucceeds
    <2>8. LoggedInv'
      BY <2>2, <2>3, <2>5
    <2> QED
      BY <2>6, <2>7, <2>8
  <1>11. ASSUME NEW t \in Threads, ReceiveClosed(t) PROVE ReplyInv'
    BY <1>11 DEF ReceiveClosed
  <1>12. ASSUME NEW t \in Threads, ReceiveFails(t) PROVE ReplyInv'
    BY <1>12 DEF ReceiveFails
  <1>13. ASSUME NEW t \in Threads, ReconnectAfterRecv(t) PROVE ReplyInv'
    BY <1>13 DEF ReconnectAfterRecv
  <1>14. ASSUME NEW t \in Threads, ReleaseSocket(t) PROVE ReplyInv'
    <2>1. /\ pc[t] = "release"
          /\ pSocket' = [pSocket EXCEPT ![t] = NoSocket]
          /\ UNCHANGED <<conn, epoch, replies, bh, via, outcome>>
      BY <1>14 DEF ReleaseSocket
    <2>2. /\ pc'[t] = "finish"
          /\ \A u \in Threads : u # t => \/ pc'[u] = pc[u]
                                         \/ pc[u] = "poolwait" /\ pc'[u] = "acquire"
      <3>1. CASE pc' = [pc EXCEPT ![t] = "finish"]
        BY <3>1
      <3>2. ASSUME NEW w \in poolWaiters, pc' = [pc EXCEPT ![t] = "finish", ![w] = "acquire"]
            PROVE  /\ pc'[t] = "finish"
                   /\ \A u \in Threads : u # t => \/ pc'[u] = pc[u]
                                                  \/ pc[u] = "poolwait" /\ pc'[u] = "acquire"
        <4>1. pc[w] = "poolwait" /\ w \in Threads /\ w # t
          BY <2>1
        <4> QED
          BY <3>2, <4>1
      <3> QED
        BY <1>14, <3>1, <3>2 DEF ReleaseSocket
    <2>3. \A u \in Threads : pc[u] = "recv" =>
             pc'[u] = "recv" /\ pSocket'[u] = pSocket[u]
      BY <2>1, <2>2
    <2>4. UnansweredInv'
      BY <2>1, <2>3
    <2>5. UnreadInv'
      BY <2>1, <2>3
    <2>6. LoggedInv'
      BY <2>1, <2>2
    <2> QED
      BY <2>4, <2>5, <2>6
  <1>15. ASSUME NEW t \in Threads, ThreadFinished(t) PROVE ReplyInv'
    BY <1>15 DEF ThreadFinished
  <1>16. ASSUME NEW t \in Threads, BHReceives(t) PROVE ReplyInv'
    BY <1>16 DEF BHReceives
  <1>17. ASSUME NEW t \in Threads, BHReplies(t) PROVE ReplyInv'
    <2>1. CASE Current(t)
      <3> DEFINE s == via[t][1]
      <3>1. s \in Sockets /\ pc[t] = "recv" /\ pSocket[t] = s
        BY <1>17, <2>1 DEF BHReplies
      <3>2. replies[s] = <<>>
        BY <1>0, <1>17, <3>1 DEF BHReplies
      <3>3. replies' = [replies EXCEPT ![s] = <<t>>]
        BY <1>17, <2>1, <3>2 DEF BHReplies
      <3> HIDE DEF s
      <3>4. UnreadInv'
        <4> SUFFICES ASSUME NEW z \in Sockets, replies'[z] # <<>>
                     PROVE  \E u \in Threads : /\ replies'[z] = <<u>>
                                               /\ pc'[u] = "recv"
                                               /\ pSocket'[u] = z
                                               /\ bh'[u] = "executed"
          BY DEF UnreadInv
        <4>1. /\ bh'[t] = "executed" /\ \A u \in Threads : bh[u] = "executed" => bh'[u] = "executed"
              /\ pc' = pc /\ pSocket' = pSocket
          BY <1>17 DEF BHReplies
        <4>2. CASE z = s
          BY <4>1, <4>2, <3>1, <3>3
        <4>3. CASE z # s
          <5>1. replies'[z] = replies[z]
            BY <4>3, <3>3
          <5> QED
            BY <4>1, <5>1
        <4> QED
          BY <4>2, <4>3
      <3> QED
        BY <1>17, <3>4 DEF BHReplies
    <2>2. CASE ~Current(t)
      BY <1>17, <2>2 DEF BHReplies
    <2> QED
      BY <2>1, <2>2
  <1>18. CASE DtorBegins
    BY <1>18 DEF DtorBegins
  <1>19. CASE DtorWaits
    BY <1>19 DEF DtorWaits
  <1>20. CASE DtorWakesSpuriously
    BY <1>20 DEF DtorWakesSpuriously
  <1>21. CASE DtorCloses
    BY <1>21 DEF DtorCloses
  <1>22. ASSUME NEW s \in Sockets, PeerCloses(s) PROVE ReplyInv'
    BY <1>22 DEF PeerCloses
  <1>23. CASE UNCHANGED vars
    BY <1>23 DEF vars
  <1> QED
    BY <1>1, <1>2, <1>3, <1>4, <1>5, <1>6, <1>7, <1>8, <1>9, <1>10, <1>11, <1>12, <1>13, <1>14, <1>15, <1>16, <1>17, <1>18, <1>19, <1>20, <1>21, <1>22, <1>23
       DEF Next, ThreadStep, BHStep, DtorStep

-----------------------------------------------------------------------------
(* The invariant and the theorems.                                         *)

(* The constructor establishes the invariant.                              *)
LEMMA InitIInv == Init => IInv
  <1> SUFFICES ASSUME Init PROVE IInv
    OBVIOUS
  <1>1. TypeOK
    BY InitTypeOK
  <1>2. HoldsInv /\ WaitersInv /\ DtorInv
    BY DEF Init, HoldsInv, WaitersInv, DtorInv
  <1>3. CountInv
    <2>1. Outstanding = {}
      BY DEF Init, Outstanding, Active
    <2> QED
      BY <2>1, FS_EmptySet DEF Init, CountInv
  <1>4. PoolSound
    <2>1. Holders = {}
      BY DEF Init, Holders
    <2>2. PICK opened \in 0..(iConnections - 1) :
             /\ m_ExtraSockets = 2..(opened + 1)
             /\ m_FreeSockets = [i \in 1..(opened + 1) |-> i]
      BY DEF Init
    <2>3. opened + 1 \in Nat \ {0} /\ Len(m_FreeSockets) = opened + 1
      BY <2>2, ConnectionsAssumption
    <2>4. FreeSet = 1..(opened + 1)
      BY <2>2, <2>3 DEF FreeSet
    <2>5. Opened = 1..(opened + 1)
      BY <2>2, <2>3 DEF Opened
    <2>6. \A i, j \in 1..Len(m_FreeSockets) : m_FreeSockets[i] = m_FreeSockets[j] => i = j
      BY <2>2, <2>3
    <2> QED
      BY <2>1, <2>4, <2>5, <2>6 DEF PoolSound
  <1> QED
    BY <1>1, <1>2, <1>3, <1>4 DEF IInv

(* IInv is an invariant of the connections' side of the Market Exchange.   *)
THEOREM Invariance == Spec => []IInv
  <1>1. IInv /\ [Next]_vars => IInv'
    BY TypeStep, HoldsStep, PoolStep, CountStep, DtorKeeps DEF IInv
  <1> QED
    BY InitIInv, <1>1, PTL DEF Spec

(* The variables keep their types; in particular m_OutstandingThreads      *)
(* never goes below zero, on any path through RunTradeResultAsync,         *)
(* TradeResultAsync and their Market-Feed twins.                           *)
THEOREM TypeCorrect == Spec => []TypeOK
  <1>1. IInv => TypeOK
    BY DEF IInv
  <1> QED
    BY Invariance, <1>1, PTL

(* acquireSocket and releaseSocket never lose, duplicate or share a socket *)
(* for any number of threads, any pool size and any failures of the        *)
(* connections.                                                            *)
THEOREM PoolIsSound == Spec => []PoolSound
  <1>1. IInv => PoolSound
    BY DEF IInv
  <1> QED
    BY Invariance, <1>1, PTL

(* ~CMEESUT closes the sockets only when no detached thread is left.       *)
THEOREM DestroyedIsQuiescent == Spec => []DestroyedQuiescent
  <1>1. IInv => DestroyedQuiescent
    <2> SUFFICES ASSUME IInv, dtor = "destroyed", NEW t \in Threads
                 PROVE  ~Active(t) /\ pSocket[t] = NoSocket
      BY DEF DestroyedQuiescent
    <2>1. Outstanding = {}
      BY OutstandingCounted DEF IInv, DtorInv, CountInv
    <2>2. ~Active(t)
      BY <2>1 DEF Outstanding
    <2> QED
      BY <2>2 DEF IInv, TypeOK, HoldsInv, Active
  <1> QED
    BY Invariance, <1>1, PTL

(* What talkToSUT logs as the reply to a request is that request's reply,  *)
(* and the Brokerage House ran the request: for any number of threads and  *)
(* sockets, and whichever of the error paths ran before on the socket.     *)
THEOREM ReplyIsOwn == Spec => []ReplyMatchesRequest
  <1>1. Init => ReplyInv
    BY DEF Init, ReplyInv, UnansweredInv, UnreadInv, LoggedInv
  <1>2. ReplyInv => ReplyMatchesRequest
    BY DEF ReplyInv, LoggedInv, ReplyMatchesRequest
  <1> QED
    BY Invariance, ReplyStep, <1>1, <1>2, PTL DEF Spec
=============================================================================
