--------------------------- MODULE ServerPoolProofs ---------------------------
(***************************************************************************)
(* Proofs about ServerPool for any number of workers, descriptors,         *)
(* connections, malloc failures and spurious wakeups, and any queue_size:  *)
(* who holds the lock and the descriptors, and then what follows the       *)
(* connections: in which order they wait, where each of them is, which     *)
(* descriptors stay open, and that somebody is awake to take them.         *)
(***************************************************************************)
EXTENDS ServerPool, SequenceTheorems, FiniteSetTheorems, TLAPS

-----------------------------------------------------------------------------
(* Sequences without one of their entries.                                 *)

\* QueueRemoveByIndex(q, i) is q without its i-th entry.
LEMMA RemoveFacts ==
  ASSUME NEW S, NEW q \in Seq(S), NEW i \in 1 .. Len(q)
  PROVE  /\ QueueRemoveByIndex(q, i) \in Seq(S)
         /\ Len(QueueRemoveByIndex(q, i)) = Len(q) - 1
         /\ \A k \in 1 .. Len(q) - 1 :
              QueueRemoveByIndex(q, i)[k] = IF k < i THEN q[k] ELSE q[k + 1]
<1> DEFINE front == SubSeq(q, 1, i - 1)
           back  == SubSeq(q, i + 1, Len(q))
<1>1. Len(q) \in Nat /\ \A k \in 1 .. Len(q) : q[k] \in S
  BY ElementOfSeq
<1>2. /\ front \in Seq(S) /\ Len(front) = i - 1
      /\ \A k \in 1 .. i - 1 : front[k] = q[k]
  <2>1. \A k \in 1 .. i - 1 : q[k] \in S
    BY <1>1
  <2> QED
    BY <1>1, <2>1, SubSeqProperties
<1>3. /\ back \in Seq(S) /\ Len(back) = Len(q) - i
      /\ \A k \in 1 .. Len(q) - i : back[k] = q[i + k]
  <2>1. \A k \in i + 1 .. Len(q) : q[k] \in S
    BY <1>1
  <2> QED
    BY <1>1, <2>1, SubSeqProperties
<1> HIDE DEF front, back
<1>4. /\ front \o back \in Seq(S)
      /\ Len(front \o back) = Len(front) + Len(back)
      /\ \A k \in 1 .. Len(front) + Len(back) :
           (front \o back)[k] = IF k <= Len(front) THEN front[k] ELSE back[k - Len(front)]
  BY <1>2, <1>3, ConcatProperties
<1>5. QueueRemoveByIndex(q, i) = front \o back
  BY DEF QueueRemoveByIndex, RemoveAt, front, back
<1>6. ASSUME NEW k \in 1 .. Len(q) - 1
      PROVE  (front \o back)[k] = IF k < i THEN q[k] ELSE q[k + 1]
  <2>1. k \in 1 .. Len(front) + Len(back)
    BY <1>1, <1>2, <1>3
  <2>2. CASE k < i
    BY <1>1, <1>2, <1>4, <2>1, <2>2
  <2>3. CASE ~(k < i)
    <3>1. (front \o back)[k] = back[k - (i - 1)]
      BY <1>1, <1>2, <1>4, <2>1, <2>3
    <3>2. k - (i - 1) \in 1 .. Len(q) - i /\ i + (k - (i - 1)) = k + 1
      BY <1>1, <2>3
    <3> QED
      BY <1>3, <2>3, <3>1, <3>2
  <2> QED
    BY <2>2, <2>3
<1>7. Len(front \o back) = Len(q) - 1
  BY <1>1, <1>2, <1>3, <1>4
<1> QED
  BY <1>4, <1>5, <1>6, <1>7, Zenon

\* QueuePop(q) of a queue that is not empty is q without its first entry.
LEMMA PopFacts ==
  ASSUME NEW S, NEW q \in Seq(S), q # <<>>
  PROVE  /\ QueuePop(q) \in Seq(S)
         /\ Len(q) > 0
         /\ Len(QueuePop(q)) = Len(q) - 1
         /\ \A k \in 1 .. Len(q) - 1 : QueuePop(q)[k] = q[k + 1]
         /\ Head(q) \in S /\ Head(q) = q[1]
  BY HeadTailProperties, EmptySeq, LenProperties DEF QueuePop

-----------------------------------------------------------------------------
(* The inductive invariant: what the mutex protects.                       *)

\* A thread is inside one of the critical sections just when it holds m.
MutexInv == \A t \in Threads : pc[t] \in CriticalPcs <=> m = t

SleepInv == \A t \in sleeping : pc[t] = "wait"

\* When a thread has a connection in its local variables.
ConnInv ==
  /\ pc[Master] = "accept" <=> conn[Master] = NoConn
  /\ \A w \in Workers : pc[w] \in {"lock", "wait", "test", "pop"} <=> conn[w] = NoConn

\* The worker's test still holds when it pops.
PopInv == \A w \in Workers : pc[w] = "pop" => waiting_requests # <<>>

\* The place that a worker between its pop and its push keeps occupied.
Reserved == IF \E w \in Workers : pc[w] = "push" THEN 1 ELSE 0

\* The master's test still holds when it pushes.
PlaceInv ==
  /\ Len(waiting_requests) + Len(running_requests) + Reserved <= QueueSize
  /\ pc[Master] = "admit"
       => Len(waiting_requests) + Len(running_requests) + 1 <= QueueSize

IInv == TypeOK /\ MutexInv /\ SleepInv /\ ConnInv /\ PopInv /\ PlaceInv

LEMMA InitIInv == Init => IInv
  BY PoolAssumption
  DEF Init, IInv, TypeOK, MutexInv, SleepInv, ConnInv, PopInv, PlaceInv, Reserved,
      Threads, GetArgs, PolicyNames, OverloadType, MasterPcs, WorkerPcs, CriticalPcs, Conn

\* Every step keeps the types.
LEMMA TypeStep == IInv /\ [Next]_vars => TypeOK'
<1> SUFFICES ASSUME IInv, [Next]_vars PROVE TypeOK'
  OBVIOUS
<1> USE PoolAssumption DEF IInv, TypeOK, Threads, MasterPcs, WorkerPcs,
    queues, history, faults
<1>1. CASE MasterAccept
  BY <1>1 DEF MasterAccept, Goto, Conn
<1>2. CASE MasterAcceptFails
  BY <1>2 DEF MasterAcceptFails
<1>3. CASE MasterLock
  BY <1>3 DEF MasterLock, Lock, Goto
<1>4. CASE MasterWait
  BY <1>4 DEF MasterWait, CondWait, Goto
<1>5. CASE MasterTest
  <2>1. ASSUME schedalg = "DROP_RAND" PROVE num' \in Nat
    <3>1. Len(waiting_requests) \in 0 .. QueueSize
      BY LenProperties DEF PlaceInv, Reserved
    <3>2. DiscardCount(Len(waiting_requests)) \in Nat
      BY <3>1, ShareAssumption DEF ThirtyPercent
    <3> QED
      BY <1>5, <2>1, <3>1, <3>2 DEF MasterTest, Goto
  <2> QED
    BY <1>5, <2>1 DEF MasterTest, Goto
<1>6. CASE MasterForget
  BY <1>6 DEF MasterForget, Unlock, Goto, ConnInv, Conn
<1>7. CASE MasterAdmit
  <2>1. conn[Master] \in Conn
    BY <1>7 DEF MasterAdmit, ConnInv
  <2>2. /\ waiting_requests' \in {waiting_requests, Append(waiting_requests, conn[Master])}
        /\ oom' \in Nat
    BY <1>7 DEF MasterAdmit, QueuePush
  <2>3. waiting_requests' \in Seq(Conn)
    <3>1. waiting_requests \in Seq(Conn)
      OBVIOUS
    <3>2. Append(waiting_requests, conn[Master]) \in Seq(Conn)
      BY <2>1, <3>1, AppendProperties, Zenon
    <3> QED
      BY <2>2, <3>1, <3>2, Zenon
  <2>4. conn[Master].arrival \in Nat
    BY <2>1 DEF Conn
  <2> QED
    BY <1>7, <2>2, <2>3, <2>4 DEF MasterAdmit, CondSignal, Unlock, Goto
<1>8. CASE MasterReject
  BY <1>8 DEF MasterReject, Close, Unlock, Goto, ConnInv, Conn
<1>9. CASE MasterEvict
  <2>1. CASE waiting_requests # <<>>
    <3>1. waiting_requests' \in Seq(Conn) /\ Head(waiting_requests) \in Conn
      BY <1>9, <2>1, PopFacts DEF MasterEvict
    <3>2. Head(waiting_requests).arrival \in Nat
      BY <3>1 DEF Conn
    <3> QED
      BY <1>9, <2>1, <3>1, <3>2, ZenonT(60) DEF MasterEvict, Close, Goto
  <2>2. CASE waiting_requests = <<>>
    BY <1>9, <2>2, ZenonT(60) DEF MasterEvict, Goto
  <2> QED
    BY <2>1, <2>2
<1>10. CASE MasterDiscard
  <2>1. PICK i \in 1 .. Len(waiting_requests) :
          /\ Close(waiting_requests[i].data)
          /\ shed' = shed \cup {waiting_requests[i].arrival}
          /\ waiting_requests' = QueueRemoveByIndex(waiting_requests, i)
    BY <1>10 DEF MasterDiscard
  <2>2. waiting_requests' \in Seq(Conn)
    BY <2>1, RemoveFacts
  <2>3. waiting_requests[i] \in Conn
    BY <2>1, ElementOfSeq
  <2>4. waiting_requests[i].arrival \in Nat
    BY <2>3 DEF Conn
  <2>5. num' \in Nat /\ open' \subseteq open
    BY <1>10, <2>1 DEF MasterDiscard, Close, MoreToDiscard
  <2>6. exited' \in {"no", "Accept", "Close", "requestHandle"}
    BY <2>1 DEF Close
  <2>7. UNCHANGED <<schedalg, m, sleeping, pc, conn, running_requests, accepted,
                    served, lost, oom, spurious>>
    BY <1>10 DEF MasterDiscard
  <2> QED
    BY <2>1, <2>2, <2>4, <2>5, <2>6, <2>7
<1>11. CASE MasterRetest
  BY <1>11 DEF MasterRetest, MoreToDiscard, Goto
<1>12. ASSUME NEW w \in Workers, WorkerLock(w) PROVE TypeOK'
  BY <1>12 DEF WorkerLock, Lock, Goto
<1>13. ASSUME NEW w \in Workers, WorkerTest(w) PROVE TypeOK'
  BY <1>13 DEF WorkerTest, CondWait, Goto
<1>14. ASSUME NEW w \in Workers, WorkerPop(w) PROVE TypeOK'
  <2>1. waiting_requests # <<>>
    BY <1>14 DEF WorkerPop, PopInv
  <2>2. waiting_requests' \in Seq(Conn) /\ Head(waiting_requests) \in Conn
    BY <1>14, <2>1, PopFacts DEF WorkerPop
  <2> QED
    BY <1>14, <2>2 DEF WorkerPop, Goto
<1>15. ASSUME NEW w \in Workers, WorkerPush(w) PROVE TypeOK'
  <2>1. conn[w].data \in Fds
    BY <1>15 DEF WorkerPush, ConnInv, Conn
  <2>2. /\ running_requests' \in {running_requests, Append(running_requests, conn[w].data)}
        /\ oom' \in Nat
    BY <1>15 DEF WorkerPush, QueuePush
  <2>3. running_requests' \in Seq(Fds)
    BY <2>1, <2>2, AppendProperties, SMTT(60)
  <2> QED
    BY <1>15, <2>2, <2>3 DEF WorkerPush, CondBroadcast, Unlock, Goto
<1>16. ASSUME NEW w \in Workers, WorkerHandle(w) PROVE TypeOK'
  BY <1>16 DEF WorkerHandle, Close, Goto, ConnInv, Conn
<1>17. ASSUME NEW w \in Workers, WorkerHandleFails(w) PROVE TypeOK'
  BY <1>17 DEF WorkerHandleFails
<1>18. ASSUME NEW w \in Workers, WorkerRelock(w) PROVE TypeOK'
  BY <1>18 DEF WorkerRelock, Lock, Goto
<1>19. ASSUME NEW w \in Workers, WorkerPopRunning(w) PROVE TypeOK'
  <2>1. running_requests' \in Seq(Fds)
    BY <1>19, PopFacts DEF WorkerPopRunning, QueuePop
  <2> QED
    BY <1>19, <2>1 DEF WorkerPopRunning, CondBroadcast, Unlock, Goto
<1>20. ASSUME NEW t \in Threads, SpuriousWakeup(t) PROVE TypeOK'
  BY <1>20 DEF SpuriousWakeup
<1>21. CASE UNCHANGED vars
  BY <1>21 DEF vars, queues, history, faults
<1> QED
  BY <1>1, <1>2, <1>3, <1>4, <1>5, <1>6, <1>7, <1>8, <1>9, <1>10, <1>11,
     <1>12, <1>13, <1>14, <1>15, <1>16, <1>17, <1>18, <1>19, <1>20, <1>21
  DEF Next, MasterStep, WorkerStep, Environment, Idle, Ended

\* Every step keeps the mutual exclusion: threads enter by Lock and leave by Unlock
\* or CondWait.
LEMMA MutexStep == IInv /\ [Next]_vars => MutexInv'
<1> SUFFICES ASSUME IInv, [Next]_vars PROVE MutexInv'
  OBVIOUS
<1> USE PoolAssumption DEF IInv, TypeOK, MutexInv, Threads, MasterPcs,
    WorkerPcs, CriticalPcs, queues, history, faults
<1>1. CASE MasterAccept
  BY <1>1 DEF MasterAccept, Goto
<1>2. CASE MasterAcceptFails
  BY <1>2 DEF MasterAcceptFails
<1>3. CASE MasterLock
  BY <1>3 DEF MasterLock, Lock, Goto
<1>4. CASE MasterWait
  BY <1>4 DEF MasterWait, CondWait, Goto
<1>5. CASE MasterTest
  BY <1>5 DEF MasterTest, Goto
<1>6. CASE MasterForget
  BY <1>6 DEF MasterForget, Unlock, Goto
<1>7. CASE MasterAdmit
  BY <1>7 DEF MasterAdmit, QueuePush, CondSignal, Unlock, Goto
<1>8. CASE MasterReject
  BY <1>8 DEF MasterReject, Close, Unlock, Goto
<1>9. CASE MasterEvict
  BY <1>9 DEF MasterEvict, Close, Goto
<1>10. CASE MasterDiscard
  BY <1>10 DEF MasterDiscard, Close, MoreToDiscard
<1>11. CASE MasterRetest
  BY <1>11 DEF MasterRetest, MoreToDiscard, Goto
<1>12. ASSUME NEW w \in Workers, WorkerLock(w) PROVE MutexInv'
  BY <1>12 DEF WorkerLock, Lock, Goto
<1>13. ASSUME NEW w \in Workers, WorkerTest(w) PROVE MutexInv'
  BY <1>13 DEF WorkerTest, CondWait, Goto
<1>14. ASSUME NEW w \in Workers, WorkerPop(w) PROVE MutexInv'
  BY <1>14 DEF WorkerPop, Goto
<1>15. ASSUME NEW w \in Workers, WorkerPush(w) PROVE MutexInv'
  BY <1>15 DEF WorkerPush, QueuePush, CondBroadcast, Unlock, Goto
<1>16. ASSUME NEW w \in Workers, WorkerHandle(w) PROVE MutexInv'
  BY <1>16 DEF WorkerHandle, Close, Goto
<1>17. ASSUME NEW w \in Workers, WorkerHandleFails(w) PROVE MutexInv'
  BY <1>17 DEF WorkerHandleFails
<1>18. ASSUME NEW w \in Workers, WorkerRelock(w) PROVE MutexInv'
  BY <1>18 DEF WorkerRelock, Lock, Goto
<1>19. ASSUME NEW w \in Workers, WorkerPopRunning(w) PROVE MutexInv'
  BY <1>19 DEF WorkerPopRunning, CondBroadcast, Unlock, Goto
<1>20. ASSUME NEW t \in Threads, SpuriousWakeup(t) PROVE MutexInv'
  BY <1>20 DEF SpuriousWakeup
<1>21. CASE UNCHANGED vars
  BY <1>21 DEF vars, queues, history, faults
<1> QED
  BY <1>1, <1>2, <1>3, <1>4, <1>5, <1>6, <1>7, <1>8, <1>9, <1>10, <1>11,
     <1>12, <1>13, <1>14, <1>15, <1>16, <1>17, <1>18, <1>19, <1>20, <1>21
  DEF Next, MasterStep, WorkerStep, Environment, Idle, Ended

\* Only pthread_cond_wait puts a thread to sleep, and a sleeping thread takes no
\* step.
LEMMA SleepStep == IInv /\ [Next]_vars => SleepInv'
<1> SUFFICES ASSUME IInv, [Next]_vars PROVE SleepInv'
  OBVIOUS
<1> USE PoolAssumption DEF IInv, TypeOK, SleepInv, MutexInv, Threads,
    MasterPcs, WorkerPcs, CriticalPcs, queues, history, faults
<1>1. CASE MasterAccept
  BY <1>1 DEF MasterAccept, Goto
<1>2. CASE MasterAcceptFails
  BY <1>2 DEF MasterAcceptFails
<1>3. CASE MasterLock
  BY <1>3 DEF MasterLock, Lock, Goto
<1>4. CASE MasterWait
  BY <1>4 DEF MasterWait, CondWait, Goto
<1>5. CASE MasterTest
  BY <1>5 DEF MasterTest, Goto
<1>6. CASE MasterForget
  BY <1>6 DEF MasterForget, Unlock, Goto
<1>7. CASE MasterAdmit
  BY <1>7 DEF MasterAdmit, QueuePush, CondSignal, Unlock, Goto
<1>8. CASE MasterReject
  BY <1>8 DEF MasterReject, Close, Unlock, Goto
<1>9. CASE MasterEvict
  BY <1>9 DEF MasterEvict, Close, Goto
<1>10. CASE MasterDiscard
  BY <1>10 DEF MasterDiscard, Close, MoreToDiscard
<1>11. CASE MasterRetest
  BY <1>11 DEF MasterRetest, MoreToDiscard, Goto
<1>12. ASSUME NEW w \in Workers, WorkerLock(w) PROVE SleepInv'
  BY <1>12 DEF WorkerLock, Lock, Goto
<1>13. ASSUME NEW w \in Workers, WorkerTest(w) PROVE SleepInv'
  BY <1>13 DEF WorkerTest, CondWait, Goto
<1>14. ASSUME NEW w \in Workers, WorkerPop(w) PROVE SleepInv'
  BY <1>14 DEF WorkerPop, Goto
<1>15. ASSUME NEW w \in Workers, WorkerPush(w) PROVE SleepInv'
  BY <1>15 DEF WorkerPush, QueuePush, CondBroadcast, Unlock, Goto
<1>16. ASSUME NEW w \in Workers, WorkerHandle(w) PROVE SleepInv'
  BY <1>16 DEF WorkerHandle, Close, Goto
<1>17. ASSUME NEW w \in Workers, WorkerHandleFails(w) PROVE SleepInv'
  BY <1>17 DEF WorkerHandleFails
<1>18. ASSUME NEW w \in Workers, WorkerRelock(w) PROVE SleepInv'
  BY <1>18 DEF WorkerRelock, Lock, Goto
<1>19. ASSUME NEW w \in Workers, WorkerPopRunning(w) PROVE SleepInv'
  BY <1>19 DEF WorkerPopRunning, CondBroadcast, Unlock, Goto
<1>20. ASSUME NEW t \in Threads, SpuriousWakeup(t) PROVE SleepInv'
  BY <1>20 DEF SpuriousWakeup
<1>21. CASE UNCHANGED vars
  BY <1>21 DEF vars, queues, history, faults
<1> QED
  BY <1>1, <1>2, <1>3, <1>4, <1>5, <1>6, <1>7, <1>8, <1>9, <1>10, <1>11,
     <1>12, <1>13, <1>14, <1>15, <1>16, <1>17, <1>18, <1>19, <1>20, <1>21
  DEF Next, MasterStep, WorkerStep, Environment, Idle, Ended

\* Every step keeps track of who has a connection.
LEMMA ConnStep == IInv /\ [Next]_vars => ConnInv'
<1> SUFFICES ASSUME IInv, [Next]_vars PROVE ConnInv'
  OBVIOUS
<1> USE PoolAssumption DEF IInv, TypeOK, ConnInv, Threads, MasterPcs,
    WorkerPcs, queues, history, faults
<1>1. CASE MasterAccept
  BY <1>1 DEF MasterAccept, Goto, Conn
<1>2. CASE MasterAcceptFails
  BY <1>2 DEF MasterAcceptFails
<1>3. CASE MasterLock
  BY <1>3 DEF MasterLock, Lock, Goto
<1>4. CASE MasterWait
  BY <1>4 DEF MasterWait, CondWait, Goto
<1>5. CASE MasterTest
  BY <1>5 DEF MasterTest, Goto
<1>6. CASE MasterForget
  BY <1>6 DEF MasterForget, Unlock, Goto
<1>7. CASE MasterAdmit
  BY <1>7 DEF MasterAdmit, QueuePush, CondSignal, Unlock, Goto
<1>8. CASE MasterReject
  BY <1>8 DEF MasterReject, Close, Unlock, Goto
<1>9. CASE MasterEvict
  BY <1>9 DEF MasterEvict, Close, Goto
<1>10. CASE MasterDiscard
  BY <1>10 DEF MasterDiscard, Close, MoreToDiscard
<1>11. CASE MasterRetest
  BY <1>11 DEF MasterRetest, MoreToDiscard, Goto
<1>12. ASSUME NEW w \in Workers, WorkerLock(w) PROVE ConnInv'
  BY <1>12 DEF WorkerLock, Lock, Goto
<1>13. ASSUME NEW w \in Workers, WorkerTest(w) PROVE ConnInv'
  BY <1>13 DEF WorkerTest, CondWait, Goto
<1>14. ASSUME NEW w \in Workers, WorkerPop(w) PROVE ConnInv'
  <2>1. waiting_requests # <<>>
    BY <1>14 DEF WorkerPop, PopInv
  <2>2. Head(waiting_requests) \in Conn
    BY <2>1, PopFacts
  <2>3. Head(waiting_requests) # NoConn
    BY <2>2 DEF Conn
  <2> QED
    BY <1>14, <2>3 DEF WorkerPop, Goto
<1>15. ASSUME NEW w \in Workers, WorkerPush(w) PROVE ConnInv'
  BY <1>15 DEF WorkerPush, QueuePush, CondBroadcast, Unlock, Goto
<1>16. ASSUME NEW w \in Workers, WorkerHandle(w) PROVE ConnInv'
  BY <1>16 DEF WorkerHandle, Close, Goto
<1>17. ASSUME NEW w \in Workers, WorkerHandleFails(w) PROVE ConnInv'
  BY <1>17 DEF WorkerHandleFails
<1>18. ASSUME NEW w \in Workers, WorkerRelock(w) PROVE ConnInv'
  BY <1>18 DEF WorkerRelock, Lock, Goto
<1>19. ASSUME NEW w \in Workers, WorkerPopRunning(w) PROVE ConnInv'
  BY <1>19 DEF WorkerPopRunning, CondBroadcast, Unlock, Goto
<1>20. ASSUME NEW t \in Threads, SpuriousWakeup(t) PROVE ConnInv'
  BY <1>20 DEF SpuriousWakeup
<1>21. CASE UNCHANGED vars
  BY <1>21 DEF vars, queues, history, faults
<1> QED
  BY <1>1, <1>2, <1>3, <1>4, <1>5, <1>6, <1>7, <1>8, <1>9, <1>10, <1>11,
     <1>12, <1>13, <1>14, <1>15, <1>16, <1>17, <1>18, <1>19, <1>20, <1>21
  DEF Next, MasterStep, WorkerStep, Environment, Idle, Ended

\* Nobody empties the queue between a worker's test and its pop.
LEMMA PopStep == IInv /\ [Next]_vars => PopInv'
<1> SUFFICES ASSUME IInv, [Next]_vars PROVE PopInv'
  OBVIOUS
<1> USE PoolAssumption DEF IInv, TypeOK, PopInv, MutexInv, Threads,
    MasterPcs, WorkerPcs, CriticalPcs, queues, history, faults
<1>1. CASE MasterAccept
  BY <1>1 DEF MasterAccept, Goto
<1>2. CASE MasterAcceptFails
  BY <1>2 DEF MasterAcceptFails
<1>3. CASE MasterLock
  BY <1>3 DEF MasterLock, Lock, Goto
<1>4. CASE MasterWait
  BY <1>4 DEF MasterWait, CondWait, Goto
<1>5. CASE MasterTest
  BY <1>5 DEF MasterTest, Goto
<1>6. CASE MasterForget
  BY <1>6 DEF MasterForget, Unlock, Goto
<1>7. CASE MasterAdmit
  <2>1. \A w \in Workers : pc'[w] # "pop"
    BY <1>7 DEF MasterAdmit, Goto
  <2> QED
    BY <2>1
<1>8. CASE MasterReject
  BY <1>8 DEF MasterReject, Close, Unlock, Goto
<1>9. CASE MasterEvict
  BY <1>9 DEF MasterEvict, Close, Goto
<1>10. CASE MasterDiscard
  BY <1>10 DEF MasterDiscard, Close, MoreToDiscard
<1>11. CASE MasterRetest
  BY <1>11 DEF MasterRetest, MoreToDiscard, Goto
<1>12. ASSUME NEW w \in Workers, WorkerLock(w) PROVE PopInv'
  BY <1>12 DEF WorkerLock, Lock, Goto
<1>13. ASSUME NEW w \in Workers, WorkerTest(w) PROVE PopInv'
  BY <1>13 DEF WorkerTest, CondWait, Goto
<1>14. ASSUME NEW w \in Workers, WorkerPop(w) PROVE PopInv'
  BY <1>14 DEF WorkerPop, Goto
<1>15. ASSUME NEW w \in Workers, WorkerPush(w) PROVE PopInv'
  BY <1>15 DEF WorkerPush, QueuePush, CondBroadcast, Unlock, Goto
<1>16. ASSUME NEW w \in Workers, WorkerHandle(w) PROVE PopInv'
  BY <1>16 DEF WorkerHandle, Close, Goto
<1>17. ASSUME NEW w \in Workers, WorkerHandleFails(w) PROVE PopInv'
  BY <1>17 DEF WorkerHandleFails
<1>18. ASSUME NEW w \in Workers, WorkerRelock(w) PROVE PopInv'
  BY <1>18 DEF WorkerRelock, Lock, Goto
<1>19. ASSUME NEW w \in Workers, WorkerPopRunning(w) PROVE PopInv'
  BY <1>19 DEF WorkerPopRunning, CondBroadcast, Unlock, Goto
<1>20. ASSUME NEW t \in Threads, SpuriousWakeup(t) PROVE PopInv'
  BY <1>20 DEF SpuriousWakeup
<1>21. CASE UNCHANGED vars
  BY <1>21 DEF vars, queues, history, faults
<1> QED
  BY <1>1, <1>2, <1>3, <1>4, <1>5, <1>6, <1>7, <1>8, <1>9, <1>10, <1>11,
     <1>12, <1>13, <1>14, <1>15, <1>16, <1>17, <1>18, <1>19, <1>20, <1>21
  DEF Next, MasterStep, WorkerStep, Environment, Idle, Ended

\* Every step keeps a place for the worker between pop and push and for the
\* connection the master is about to push.
LEMMA PlaceStep == IInv /\ [Next]_vars => PlaceInv'
<1> SUFFICES ASSUME IInv, [Next]_vars PROVE PlaceInv'
  OBVIOUS
<1> USE PoolAssumption DEF IInv, TypeOK, Threads, MasterPcs, WorkerPcs,
    CriticalPcs, queues, history, faults
<1>1. CASE MasterAccept
  BY <1>1 DEF MasterAccept, Goto, PlaceInv, Reserved
<1>2. CASE MasterAcceptFails
  BY <1>2 DEF MasterAcceptFails, PlaceInv, Reserved
<1>3. CASE MasterLock
  BY <1>3 DEF MasterLock, Lock, Goto, PlaceInv, Reserved
<1>4. CASE MasterWait
  BY <1>4 DEF MasterWait, CondWait, PlaceInv, Reserved, Goto
<1>5. CASE MasterTest
  BY <1>5 DEF MasterTest, Goto, PlaceInv, Reserved, Full, MutexInv
<1>6. CASE MasterForget
  BY <1>6 DEF MasterForget, Unlock, Goto, PlaceInv, Reserved
<1>7. CASE MasterAdmit
  <2>1. conn[Master] \in Conn
    BY <1>7 DEF MasterAdmit, ConnInv
  <2>2. waiting_requests' \in {waiting_requests, Append(waiting_requests, conn[Master])}
    BY <1>7 DEF MasterAdmit, QueuePush
  <2>3. Len(waiting_requests') <= Len(waiting_requests) + 1
    BY <2>1, <2>2, AppendProperties
  <2>4. \A w \in Workers : pc[w] # "push" /\ pc'[w] # "push"
    BY <1>7 DEF MasterAdmit, MutexInv, Goto
  <2>5. pc'[Master] = "accept" /\ running_requests' = running_requests
    BY <1>7 DEF MasterAdmit, Goto
  <2> QED
    BY <1>7, <2>3, <2>4, <2>5 DEF MasterAdmit, PlaceInv, Reserved
<1>8. CASE MasterReject
  BY <1>8 DEF MasterReject, Close, Unlock, Goto, PlaceInv, Reserved
<1>9. CASE MasterEvict
  <2>1. CASE waiting_requests # <<>>
    <3>1. Len(waiting_requests') = Len(waiting_requests) - 1
      BY <1>9, <2>1, PopFacts DEF MasterEvict
    <3>2. running_requests' = running_requests /\ Reserved' = Reserved
      BY <1>9, <2>1 DEF MasterEvict, Goto, Reserved
    <3>3. Len(waiting_requests) \in Nat /\ Len(running_requests) \in Nat
      BY LenProperties
    <3> QED
      BY <3>1, <3>2, <3>3 DEF PlaceInv, Reserved
  <2>2. CASE waiting_requests = <<>>
    BY <1>9, <2>2 DEF MasterEvict, Goto, PlaceInv, Reserved
  <2> QED
    BY <2>1, <2>2
<1>10. CASE MasterDiscard
  <2>1. PICK i \in 1 .. Len(waiting_requests) :
          waiting_requests' = QueueRemoveByIndex(waiting_requests, i)
    BY <1>10 DEF MasterDiscard
  <2>2. Len(waiting_requests') = Len(waiting_requests) - 1
    BY <2>1, RemoveFacts
  <2>3. UNCHANGED <<running_requests, pc>> /\ pc[Master] = "discard"
    BY <1>10 DEF MasterDiscard
  <2>4. Len(waiting_requests) \in Nat /\ Len(running_requests) \in Nat
    BY LenProperties
  <2> QED
    BY <2>2, <2>3, <2>4 DEF PlaceInv, Reserved
<1>11. CASE MasterRetest
  BY <1>11 DEF MasterRetest, MoreToDiscard, Goto, PlaceInv, Reserved, Full
<1>12. ASSUME NEW w \in Workers, WorkerLock(w) PROVE PlaceInv'
  BY <1>12 DEF WorkerLock, Lock, Goto, PlaceInv, Reserved
<1>13. ASSUME NEW w \in Workers, WorkerTest(w) PROVE PlaceInv'
  BY <1>13 DEF WorkerTest, CondWait, Goto, PlaceInv, Reserved
<1>14. ASSUME NEW w \in Workers, WorkerPop(w) PROVE PlaceInv'
  <2>1. waiting_requests # <<>>
    BY <1>14 DEF WorkerPop, PopInv
  <2>2. Len(waiting_requests') = Len(waiting_requests) - 1
    BY <1>14, <2>1, PopFacts DEF WorkerPop
  <2>3. Reserved = 0 /\ Reserved' = 1
    BY <1>14 DEF WorkerPop, MutexInv, Reserved, Goto
  <2>4. pc'[Master] # "admit" /\ running_requests' = running_requests
    BY <1>14 DEF WorkerPop, MutexInv, Goto
  <2>5. Len(waiting_requests) \in Nat /\ Len(running_requests) \in Nat
    BY LenProperties
  <2> QED
    BY <2>2, <2>3, <2>4, <2>5 DEF PlaceInv
<1>15. ASSUME NEW w \in Workers, WorkerPush(w) PROVE PlaceInv'
  <2>1. conn[w].data \in Fds
    BY <1>15 DEF WorkerPush, ConnInv, Conn
  <2>2. running_requests' \in {running_requests, Append(running_requests, conn[w].data)}
    BY <1>15 DEF WorkerPush, QueuePush
  <2>3. Len(running_requests') <= Len(running_requests) + 1
    BY <2>1, <2>2, AppendProperties
  <2>4. Reserved = 1 /\ Reserved' = 0
    BY <1>15 DEF WorkerPush, MutexInv, Reserved, Goto
  <2>5. pc'[Master] # "admit" /\ waiting_requests' = waiting_requests
    BY <1>15 DEF WorkerPush, MutexInv, Goto
  <2>6. /\ Len(waiting_requests) \in Nat /\ Len(running_requests) \in Nat
        /\ Len(running_requests') \in Nat
    BY <2>1, <2>2, AppendProperties, LenProperties
  <2> QED
    BY <2>3, <2>4, <2>5, <2>6 DEF PlaceInv
<1>16. ASSUME NEW w \in Workers, WorkerHandle(w) PROVE PlaceInv'
  BY <1>16 DEF WorkerHandle, Close, Goto, PlaceInv, Reserved
<1>17. ASSUME NEW w \in Workers, WorkerHandleFails(w) PROVE PlaceInv'
  BY <1>17 DEF WorkerHandleFails, PlaceInv, Reserved
<1>18. ASSUME NEW w \in Workers, WorkerRelock(w) PROVE PlaceInv'
  BY <1>18 DEF WorkerRelock, Lock, Goto, PlaceInv, Reserved
<1>19. ASSUME NEW w \in Workers, WorkerPopRunning(w) PROVE PlaceInv'
  <2>1. /\ Len(running_requests') <= Len(running_requests)
        /\ Len(running_requests) \in Nat /\ Len(running_requests') \in Nat
    BY <1>19, PopFacts, LenProperties DEF WorkerPopRunning, QueuePop
  <2>2. Reserved' = Reserved /\ waiting_requests' = waiting_requests
    BY <1>19 DEF WorkerPopRunning, Reserved, Goto
  <2>3. pc'[Master] = pc[Master]
    BY <1>19 DEF WorkerPopRunning, Goto
  <2> QED
    BY <2>1, <2>2, <2>3, LenProperties DEF PlaceInv, Reserved
<1>20. ASSUME NEW t \in Threads, SpuriousWakeup(t) PROVE PlaceInv'
  BY <1>20 DEF SpuriousWakeup, PlaceInv, Reserved
<1>21. CASE UNCHANGED vars
  BY <1>21 DEF vars, PlaceInv, Reserved
<1> QED
  BY <1>1, <1>2, <1>3, <1>4, <1>5, <1>6, <1>7, <1>8, <1>9, <1>10, <1>11,
     <1>12, <1>13, <1>14, <1>15, <1>16, <1>17, <1>18, <1>19, <1>20, <1>21
  DEF Next, MasterStep, WorkerStep, Environment, Idle, Ended

\* IInv is inductive.
LEMMA NextIInv == IInv /\ [Next]_vars => IInv'
  BY TypeStep, MutexStep, SleepStep, ConnStep, PopStep, PlaceStep DEF IInv

LEMMA IInvHolds == Spec => []IInv
<1>1. Init => IInv
  BY InitIInv
<1>2. IInv /\ [Next]_vars => IInv'
  BY NextIInv
<1> QED
  BY <1>1, <1>2, PTL DEF Spec

\* Every variable keeps its type.
THEOREM TypeCorrect == Spec => []TypeOK
<1>1. IInv => TypeOK
  BY DEF IInv
<1> QED
  BY <1>1, IInvHolds, PTL

\* By the counters at most queue_size requests wait or run, with the one in the
\* hands of a worker between its pop and its push.
CountersBound ==
  Len(waiting_requests) + Len(running_requests)
    + Cardinality({w \in Workers : pc[w] = "push"}) <= QueueSize

LEMMA CountersBounded == IInv => CountersBound
<1>1. ASSUME IInv PROVE CountersBound
  <2> DEFINE Pushing == {w \in Workers : pc[w] = "push"}
  <2> USE <1>1 DEF IInv, TypeOK, Threads
  <2>1. Cardinality(Pushing) = Reserved
    <3>1. CASE Pushing = {}
      BY <3>1, FS_EmptySet DEF Reserved
    <3>2. CASE Pushing # {}
      <4>1. PICK w \in Pushing : TRUE
        BY <3>2
      <4>2. \A v \in Workers : pc[v] = "push" => m = v
        BY DEF MutexInv, CriticalPcs
      <4>3. Pushing = {w}
        BY <4>1, <4>2
      <4> QED
        BY <4>1, <4>3, FS_Singleton DEF Reserved
    <3> QED
      BY <3>1, <3>2
  <2>2. Len(waiting_requests) + Len(running_requests) + Reserved <= QueueSize
    BY DEF PlaceInv
  <2> QED
    BY <2>1, <2>2, Zenon DEF CountersBound
<1> QED
  BY <1>1

-----------------------------------------------------------------------------
(* The running count.                                                      *)

LEMMA BusyFinite == IsFiniteSet(Busy) /\ Cardinality(Busy) \in Nat
<1>1. Busy \in SUBSET Workers /\ IsFiniteSet(Workers)
  BY PoolAssumption DEF Busy
<1> QED
  BY <1>1, FS_Subset, FS_CardinalityType

\* A worker's push and its pop change the busy set and the count together.
LEMMA RunningStep == IInv /\ RunningCount /\ [Next]_vars => RunningCount'
<1> SUFFICES ASSUME IInv, RunningCount, [Next]_vars PROVE RunningCount'
  OBVIOUS
<1> USE PoolAssumption DEF IInv, TypeOK, Threads, MasterPcs, WorkerPcs,
    queues, history, faults
<1>0. ASSUME Busy' = Busy, running_requests' = running_requests, oom' = oom
      PROVE  RunningCount'
  BY <1>0 DEF RunningCount
<1>1. CASE MasterAccept
  BY <1>0, <1>1 DEF MasterAccept, Goto, Busy
<1>2. CASE MasterAcceptFails
  BY <1>0, <1>2 DEF MasterAcceptFails, Busy
<1>3. CASE MasterLock
  BY <1>0, <1>3 DEF MasterLock, Goto, Busy
<1>4. CASE MasterWait
  BY <1>0, <1>4 DEF MasterWait, CondWait, Goto, Busy
<1>5. CASE MasterTest
  BY <1>0, <1>5 DEF MasterTest, Goto, Busy
<1>6. CASE MasterForget
  BY <1>0, <1>6 DEF MasterForget, Goto, Busy
<1>7. CASE MasterAdmit
  <2>1. Busy' = Busy /\ running_requests' = running_requests /\ oom' \in {oom, oom + 1}
    BY <1>7 DEF MasterAdmit, QueuePush, Goto, Busy
  <2> QED
    BY <2>1, BusyFinite, LenProperties DEF RunningCount
<1>8. CASE MasterReject
  BY <1>0, <1>8 DEF MasterReject, Goto, Busy
<1>9. CASE MasterEvict
  BY <1>0, <1>9 DEF MasterEvict, Goto, Busy
<1>10. CASE MasterDiscard
  BY <1>0, <1>10 DEF MasterDiscard, Busy
<1>11. CASE MasterRetest
  BY <1>0, <1>11 DEF MasterRetest, Goto, Busy
<1>12. ASSUME NEW w \in Workers, WorkerLock(w) PROVE RunningCount'
  BY <1>0, <1>12 DEF WorkerLock, Goto, Busy
<1>13. ASSUME NEW w \in Workers, WorkerTest(w) PROVE RunningCount'
  BY <1>0, <1>13 DEF WorkerTest, CondWait, Goto, Busy
<1>14. ASSUME NEW w \in Workers, WorkerPop(w) PROVE RunningCount'
  BY <1>0, <1>14 DEF WorkerPop, Goto, Busy
<1>15. ASSUME NEW w \in Workers, WorkerPush(w) PROVE RunningCount'
  <2>1. Busy' = Busy \cup {w} /\ w \notin Busy
    BY <1>15 DEF WorkerPush, Goto, Busy
  <2>2. Cardinality(Busy') = Cardinality(Busy) + 1
    BY <2>1, BusyFinite, FS_AddElement
  <2>3. conn[w].data \in Fds
    BY <1>15 DEF WorkerPush, ConnInv, Conn
  <2>4. \/ running_requests' = Append(running_requests, conn[w].data) /\ oom' = oom
        \/ running_requests' = running_requests /\ oom' = oom + 1
    BY <1>15 DEF WorkerPush, QueuePush
  <2>5. \/ Len(running_requests') = Len(running_requests) + 1 /\ oom' = oom
        \/ Len(running_requests') = Len(running_requests) /\ oom' = oom + 1
    BY <2>3, <2>4, AppendProperties
  <2> QED
    BY <2>2, <2>5, BusyFinite, LenProperties DEF RunningCount
<1>16. ASSUME NEW w \in Workers, WorkerHandle(w) PROVE RunningCount'
  BY <1>0, <1>16 DEF WorkerHandle, Goto, Busy
<1>17. ASSUME NEW w \in Workers, WorkerHandleFails(w) PROVE RunningCount'
  BY <1>0, <1>17 DEF WorkerHandleFails, Busy
<1>18. ASSUME NEW w \in Workers, WorkerRelock(w) PROVE RunningCount'
  BY <1>0, <1>18 DEF WorkerRelock, Goto, Busy
<1>19. ASSUME NEW w \in Workers, WorkerPopRunning(w) PROVE RunningCount'
  <2>1. Busy' = Busy \ {w} /\ w \in Busy /\ oom' = oom
    BY <1>19 DEF WorkerPopRunning, Goto, Busy
  <2>2. Cardinality(Busy') = Cardinality(Busy) - 1
    BY <2>1, BusyFinite, FS_RemoveElement
  <2>3. Cardinality(Busy) > 0
    BY <2>1, BusyFinite, FS_EmptySet
  <2>4. Len(running_requests) \in Nat
    BY LenProperties
  <2>5. CASE running_requests = <<>>
    <3>1. Len(running_requests') = 0 /\ Len(running_requests) = 0
      BY <1>19, <2>5, EmptySeq DEF WorkerPopRunning, QueuePop
    <3> QED
      BY <2>1, <2>2, <2>3, <3>1, BusyFinite DEF RunningCount
  <2>6. CASE running_requests # <<>>
    <3>1. Len(running_requests') = Len(running_requests) - 1
      BY <1>19, <2>6, PopFacts DEF WorkerPopRunning
    <3> QED
      BY <2>1, <2>2, <2>4, <3>1, BusyFinite DEF RunningCount
  <2> QED
    BY <2>5, <2>6
<1>20. ASSUME NEW t \in Threads, SpuriousWakeup(t) PROVE RunningCount'
  BY <1>0, <1>20 DEF SpuriousWakeup, Busy
<1>21. CASE UNCHANGED vars
  BY <1>0, <1>21 DEF vars, Busy
<1> QED
  BY <1>1, <1>2, <1>3, <1>4, <1>5, <1>6, <1>7, <1>8, <1>9, <1>10, <1>11,
     <1>12, <1>13, <1>14, <1>15, <1>16, <1>17, <1>18, <1>19, <1>20, <1>21
  DEF Next, MasterStep, WorkerStep, Environment, Idle, Ended

\* running_requests counts the busy workers, whoever pops whose entry, up to the
\* pushes that malloc refused.
THEOREM RunningCounted == Spec => []RunningCount
<1>1. Init => RunningCount
  <2> SUFFICES ASSUME Init PROVE RunningCount
    OBVIOUS
  <2>1. Busy = {}
    BY PoolAssumption DEF Init, Busy, Threads
  <2> QED
    BY <2>1, FS_EmptySet DEF Init, RunningCount
<1>2. IInv /\ RunningCount /\ [Next]_vars => RunningCount'
  BY RunningStep
<1> QED
  BY <1>1, <1>2, IInvHolds, PTL DEF Spec

\* No more than queue_size requests wait or are in a worker's hands, and one more
\* for every malloc that failed: the counters that the master tests stay within
\* queue_size, and miss no more workers than that.
THEOREM CapacityNeverExceeded == Spec => []CapacityBound
<1>1. ASSUME IInv, RunningCount PROVE CapacityBound
  <2> DEFINE Pushing == {w \in Workers : pc[w] = "push"}
  <2>1. CountersBound
    BY <1>1, CountersBounded
  <2>2. /\ Len(waiting_requests) \in Nat /\ Len(running_requests) \in Nat
        /\ oom \in Nat /\ QueueSize \in Nat
    BY <1>1, LenProperties, PoolAssumption DEF IInv, TypeOK
  <2>3. IsFiniteSet(Pushing) /\ Pushing \cap Busy = {}
    <3>1. Pushing \in SUBSET Workers
      OBVIOUS
    <3>2. IsFiniteSet(Workers)
      BY PoolAssumption
    <3>3. Pushing \cap Busy = {}
      BY DEF Busy
    <3> QED
      BY <3>1, <3>2, <3>3, FS_Subset
  <2>4. Cardinality(Pushing) \in Nat /\ Cardinality(Busy) \in Nat
    BY <2>3, BusyFinite, FS_CardinalityType
  <2>5. Cardinality(Pushing \cup Busy) = Cardinality(Pushing) + Cardinality(Busy)
    <3> HIDE DEF Pushing
    <3>1. Cardinality(Pushing \cup Busy)
            = Cardinality(Pushing) + Cardinality(Busy) - Cardinality(Pushing \cap Busy)
      BY <2>3, BusyFinite, FS_Union
    <3>2. Cardinality(Pushing \cap Busy) = 0
      BY <2>3, FS_EmptySet
    <3> QED
      BY <2>4, <3>1, <3>2
  <2>6. /\ Len(waiting_requests) + Len(running_requests) + Cardinality(Pushing) <= QueueSize
        /\ Cardinality(Busy) <= Len(running_requests) + oom
    BY <1>1, <2>1 DEF CountersBound, RunningCount
  <2> HIDE DEF Pushing
  <2>7. Len(waiting_requests) + Cardinality(Pushing \cup Busy) <= QueueSize + oom
    BY <2>2, <2>4, <2>5, <2>6
  <2> QED
    BY <2>7, Zenon DEF CapacityBound, Pushing
<1> QED
  BY <1>1, IInvHolds, RunningCounted, PTL

-----------------------------------------------------------------------------
(* Who owns a descriptor.                                                  *)

\* DescriptorOwnership in terms of positions in the queue.
EntriesDiffer ==
  \A i, j \in 1 .. Len(waiting_requests) :
    waiting_requests[i].data = waiting_requests[j].data => i = j
HoldersDiffer ==
  \A t, u \in Holders : conn[t].data = conn[u].data => t = u
HoldersApart ==
  \A t \in Holders : \A i \in 1 .. Len(waiting_requests) :
    conn[t].data # waiting_requests[i].data
EntriesOpen ==
  \A i \in 1 .. Len(waiting_requests) : waiting_requests[i].data \in open
HoldersOpen == \A t \in Holders : conn[t].data \in open

Ownership ==
  /\ EntriesDiffer /\ HoldersDiffer /\ HoldersApart
  /\ EntriesOpen /\ HoldersOpen
  /\ exited # "Close"

LEMMA OwnershipMeaning == TypeOK => (Ownership <=> DescriptorOwnership)
<1> SUFFICES ASSUME TypeOK PROVE Ownership <=> DescriptorOwnership
  OBVIOUS
<1>1. DOMAIN waiting_requests = 1 .. Len(waiting_requests)
  BY LenProperties DEF TypeOK
<1>2. (\A e \in WaitingConns \cup HeldConns : e.data \in open)
        <=> /\ \A i \in 1 .. Len(waiting_requests) : waiting_requests[i].data \in open
            /\ \A t \in Holders : conn[t].data \in open
  BY <1>1, Zenon DEF WaitingConns, HeldConns
<1> QED
  BY <1>1, <1>2, Zenon
  DEF Ownership, DescriptorOwnership, EntriesDiffer, HoldersDiffer, HoldersApart,
      EntriesOpen, HoldersOpen

\* Taking the head off shifts the others, and they stay different.
LEMMA ShiftKeepsDifferent ==
  ASSUME EntriesDiffer,
         \A i \in 1 .. Len(waiting_requests') :
           /\ i + 1 \in 1 .. Len(waiting_requests)
           /\ waiting_requests'[i] = waiting_requests[i + 1]
  PROVE  EntriesDiffer'
<1> SUFFICES ASSUME NEW i \in 1 .. Len(waiting_requests'),
                    NEW j \in 1 .. Len(waiting_requests'),
                    waiting_requests'[i].data = waiting_requests'[j].data
             PROVE  i = j
  BY DEF EntriesDiffer
<1>1. i + 1 = j + 1
  BY DEF EntriesDiffer
<1> QED
  BY <1>1

\* Every Close is of a descriptor its thread owns, and every Accept of one that
\* nobody owns.
LEMMA OwnershipStep == IInv /\ Ownership /\ [Next]_vars => Ownership'
<1> SUFFICES ASSUME IInv, Ownership, [Next]_vars PROVE Ownership'
  OBVIOUS
<1> USE PoolAssumption DEF IInv, TypeOK, Threads, MasterPcs, WorkerPcs,
    queues, history, faults
<1>0. ASSUME Holders' \subseteq Holders, \A t \in Holders' : conn'[t] = conn[t],
             waiting_requests' = waiting_requests, open' = open,
             exited' = exited \/ exited' # "Close"
      PROVE  Ownership'
  <2>1. EntriesDiffer'
    BY <1>0 DEF Ownership, EntriesDiffer
  <2>2. HoldersDiffer'
    BY <1>0 DEF Ownership, HoldersDiffer
  <2>3. HoldersApart'
    BY <1>0 DEF Ownership, HoldersApart
  <2>4. EntriesOpen'
    BY <1>0 DEF Ownership, EntriesOpen
  <2>5. HoldersOpen'
    BY <1>0 DEF Ownership, HoldersOpen
  <2> QED
    BY <2>1, <2>2, <2>3, <2>4, <2>5, <1>0 DEF Ownership
<1>1. CASE MasterAccept
  <2>1. PICK fd \in Fds \ open :
          /\ conn' = [conn EXCEPT ![Master] = [data |-> fd, arrival |-> accepted + 1]]
          /\ open' = open \cup {fd}
    BY <1>1 DEF MasterAccept
  <2>2. /\ conn'[Master].data = fd
        /\ \A t \in Holders' \ {Master} : t \in Holders /\ conn'[t] = conn[t]
    BY <1>1, <2>1 DEF MasterAccept, Goto, Holders
  <2>3. waiting_requests' = waiting_requests /\ exited' = exited
    BY <1>1 DEF MasterAccept
  <2>4. EntriesDiffer'
    BY <2>1, <2>2, <2>3 DEF Ownership, EntriesDiffer
  <2>5. HoldersDiffer'
    BY <2>1, <2>2, <2>3 DEF Ownership, HoldersDiffer, HoldersOpen
  <2>6. HoldersApart'
    BY <2>1, <2>2, <2>3 DEF Ownership, HoldersApart, EntriesOpen
  <2>7. EntriesOpen'
    BY <2>1, <2>2, <2>3 DEF Ownership, EntriesOpen
  <2>8. HoldersOpen'
    BY <2>1, <2>2, <2>3 DEF Ownership, HoldersOpen
  <2> QED
    BY <2>4, <2>5, <2>6, <2>7, <2>8, <2>1, <2>2, <2>3 DEF Ownership
<1>2. CASE MasterAcceptFails
  BY <1>0, <1>2 DEF MasterAcceptFails, Holders
<1>3. CASE MasterLock
  BY <1>0, <1>3 DEF MasterLock, Goto, Holders
<1>4. CASE MasterWait
  BY <1>0, <1>4 DEF MasterWait, CondWait, Goto, Holders
<1>5. CASE MasterTest
  BY <1>0, <1>5 DEF MasterTest, Goto, Holders
<1>6. CASE MasterForget
  BY <1>0, <1>6 DEF MasterForget, Goto, Holders
<1>7. CASE MasterAdmit
  <2>1. conn[Master] \in Conn /\ Master \in Holders
    BY <1>7 DEF MasterAdmit, ConnInv, Holders
  <2>2. Holders' = Holders \ {Master} /\ \A t \in Holders' : conn'[t] = conn[t]
    BY <1>7 DEF MasterAdmit, ConnInv, Goto, Holders
  <2>3. waiting_requests' \in {waiting_requests, Append(waiting_requests, conn[Master])}
    BY <1>7 DEF MasterAdmit, QueuePush
  <2>4. open' = open /\ exited' = exited
    BY <1>7 DEF MasterAdmit
  <2>5. CASE waiting_requests' = waiting_requests
    BY <1>0, <2>2, <2>4, <2>5
  <2>6. CASE waiting_requests' = Append(waiting_requests, conn[Master])
    <3>1. /\ Len(waiting_requests') = Len(waiting_requests) + 1
          /\ \A i \in 1 .. Len(waiting_requests) : waiting_requests'[i] = waiting_requests[i]
          /\ waiting_requests'[Len(waiting_requests) + 1] = conn[Master]
      BY <2>1, <2>6, AppendProperties
    <3>2. EntriesDiffer'
      BY <2>1, <2>2, <2>4, <3>1, LenProperties
      DEF Ownership, EntriesDiffer, HoldersApart
    <3>3. HoldersDiffer'
      BY <2>1, <2>2, <2>4, <3>1, LenProperties DEF Ownership, HoldersDiffer
    <3>4. HoldersApart'
      BY <2>1, <2>2, <2>4, <3>1, LenProperties
      DEF Ownership, HoldersApart, HoldersDiffer
    <3>5. EntriesOpen'
      BY <2>1, <2>2, <2>4, <3>1, LenProperties
      DEF Ownership, EntriesOpen, HoldersOpen
    <3>6. HoldersOpen'
      BY <2>1, <2>2, <2>4, <3>1, LenProperties DEF Ownership, HoldersOpen
    <3> QED
      BY <3>2, <3>3, <3>4, <3>5, <3>6, <2>1, <2>2, <2>4, <3>1 DEF Ownership
  <2> QED
    BY <2>3, <2>5, <2>6
<1>8. CASE MasterReject
  <2>1. conn[Master] \in Conn /\ Master \in Holders
    BY <1>8 DEF MasterReject, ConnInv, Holders
  <2>2. Holders' = Holders \ {Master} /\ \A t \in Holders' : conn'[t] = conn[t]
    BY <1>8 DEF MasterReject, ConnInv, Goto, Holders
  <2>3. open' = open \ {conn[Master].data} /\ waiting_requests' = waiting_requests
    BY <1>8 DEF MasterReject, Close
  <2>4. exited' = exited
    BY <1>8, <2>1 DEF MasterReject, Close, Ownership, HoldersOpen
  <2>5. EntriesDiffer'
    BY <2>1, <2>2, <2>3, <2>4 DEF Ownership, EntriesDiffer
  <2>6. HoldersDiffer'
    BY <2>1, <2>2, <2>3, <2>4 DEF Ownership, HoldersDiffer
  <2>7. HoldersApart'
    BY <2>1, <2>2, <2>3, <2>4 DEF Ownership, HoldersApart
  <2>8. EntriesOpen'
    BY <2>1, <2>2, <2>3, <2>4 DEF Ownership, EntriesOpen, HoldersApart
  <2>9. HoldersOpen'
    BY <2>1, <2>2, <2>3, <2>4 DEF Ownership, HoldersOpen, HoldersDiffer
  <2> QED
    BY <2>5, <2>6, <2>7, <2>8, <2>9, <2>1, <2>2, <2>3, <2>4 DEF Ownership
<1>9. CASE MasterEvict
  <2>1. Holders' = Holders /\ conn' = conn
    BY <1>9 DEF MasterEvict, Goto, Holders
  <2>2. CASE waiting_requests = <<>>
    <3>1. UNCHANGED <<waiting_requests, open, exited>>
      BY <1>9, <2>2 DEF MasterEvict
    <3> QED
      BY <1>0, <2>1, <3>1
  <2>3. CASE waiting_requests # <<>>
    <3>1. /\ Len(waiting_requests) > 0
          /\ Len(waiting_requests') = Len(waiting_requests) - 1
          /\ \A i \in 1 .. Len(waiting_requests) - 1 :
               waiting_requests'[i] = waiting_requests[i + 1]
          /\ Head(waiting_requests) = waiting_requests[1]
      BY <1>9, <2>3, PopFacts DEF MasterEvict
    <3>2. open' = open \ {waiting_requests[1].data}
      BY <1>9, <2>3, <3>1 DEF MasterEvict, Close
    <3>3. exited' = exited
      BY <1>9, <2>3, <3>1, LenProperties
      DEF MasterEvict, Close, Ownership, EntriesOpen
    <3>4. EntriesDiffer'
      <4>1. \A i \in 1 .. Len(waiting_requests') :
              /\ i + 1 \in 1 .. Len(waiting_requests)
              /\ waiting_requests'[i] = waiting_requests[i + 1]
        BY <3>1, LenProperties
      <4> QED
        BY <4>1, ShiftKeepsDifferent, Zenon DEF Ownership
    <3>5. HoldersDiffer'
      BY <2>1, <3>1, <3>2, <3>3, LenProperties DEF Ownership, HoldersDiffer
    <3>6. HoldersApart'
      <4> SUFFICES ASSUME NEW t \in Holders, NEW i \in 1 .. Len(waiting_requests')
                   PROVE  conn[t].data # waiting_requests'[i].data
        BY <2>1 DEF HoldersApart
      <4>1. Len(waiting_requests) \in Nat
        BY LenProperties
      <4>2. i + 1 \in 1 .. Len(waiting_requests) /\ i \in 1 .. Len(waiting_requests) - 1
        BY <3>1, <4>1
      <4>3. waiting_requests'[i] = waiting_requests[i + 1]
        BY <3>1, <4>2
      <4> QED
        BY <4>2, <4>3 DEF Ownership, HoldersApart
    <3>7. EntriesOpen'
      BY <2>1, <3>1, <3>2, <3>3, LenProperties
      DEF Ownership, EntriesOpen, EntriesDiffer
    <3>8. HoldersOpen'
      BY <2>1, <3>1, <3>2, <3>3, LenProperties
      DEF Ownership, HoldersOpen, HoldersApart
    <3> QED
      BY <3>4, <3>5, <3>6, <3>7, <3>8, <2>1, <3>1, <3>2, <3>3 DEF Ownership
  <2> QED
    BY <2>2, <2>3
<1>10. CASE MasterDiscard
  <2>1. PICK k \in 1 .. Len(waiting_requests) :
          /\ Close(waiting_requests[k].data)
          /\ waiting_requests' = QueueRemoveByIndex(waiting_requests, k)
    BY <1>10 DEF MasterDiscard
  <2>2. /\ Len(waiting_requests') = Len(waiting_requests) - 1
        /\ \A i \in 1 .. Len(waiting_requests) - 1 :
             waiting_requests'[i]
               = IF i < k THEN waiting_requests[i] ELSE waiting_requests[i + 1]
    <3>1. waiting_requests \in Seq(Conn)
      OBVIOUS
    <3> HIDE DEF IInv, TypeOK
    <3> QED
      BY <2>1, <3>1, RemoveFacts
  <2>3. Holders' = Holders /\ conn' = conn
    BY <1>10 DEF MasterDiscard, Holders
  <2>4. open' = open \ {waiting_requests[k].data} /\ exited' = exited
    BY <2>1 DEF Close, Ownership, EntriesOpen
  <2>5. EntriesDiffer'
    <3> DEFINE old(i) == IF i < k THEN i ELSE i + 1
    <3>1. \A i \in 1 .. Len(waiting_requests') :
            /\ old(i) \in 1 .. Len(waiting_requests)
            /\ waiting_requests'[i] = waiting_requests[old(i)]
      BY <2>2, LenProperties
    <3>2. \A i, j \in 1 .. Len(waiting_requests') : old(i) = old(j) => i = j
      OBVIOUS
    <3> HIDE DEF old
    <3> QED
      BY <3>1, <3>2 DEF Ownership, EntriesDiffer
  <2>6. HoldersDiffer'
    BY <2>2, <2>3, <2>4, LenProperties DEF Ownership, HoldersDiffer
  <2>7. HoldersApart'
    BY <2>2, <2>3, <2>4, LenProperties, SMTT(60) DEF Ownership, HoldersApart
  <2>8. EntriesOpen'
    BY <2>2, <2>3, <2>4, LenProperties DEF Ownership, EntriesOpen, EntriesDiffer
  <2>9. HoldersOpen'
    BY <2>2, <2>3, <2>4, LenProperties DEF Ownership, HoldersOpen, HoldersApart
  <2> QED
    BY <2>5, <2>6, <2>7, <2>8, <2>9, <2>2, <2>3, <2>4 DEF Ownership
<1>11. CASE MasterRetest
  BY <1>0, <1>11 DEF MasterRetest, Goto, Holders
<1>12. ASSUME NEW w \in Workers, WorkerLock(w) PROVE Ownership'
  BY <1>0, <1>12 DEF WorkerLock, Goto, Holders
<1>13. ASSUME NEW w \in Workers, WorkerTest(w) PROVE Ownership'
  BY <1>0, <1>13 DEF WorkerTest, CondWait, Goto, Holders
<1>14. ASSUME NEW w \in Workers, WorkerPop(w) PROVE Ownership'
  <2>1. waiting_requests # <<>>
    BY <1>14 DEF WorkerPop, PopInv
  <2>2. /\ Len(waiting_requests) > 0
        /\ Len(waiting_requests') = Len(waiting_requests) - 1
        /\ \A i \in 1 .. Len(waiting_requests) - 1 :
             waiting_requests'[i] = waiting_requests[i + 1]
        /\ Head(waiting_requests) = waiting_requests[1]
    BY <1>14, <2>1, PopFacts DEF WorkerPop
  <2>3. /\ conn'[w] = waiting_requests[1]
        /\ \A t \in Holders' \ {w} : t \in Holders /\ conn'[t] = conn[t]
    BY <1>14, <2>2 DEF WorkerPop, Goto, Holders
  <2>4. open' = open /\ exited' = exited
    BY <1>14 DEF WorkerPop
  <2>5. EntriesDiffer'
    <3>1. \A i \in 1 .. Len(waiting_requests') :
            /\ i + 1 \in 1 .. Len(waiting_requests)
            /\ waiting_requests'[i] = waiting_requests[i + 1]
      BY <2>2, LenProperties
    <3> QED
      BY <3>1, ShiftKeepsDifferent, Zenon DEF Ownership
  <2>6. HoldersDiffer'
    BY <2>2, <2>3, <2>4, LenProperties
    DEF Ownership, HoldersDiffer, HoldersApart
  <2>7. HoldersApart'
    <3> SUFFICES ASSUME NEW t \in Holders', NEW i \in 1 .. Len(waiting_requests')
                 PROVE  conn'[t].data # waiting_requests'[i].data
      BY DEF HoldersApart
    <3>1. Len(waiting_requests) \in Nat
      BY LenProperties
    <3>2. /\ i + 1 \in 1 .. Len(waiting_requests) /\ 1 \in 1 .. Len(waiting_requests)
          /\ i \in 1 .. Len(waiting_requests) - 1 /\ i + 1 # 1
      BY <2>2, <3>1
    <3>3. waiting_requests'[i] = waiting_requests[i + 1]
      BY <2>2, <3>2
    <3>4. CASE t = w
      BY <2>3, <3>2, <3>3, <3>4 DEF Ownership, EntriesDiffer
    <3>5. CASE t # w
      BY <2>3, <3>2, <3>3, <3>5 DEF Ownership, HoldersApart
    <3> QED
      BY <3>4, <3>5
  <2>8. EntriesOpen'
    BY <2>2, <2>3, <2>4, LenProperties DEF Ownership, EntriesOpen
  <2>9. HoldersOpen'
    BY <2>2, <2>3, <2>4, LenProperties DEF Ownership, HoldersOpen, EntriesOpen
  <2> QED
    BY <2>5, <2>6, <2>7, <2>8, <2>9, <2>2, <2>3, <2>4 DEF Ownership
<1>15. ASSUME NEW w \in Workers, WorkerPush(w) PROVE Ownership'
  BY <1>0, <1>15 DEF WorkerPush, Goto, Holders
<1>16. ASSUME NEW w \in Workers, WorkerHandle(w) PROVE Ownership'
  <2>1. conn[w] \in Conn /\ w \in Holders
    BY <1>16 DEF WorkerHandle, ConnInv, Holders
  <2>2. Holders' = Holders \ {w} /\ conn' = conn
    BY <1>16 DEF WorkerHandle, Goto, Holders
  <2>3. open' = open \ {conn[w].data} /\ waiting_requests' = waiting_requests
    BY <1>16 DEF WorkerHandle, Close
  <2>4. exited' = exited
    BY <1>16, <2>1 DEF WorkerHandle, Close, Ownership, HoldersOpen
  <2>5. EntriesDiffer'
    BY <2>1, <2>2, <2>3, <2>4 DEF Ownership, EntriesDiffer
  <2>6. HoldersDiffer'
    BY <2>1, <2>2, <2>3, <2>4 DEF Ownership, HoldersDiffer
  <2>7. HoldersApart'
    BY <2>1, <2>2, <2>3, <2>4 DEF Ownership, HoldersApart
  <2>8. EntriesOpen'
    BY <2>1, <2>2, <2>3, <2>4 DEF Ownership, EntriesOpen, HoldersApart
  <2>9. HoldersOpen'
    BY <2>1, <2>2, <2>3, <2>4 DEF Ownership, HoldersOpen, HoldersDiffer
  <2> QED
    BY <2>5, <2>6, <2>7, <2>8, <2>9, <2>1, <2>2, <2>3, <2>4 DEF Ownership
<1>17. ASSUME NEW w \in Workers, WorkerHandleFails(w) PROVE Ownership'
  BY <1>0, <1>17 DEF WorkerHandleFails, Holders
<1>18. ASSUME NEW w \in Workers, WorkerRelock(w) PROVE Ownership'
  BY <1>0, <1>18 DEF WorkerRelock, Goto, Holders
<1>19. ASSUME NEW w \in Workers, WorkerPopRunning(w) PROVE Ownership'
  BY <1>0, <1>19 DEF WorkerPopRunning, Goto, Holders
<1>20. ASSUME NEW t \in Threads, SpuriousWakeup(t) PROVE Ownership'
  BY <1>0, <1>20 DEF SpuriousWakeup, Holders
<1>21. CASE UNCHANGED vars
  BY <1>0, <1>21 DEF vars, Holders
<1> QED
  BY <1>1, <1>2, <1>3, <1>4, <1>5, <1>6, <1>7, <1>8, <1>9, <1>10, <1>11,
     <1>12, <1>13, <1>14, <1>15, <1>16, <1>17, <1>18, <1>19, <1>20, <1>21
  DEF Next, MasterStep, WorkerStep, Environment, Idle, Ended

LEMMA OwnershipHolds == Spec => []Ownership
<1>1. Init => Ownership
  <2> SUFFICES ASSUME Init PROVE Ownership
    OBVIOUS
  <2>1. Holders = {} /\ Len(waiting_requests) = 0
    BY EmptySeq DEF Init, Holders, Threads
  <2> QED
    BY <2>1
    DEF Init, Ownership, EntriesDiffer, HoldersDiffer, HoldersApart, EntriesOpen,
        HoldersOpen
<1>2. IInv /\ Ownership /\ [Next]_vars => Ownership'
  BY OwnershipStep
<1> QED
  BY <1>1, <1>2, IInvHolds, PTL DEF Spec

\* No descriptor has two owners, none is closed twice, and none is closed while
\* the kernel has already given it to another client.
THEOREM DescriptorsOwned == Spec => []DescriptorOwnership
<1>1. IInv /\ Ownership => DescriptorOwnership
  BY OwnershipMeaning DEF IInv
<1> QED
  BY <1>1, IInvHolds, OwnershipHolds, PTL

-----------------------------------------------------------------------------
(***************************************************************************)
(* What a step does with the connections.  The twenty actions of Next come *)
(* down to seven kinds of moves, and the proofs below have one case for    *)
(* each of them.                                                           *)
(***************************************************************************)

\* The threads with a connection in their local variables, closed or not.
Carriers == {t \in Threads : conn[t] # NoConn}

\* No connection moves; a worker may forget one that it has closed.
Rests ==
  /\ UNCHANGED <<waiting_requests, accepted, served, shed, lost, open>>
  /\ Holders' = Holders
  /\ Carriers' \subseteq Carriers
  /\ \A t \in Carriers' : conn'[t] = conn[t]

\* A new connection comes to the master, on the free descriptor fd.
Arrives(fd) ==
  /\ Master \notin Carriers
  /\ Holders' = Holders \cup {Master}
  /\ Carriers' = Carriers \cup {Master}
  /\ conn'[Master] = [data |-> fd, arrival |-> accepted + 1]
  /\ \A t \in Carriers : conn'[t] = conn[t]
  /\ accepted' = accepted + 1
  /\ open' = open \cup {fd}
  /\ UNCHANGED <<waiting_requests, served, shed, lost>>

\* The master's connection goes to the end of the queue.
Queues ==
  /\ Master \in Holders
  /\ Holders' = Holders \ {Master}
  /\ Carriers' = Carriers \ {Master}
  /\ \A t \in Carriers' : conn'[t] = conn[t]
  /\ Len(waiting_requests') = Len(waiting_requests) + 1
  /\ \A i \in 1 .. Len(waiting_requests) : waiting_requests'[i] = waiting_requests[i]
  /\ waiting_requests'[Len(waiting_requests) + 1] = conn[Master]
  /\ UNCHANGED <<accepted, served, shed, lost, open>>

\* t closes its connection, a worker because it has handled it.
Closes(t) ==
  /\ t \in Holders
  /\ Holders' = Holders \ {t}
  /\ Carriers' \subseteq Carriers
  /\ \A u \in Carriers' : conn'[u] = conn[u]
  /\ open' = open \ {conn[t].data}
  /\ \/ served' = served \cup {conn[t].arrival} /\ shed' = shed
     \/ shed' = shed \cup {conn[t].arrival} /\ served' = served
  /\ UNCHANGED <<waiting_requests, accepted, lost>>

\* The master forgets its connection.
Loses ==
  /\ Master \in Holders
  /\ Holders' = Holders \ {Master}
  /\ Carriers' \subseteq Carriers
  /\ \A t \in Carriers' : conn'[t] = conn[t]
  /\ lost' = lost \cup {conn[Master].arrival}
  /\ schedalg \in OverloadType => oom' = oom + 1
  /\ UNCHANGED <<waiting_requests, accepted, served, shed, open>>

\* The k-th entry leaves the queue.
Without(k) ==
  /\ Len(waiting_requests') = Len(waiting_requests) - 1
  /\ \A i \in 1 .. Len(waiting_requests) - 1 :
       waiting_requests'[i]
         = IF i < k THEN waiting_requests[i] ELSE waiting_requests[i + 1]

\* The policy closes the k-th waiting connection.
Sheds(k) ==
  /\ Without(k)
  /\ Holders' = Holders /\ Carriers' = Carriers
  /\ \A t \in Carriers : conn'[t] = conn[t]
  /\ open' = open \ {waiting_requests[k].data}
  /\ shed' = shed \cup {waiting_requests[k].arrival}
  /\ UNCHANGED <<accepted, served, lost>>

\* w takes the connection that waits longest.
Takes(w) ==
  /\ w \notin Carriers
  /\ Len(waiting_requests) > 0
  /\ Without(1)
  /\ Holders' = Holders \cup {w}
  /\ Carriers' = Carriers \cup {w}
  /\ conn'[w] = waiting_requests[1]
  /\ \A t \in Carriers : conn'[t] = conn[t]
  /\ UNCHANGED <<accepted, served, shed, lost, open>>

Moves ==
  \/ Rests
  \/ \E fd \in Fds \ open : Arrives(fd)
  \/ Queues
  \/ \E t \in Threads : Closes(t)
  \/ Loses
  \/ \E k \in 1 .. Len(waiting_requests) : Sheds(k)
  \/ \E w \in Workers : Takes(w)

\* Every step is a move; the policy and the count of malloc failures behave.
LEMMA StepMoves ==
  IInv /\ [Next]_vars => Moves /\ schedalg' = schedalg /\ oom' \in {oom, oom + 1}
<1> SUFFICES ASSUME IInv, [Next]_vars
             PROVE  Moves /\ schedalg' = schedalg /\ oom' \in {oom, oom + 1}
  OBVIOUS
<1> DEFINE Goal == Moves /\ schedalg' = schedalg /\ oom' \in {oom, oom + 1}
<1> USE PoolAssumption DEF IInv, TypeOK, Threads, MasterPcs, WorkerPcs,
    queues, history, faults
<1>0. ASSUME Rests, schedalg' = schedalg, oom' = oom PROVE Goal
  BY <1>0 DEF Moves
<1>1. CASE MasterAccept
  <2>1. PICK fd \in Fds \ open :
          /\ conn' = [conn EXCEPT ![Master] = [data |-> fd, arrival |-> accepted + 1]]
          /\ open' = open \cup {fd}
    BY <1>1 DEF MasterAccept
  <2>2. [data |-> fd, arrival |-> accepted + 1] \in Conn
    BY DEF Conn
  <2>3. Arrives(fd)
    BY <1>1, <2>1, <2>2 DEF MasterAccept, Goto, Arrives, Holders, Carriers, ConnInv, Conn
  <2> QED
    BY <1>1, <2>3 DEF MasterAccept, Moves
<1>2. CASE MasterAcceptFails
  BY <1>0, <1>2 DEF MasterAcceptFails, Rests, Holders, Carriers
<1>3. CASE MasterLock
  BY <1>0, <1>3 DEF MasterLock, Goto, Rests, Holders, Carriers
<1>4. CASE MasterWait
  BY <1>0, <1>4 DEF MasterWait, CondWait, Goto, Rests, Holders, Carriers
<1>5. CASE MasterTest
  BY <1>0, <1>5 DEF MasterTest, Goto, Rests, Holders, Carriers
<1>6. CASE MasterForget
  <2>1. Loses
    BY <1>6 DEF MasterForget, Goto, Loses, Holders, Carriers, ConnInv
  <2> QED
    BY <1>6, <2>1 DEF MasterForget, Moves
<1>7. CASE MasterAdmit
  <2>1. /\ conn[Master] \in Conn /\ Master \in Holders
        /\ Holders' = Holders \ {Master} /\ Carriers' = Carriers \ {Master}
        /\ \A t \in Carriers' : conn'[t] = conn[t]
        /\ UNCHANGED <<accepted, served, shed, open, schedalg>>
    BY <1>7 DEF MasterAdmit, ConnInv, Goto, Holders, Carriers
  <2>2. CASE waiting_requests' = Append(waiting_requests, conn[Master]) /\ oom' = oom
    <3>1. /\ Len(waiting_requests') = Len(waiting_requests) + 1
          /\ \A i \in 1 .. Len(waiting_requests) : waiting_requests'[i] = waiting_requests[i]
          /\ waiting_requests'[Len(waiting_requests) + 1] = conn[Master]
      BY <2>1, <2>2, AppendProperties
    <3>2. lost' = lost
      BY <1>7, <2>2 DEF MasterAdmit
    <3> QED
      BY <2>1, <2>2, <3>1, <3>2 DEF Queues, Moves
  <2>3. CASE waiting_requests' = waiting_requests /\ oom' = oom + 1
    <3>1. lost' = lost \cup {conn[Master].arrival}
      BY <1>7, <2>3 DEF MasterAdmit
    <3> QED
      BY <2>1, <2>3, <3>1 DEF Loses, Moves
  <2> QED
    BY <1>7, <2>2, <2>3 DEF MasterAdmit, QueuePush
<1>8. CASE MasterReject
  <2>1. Closes(Master)
    BY <1>8 DEF MasterReject, Close, Goto, Closes, Holders, Carriers, ConnInv
  <2> QED
    BY <1>8, <2>1 DEF MasterReject, Moves
<1>9. CASE MasterEvict
  <2>1. CASE waiting_requests = <<>>
    BY <1>0, <1>9, <2>1 DEF MasterEvict, Goto, Rests, Holders, Carriers
  <2>2. CASE waiting_requests # <<>>
    <3>1. Without(1) /\ Len(waiting_requests) > 0 /\ Head(waiting_requests) = waiting_requests[1]
      BY <1>9, <2>2, PopFacts, LenProperties DEF MasterEvict, Without
    <3>2. Sheds(1)
      BY <1>9, <2>2, <3>1 DEF MasterEvict, Close, Goto, Sheds, Holders, Carriers
    <3>3. 1 \in 1 .. Len(waiting_requests)
      BY <3>1, LenProperties
    <3> QED
      BY <1>9, <3>2, <3>3 DEF MasterEvict, Moves
  <2> QED
    BY <2>1, <2>2
<1>10. CASE MasterDiscard
  <2>1. PICK k \in 1 .. Len(waiting_requests) :
          /\ Close(waiting_requests[k].data)
          /\ shed' = shed \cup {waiting_requests[k].arrival}
          /\ waiting_requests' = QueueRemoveByIndex(waiting_requests, k)
    BY <1>10 DEF MasterDiscard
  <2>2. Without(k)
    <3>1. waiting_requests \in Seq(Conn)
      OBVIOUS
    <3> HIDE DEF IInv, TypeOK
    <3> QED
      BY <2>1, <3>1, RemoveFacts DEF Without
  <2>3. Sheds(k)
    BY <1>10, <2>1, <2>2 DEF MasterDiscard, Close, Sheds, Holders, Carriers
  <2> QED
    BY <1>10, <2>1, <2>3 DEF MasterDiscard, Moves
<1>11. CASE MasterRetest
  BY <1>0, <1>11 DEF MasterRetest, Goto, Rests, Holders, Carriers
<1>12. ASSUME NEW w \in Workers, WorkerLock(w) PROVE Goal
  BY <1>0, <1>12 DEF WorkerLock, Goto, Rests, Holders, Carriers
<1>13. ASSUME NEW w \in Workers, WorkerTest(w) PROVE Goal
  BY <1>0, <1>13 DEF WorkerTest, CondWait, Goto, Rests, Holders, Carriers
<1>14. ASSUME NEW w \in Workers, WorkerPop(w) PROVE Goal
  <2>1. waiting_requests # <<>>
    BY <1>14 DEF WorkerPop, PopInv
  <2>2. /\ Without(1) /\ Len(waiting_requests) > 0
        /\ Head(waiting_requests) = waiting_requests[1]
        /\ Head(waiting_requests) \in Conn
    BY <1>14, <2>1, PopFacts, LenProperties DEF WorkerPop, Without
  <2>3. Takes(w)
    BY <1>14, <2>2, SMTT(60) DEF WorkerPop, Goto, Takes, Holders, Carriers, ConnInv, Conn
  <2> QED
    BY <1>14, <2>3 DEF WorkerPop, Moves
<1>15. ASSUME NEW w \in Workers, WorkerPush(w) PROVE Goal
  <2>1. Rests
    BY <1>15 DEF WorkerPush, Goto, Rests, Holders, Carriers
  <2> QED
    BY <1>15, <2>1 DEF WorkerPush, QueuePush, Moves
<1>16. ASSUME NEW w \in Workers, WorkerHandle(w) PROVE Goal
  <2>1. Closes(w)
    BY <1>16 DEF WorkerHandle, Close, Goto, Closes, Holders, Carriers, ConnInv
  <2> QED
    BY <1>16, <2>1 DEF WorkerHandle, Moves
<1>17. ASSUME NEW w \in Workers, WorkerHandleFails(w) PROVE Goal
  BY <1>0, <1>17 DEF WorkerHandleFails, Rests, Holders, Carriers
<1>18. ASSUME NEW w \in Workers, WorkerRelock(w) PROVE Goal
  BY <1>0, <1>18 DEF WorkerRelock, Goto, Rests, Holders, Carriers
<1>19. ASSUME NEW w \in Workers, WorkerPopRunning(w) PROVE Goal
  BY <1>0, <1>19 DEF WorkerPopRunning, Goto, Rests, Holders, Carriers
<1>20. ASSUME NEW t \in Threads, SpuriousWakeup(t) PROVE Goal
  BY <1>0, <1>20 DEF SpuriousWakeup, Rests, Holders, Carriers
<1>21. CASE UNCHANGED vars
  BY <1>0, <1>21 DEF vars, Rests, Holders, Carriers
<1> QED
  BY <1>1, <1>2, <1>3, <1>4, <1>5, <1>6, <1>7, <1>8, <1>9, <1>10, <1>11,
     <1>12, <1>13, <1>14, <1>15, <1>16, <1>17, <1>18, <1>19, <1>20, <1>21
  DEF Next, MasterStep, WorkerStep, Environment, Idle, Ended

-----------------------------------------------------------------------------
(* The order of arrival.                                                   *)

\* Arrivals are the numbers from 1 on.
ArrivalsKnown ==
  /\ \A i \in 1 .. Len(waiting_requests) : waiting_requests[i].arrival \in 1 .. accepted
  /\ \A t \in Carriers : conn[t].arrival \in 1 .. accepted

QueueAscends ==
  \A i, j \in 1 .. Len(waiting_requests) :
    i < j => waiting_requests[i].arrival < waiting_requests[j].arrival

\* What workers carry has arrived before what waits, ...
WorkersOlder ==
  \A t \in Carriers \ {Master} : \A i \in 1 .. Len(waiting_requests) :
    conn[t].arrival < waiting_requests[i].arrival

\* ... and what the master carries is the newest of all.
MasterNewest ==
  Master \in Carriers => conn[Master].arrival = accepted

MasterAlone ==
  Master \in Carriers =>
    /\ \A i \in 1 .. Len(waiting_requests) : waiting_requests[i].arrival # accepted
    /\ \A t \in Carriers \ {Master} : conn[t].arrival # accepted

WorkersDiffer ==
  \A t, u \in Carriers \ {Master} : conn[t].arrival = conn[u].arrival => t = u

OrderInv ==
  /\ ArrivalsKnown /\ QueueAscends /\ WorkersOlder
  /\ MasterNewest /\ MasterAlone /\ WorkersDiffer

\* The facts about types that the moves need.
LEMMA FlowTypes ==
  ASSUME IInv
  PROVE  /\ Len(waiting_requests) \in Nat /\ accepted \in Nat
         /\ \A i \in 1 .. Len(waiting_requests) :
              waiting_requests[i] \in Conn /\ waiting_requests[i].arrival \in Nat
         /\ \A t \in Carriers : conn[t] \in Conn /\ conn[t].arrival \in Nat
         /\ Holders \subseteq Carriers /\ Carriers \subseteq Threads
         /\ Master \in Holders <=> Master \in Carriers
         /\ Master \in Threads /\ Master \notin Workers
         /\ Threads = Workers \cup {Master}
<1> USE PoolAssumption DEF IInv, TypeOK
<1>1. Len(waiting_requests) \in Nat
  BY LenProperties
<1>2. ASSUME NEW i \in 1 .. Len(waiting_requests)
      PROVE  waiting_requests[i] \in Conn /\ waiting_requests[i].arrival \in Nat
  <2>1. waiting_requests[i] \in Conn
    BY ElementOfSeq
  <2> QED
    BY <2>1 DEF Conn
<1>3. ASSUME NEW t \in Carriers
      PROVE  conn[t] \in Conn /\ conn[t].arrival \in Nat
  BY DEF Carriers, Conn
<1>4. Holders \subseteq Carriers /\ Carriers \subseteq Threads
  BY DEF Holders, Carriers
<1>5. Master \in Holders <=> Master \in Carriers
  BY DEF Holders, Carriers, Threads, MasterPcs
<1> QED
  BY <1>1, <1>2, <1>3, <1>4, <1>5 DEF Threads

\* Where the i-th entry of the queue was before the k-th one left.
Old(k, i) == IF i < k THEN i ELSE i + 1

\* The queue without one of its entries is a selection of the old one, in order.
LEMMA WithoutSelects ==
  ASSUME IInv, NEW k \in 1 .. Len(waiting_requests), Without(k)
  PROVE  /\ Len(waiting_requests') \in Nat
         /\ \A i \in 1 .. Len(waiting_requests') :
              /\ Old(k, i) \in 1 .. Len(waiting_requests)
              /\ Old(k, i) # k
              /\ waiting_requests'[i] = waiting_requests[Old(k, i)]
         /\ \A i, j \in 1 .. Len(waiting_requests') :
              i < j => Old(k, i) < Old(k, j)
         /\ \A j \in 1 .. Len(waiting_requests) :
              j # k => \E i \in 1 .. Len(waiting_requests') : Old(k, i) = j
<1>1. Len(waiting_requests) \in Nat
  BY FlowTypes
<1>2. Len(waiting_requests') = Len(waiting_requests) - 1
  BY DEF Without
<1>3. ASSUME NEW j \in 1 .. Len(waiting_requests), j # k
      PROVE  \E i \in 1 .. Len(waiting_requests') : Old(k, i) = j
  <2>1. CASE j < k
    <3>1. j \in 1 .. Len(waiting_requests') /\ Old(k, j) = j
      BY <1>1, <1>2, <2>1 DEF Old
    <3> QED
      BY <3>1
  <2>2. CASE j > k
    <3>1. j - 1 \in 1 .. Len(waiting_requests') /\ Old(k, j - 1) = j
      BY <1>1, <1>2, <2>2 DEF Old
    <3> QED
      BY <3>1
  <2> QED
    BY <1>3, <2>1, <2>2
<1> QED
  BY <1>1, <1>2, <1>3 DEF Without, Old

\* Every move keeps the order.
LEMMA OrderStep == IInv /\ OrderInv /\ [Next]_vars => OrderInv'
<1> SUFFICES ASSUME IInv, OrderInv, [Next]_vars PROVE OrderInv'
  OBVIOUS
<1> USE DEF OrderInv, ArrivalsKnown, QueueAscends, WorkersOlder, MasterNewest,
        MasterAlone, WorkersDiffer
<1>1. CASE Rests
  BY <1>1 DEF Rests
<1>2. ASSUME NEW fd \in Fds \ open, Arrives(fd) PROVE OrderInv'
  BY <1>2, FlowTypes DEF Arrives
<1>3. CASE Queues
  <2> DEFINE n == Len(waiting_requests)
  <2>1. /\ n \in Nat /\ Len(waiting_requests') = n + 1
        /\ \A i \in 1 .. n : waiting_requests'[i] = waiting_requests[i]
        /\ waiting_requests'[n + 1].arrival = accepted
        /\ \A i \in 1 .. n : waiting_requests[i].arrival \in 1 .. accepted - 1
    BY <1>3, FlowTypes DEF Queues
  <2>2. /\ accepted' = accepted /\ Carriers' = Carriers \ {Master}
        /\ \A t \in Carriers' : conn'[t] = conn[t] /\ conn[t].arrival \in 1 .. accepted - 1
    BY <1>3, FlowTypes DEF Queues
  <2> HIDE DEF n
  <2>3. /\ \A i \in 1 .. n + 1 : i \in 1 .. n \/ i = n + 1
        /\ \A i \in 1 .. n : waiting_requests'[i].arrival \in 1 .. accepted - 1
        /\ accepted \in 1 .. accepted
    BY <1>3, <2>1, FlowTypes DEF Queues
  <2>4. ArrivalsKnown'
    BY <2>1, <2>2, <2>3, FlowTypes
  <2>5. QueueAscends'
    <3> SUFFICES ASSUME NEW i \in 1 .. n + 1, NEW j \in 1 .. n + 1, i < j
                 PROVE  waiting_requests'[i].arrival < waiting_requests'[j].arrival
      BY <2>1
    <3>1. i \in 1 .. n
      BY <2>1
    <3>2. CASE j \in 1 .. n
      BY <2>1, <3>1, <3>2 DEF n
    <3>3. CASE j = n + 1
      BY <2>1, <2>3, <3>1, <3>3, FlowTypes
    <3> QED
      BY <2>3, <3>2, <3>3
  <2>6. WorkersOlder'
    <3> SUFFICES ASSUME NEW t \in Carriers', NEW i \in 1 .. n + 1
                 PROVE  conn'[t].arrival < waiting_requests'[i].arrival
      BY <2>1
    <3>1. CASE i \in 1 .. n
      BY <2>1, <2>2, <3>1 DEF n
    <3>2. CASE i = n + 1
      BY <2>1, <2>2, <3>2, FlowTypes
    <3> QED
      BY <2>1, <3>1, <3>2
  <2>7. MasterNewest' /\ MasterAlone' /\ WorkersDiffer'
    BY <2>2
  <2> QED
    BY <2>4, <2>5, <2>6, <2>7
<1>4. ASSUME NEW t \in Threads, Closes(t) PROVE OrderInv'
  BY <1>4, FlowTypes DEF Closes
<1>5. CASE Loses
  BY <1>5, FlowTypes DEF Loses
<1>6. ASSUME NEW k \in 1 .. Len(waiting_requests), Sheds(k) PROVE OrderInv'
  <2>1. /\ \A i \in 1 .. Len(waiting_requests') :
             /\ Old(k, i) \in 1 .. Len(waiting_requests)
             /\ waiting_requests'[i] = waiting_requests[Old(k, i)]
        /\ \A i, j \in 1 .. Len(waiting_requests') : i < j => Old(k, i) < Old(k, j)
    BY <1>6, WithoutSelects DEF Sheds
  <2> QED
    BY <1>6, <2>1, FlowTypes, ZenonT(60) DEF Sheds
<1>7. ASSUME NEW w \in Workers, Takes(w) PROVE OrderInv'
  <2>1. 1 \in 1 .. Len(waiting_requests)
    BY <1>7, FlowTypes DEF Takes
  <2>2. /\ \A i \in 1 .. Len(waiting_requests') :
             /\ Old(1, i) \in 1 .. Len(waiting_requests)
             /\ Old(1, i) # 1
             /\ waiting_requests'[i] = waiting_requests[Old(1, i)]
        /\ \A i, j \in 1 .. Len(waiting_requests') : i < j => Old(1, i) < Old(1, j)
    BY <1>7, <2>1, WithoutSelects DEF Takes
  <2>3. \A i \in 1 .. Len(waiting_requests') :
          waiting_requests[1].arrival < waiting_requests'[i].arrival
    BY <2>1, <2>2, FlowTypes
  <2>4. accepted' = accepted /\ Carriers' = Carriers \cup {w}
        /\ conn'[w] = waiting_requests[1] /\ (\A t \in Carriers : conn'[t] = conn[t])
        /\ w \notin Carriers /\ w # Master
    BY <1>7, FlowTypes DEF Takes
  <2>5. ArrivalsKnown' /\ QueueAscends'
    BY <2>1, <2>2, <2>4
  <2>6. WorkersOlder'
    BY <2>2, <2>3, <2>4, FlowTypes
  <2>7. MasterNewest'
    BY <2>4
  <2>8. MasterAlone'
    BY <2>1, <2>2, <2>4, SMTT(60)
  <2>9. WorkersDiffer'
    BY <2>1, <2>4, FlowTypes
  <2> QED
    BY <2>5, <2>6, <2>7, <2>8, <2>9
<1> QED
  BY <1>1, <1>2, <1>3, <1>4, <1>5, <1>6, <1>7, StepMoves DEF Moves

LEMMA OrderInvHolds == Spec => []OrderInv
<1>1. Init => OrderInv
  <2> SUFFICES ASSUME Init PROVE OrderInv
    OBVIOUS
  <2>1. Carriers = {} /\ Len(waiting_requests) = 0
    BY EmptySeq DEF Init, Carriers
  <2> QED
    BY <2>1 DEF OrderInv, ArrivalsKnown, QueueAscends, WorkersOlder, MasterNewest,
                MasterAlone, WorkersDiffer
<1>2. IInv /\ OrderInv /\ [Next]_vars => OrderInv'
  BY OrderStep
<1> QED
  BY <1>1, <1>2, IInvHolds, PTL DEF Spec

\* Connections wait in the order of their arrival, whatever the policy drops from
\* the middle, and workers have the ones that arrived before those.
THEOREM OrderKept == Spec => []ArrivalOrder
<1>1. ASSUME IInv, OrderInv PROVE ArrivalOrder
  <2>1. DOMAIN waiting_requests = 1 .. Len(waiting_requests)
    BY <1>1, LenProperties DEF IInv, TypeOK
  <2>2. ASSUME NEW e \in WaitingConns, NEW t \in Holders
        PROVE  IF t = Master THEN e.arrival < conn[t].arrival
                             ELSE conn[t].arrival < e.arrival
    <3>1. PICK i \in 1 .. Len(waiting_requests) : e = waiting_requests[i]
      BY <2>1 DEF WaitingConns
    <3> QED
      BY <1>1, <3>1, FlowTypes
      DEF OrderInv, ArrivalsKnown, WorkersOlder, MasterNewest, MasterAlone
  <2> QED
    BY <1>1, <2>1, <2>2 DEF ArrivalOrder, OrderInv, QueueAscends
<1> QED
  BY <1>1, IInvHolds, OrderInvHolds, PTL

-----------------------------------------------------------------------------
(* Where each connection is.                                               *)

Waits == Arrivals(WaitingConns)
Held  == Arrivals(HeldConns)

LEMMA PlacesMeaning ==
  IInv => /\ Waits = {waiting_requests[i].arrival : i \in 1 .. Len(waiting_requests)}
          /\ Held = {conn[t].arrival : t \in Holders}
<1> SUFFICES ASSUME IInv
             PROVE  /\ Waits = {waiting_requests[i].arrival : i \in 1 .. Len(waiting_requests)}
                    /\ Held = {conn[t].arrival : t \in Holders}
  OBVIOUS
<1>1. DOMAIN waiting_requests = 1 .. Len(waiting_requests)
  BY LenProperties DEF IInv, TypeOK
<1> QED
  BY <1>1, Zenon DEF Waits, Held, Arrivals, WaitingConns, HeldConns

\* What a step does with the arrivals: nothing, or a new one comes to the master,
\* or one of them goes from one place to another.
Relocated(a) ==
  \/ /\ a \in Held /\ Held' = Held \ {a}
     /\ \/ Waits' = Waits \cup {a} /\ UNCHANGED <<served, shed, lost>>
        \/ served' = served \cup {a} /\ Waits' = Waits /\ UNCHANGED <<shed, lost>>
        \/ shed' = shed \cup {a} /\ Waits' = Waits /\ UNCHANGED <<served, lost>>
        \/ lost' = lost \cup {a} /\ Waits' = Waits /\ UNCHANGED <<served, shed>>
  \/ /\ a \in Waits /\ Waits' = Waits \ {a}
     /\ \/ Held' = Held \cup {a} /\ UNCHANGED <<served, shed, lost>>
        \/ shed' = shed \cup {a} /\ Held' = Held /\ UNCHANGED <<served, lost>>

LEMMA ArrivalMoves ==
  ASSUME IInv, IInv', OrderInv, [Next]_vars
  PROVE  \/ Waits' = Waits /\ Held' = Held /\ UNCHANGED <<accepted, served, shed, lost>>
         \/ /\ accepted' = accepted + 1
            /\ Waits' = Waits /\ Held' = Held \cup {accepted'}
            /\ UNCHANGED <<served, shed, lost>>
         \/ accepted' = accepted /\ \E a \in 1 .. accepted : Relocated(a)
<1> DEFINE Same == Waits' = Waits /\ Held' = Held /\ UNCHANGED <<accepted, served, shed, lost>>
           Comes == /\ accepted' = accepted + 1
                    /\ Waits' = Waits /\ Held' = Held \cup {accepted'}
                    /\ UNCHANGED <<served, shed, lost>>
           Goes == accepted' = accepted /\ \E a \in 1 .. accepted : Relocated(a)
<1> SUFFICES Same \/ Comes \/ Goes
  OBVIOUS
<1>0. /\ Waits = {waiting_requests[i].arrival : i \in 1 .. Len(waiting_requests)}
      /\ Held = {conn[t].arrival : t \in Holders}
      /\ Waits' = {waiting_requests'[i].arrival : i \in 1 .. Len(waiting_requests')}
      /\ Held' = {conn'[t].arrival : t \in Holders'}
  <2>1. (IInv => /\ Waits = {waiting_requests[i].arrival : i \in 1 .. Len(waiting_requests)}
                 /\ Held = {conn[t].arrival : t \in Holders})'
    BY PlacesMeaning, PTL
  <2> QED
    BY <2>1, PlacesMeaning
\* When a thread gives its connection away, the others have different ones.
<1>a. ASSUME NEW t \in Holders, Holders' = Holders \ {t},
             \A u \in Holders' : conn'[u] = conn[u]
      PROVE  /\ conn[t].arrival \in Held /\ Held' = Held \ {conn[t].arrival}
             /\ conn[t].arrival \in 1 .. accepted
  <2>1. \A u \in Holders : u # t => conn[u].arrival # conn[t].arrival
    BY FlowTypes DEF OrderInv, MasterNewest, MasterAlone, WorkersDiffer
  <2>2. conn[t].arrival \in 1 .. accepted
    BY FlowTypes DEF OrderInv, ArrivalsKnown
  <2> QED
    BY <1>0, <1>a, <2>1, <2>2
\* When an entry leaves the queue, the other entries are different.
<1>b. ASSUME NEW k \in 1 .. Len(waiting_requests), Without(k)
      PROVE  /\ waiting_requests[k].arrival \in Waits
             /\ Waits' = Waits \ {waiting_requests[k].arrival}
             /\ waiting_requests[k].arrival \in 1 .. accepted
  <2>1. \A i \in 1 .. Len(waiting_requests) :
          i # k => waiting_requests[i].arrival # waiting_requests[k].arrival
    BY FlowTypes DEF OrderInv, QueueAscends
  <2>2. waiting_requests[k].arrival \in 1 .. accepted
    BY DEF OrderInv, ArrivalsKnown
  <2>3. /\ \A i \in 1 .. Len(waiting_requests') :
             /\ Old(k, i) \in 1 .. Len(waiting_requests)
             /\ Old(k, i) # k
             /\ waiting_requests'[i] = waiting_requests[Old(k, i)]
        /\ \A j \in 1 .. Len(waiting_requests) :
             j # k => \E i \in 1 .. Len(waiting_requests') : Old(k, i) = j
    BY <1>b, WithoutSelects
  <2>4. ASSUME NEW a \in Waits' PROVE a \in Waits /\ a # waiting_requests[k].arrival
    BY <1>0, <2>1, <2>3
  <2>5. ASSUME NEW a \in Waits, a # waiting_requests[k].arrival PROVE a \in Waits'
    <3>1. PICK j \in 1 .. Len(waiting_requests) : a = waiting_requests[j].arrival
      BY <1>0
    <3>2. PICK i \in 1 .. Len(waiting_requests') : Old(k, i) = j
      BY <2>3, <2>5, <3>1
    <3> QED
      BY <1>0, <2>3, <3>1, <3>2
  <2>6. waiting_requests[k].arrival \in Waits
    BY <1>0
  <2> QED
    BY <2>2, <2>4, <2>5, <2>6
<1>1. CASE Rests
  <2>1. Same
    BY <1>0, <1>1, FlowTypes DEF Rests, Holders, Carriers
  <2> QED
    BY <2>1
<1>2. ASSUME NEW fd \in Fds \ open, Arrives(fd) PROVE Comes
  BY <1>0, <1>2, FlowTypes DEF Arrives
<1>3. CASE Queues
  <2>1. Holders' = Holders \ {Master} /\ \A u \in Holders' : conn'[u] = conn[u]
    BY <1>3, FlowTypes DEF Queues
  <2>2. Waits' = Waits \cup {conn[Master].arrival}
    <3>1. Len(waiting_requests) \in Nat
      BY FlowTypes
    <3> QED
      BY <1>0, <1>3, <3>1 DEF Queues
  <2>3. Relocated(conn[Master].arrival) /\ conn[Master].arrival \in 1 .. accepted
    BY <1>3, <1>a, <2>1, <2>2 DEF Queues, Relocated
  <2> QED
    BY <1>3, <2>3 DEF Queues
<1>4. ASSUME NEW t \in Threads, Closes(t) PROVE Goes
  <2>1. t \in Holders /\ Holders' = Holders \ {t} /\ \A u \in Holders' : conn'[u] = conn[u]
    BY <1>4, FlowTypes DEF Closes, Holders, Carriers
  <2>2. Waits' = Waits
    BY <1>0, <1>4 DEF Closes
  <2>3. Relocated(conn[t].arrival) /\ conn[t].arrival \in 1 .. accepted
    BY <1>4, <1>a, <2>1, <2>2 DEF Closes, Relocated
  <2> QED
    BY <1>4, <2>3 DEF Closes
<1>5. CASE Loses
  <2>1. Master \in Holders /\ Holders' = Holders \ {Master}
        /\ \A u \in Holders' : conn'[u] = conn[u]
    BY <1>5, FlowTypes DEF Loses, Holders, Carriers
  <2>2. Waits' = Waits
    BY <1>0, <1>5 DEF Loses
  <2>3. Relocated(conn[Master].arrival) /\ conn[Master].arrival \in 1 .. accepted
    BY <1>5, <1>a, <2>1, <2>2 DEF Loses, Relocated
  <2> QED
    BY <1>5, <2>3 DEF Loses
<1>6. ASSUME NEW k \in 1 .. Len(waiting_requests), Sheds(k) PROVE Goes
  <2>1. Held' = Held
    BY <1>0, <1>6, FlowTypes DEF Sheds
  <2>2. Relocated(waiting_requests[k].arrival) /\ waiting_requests[k].arrival \in 1 .. accepted
    BY <1>6, <1>b, <2>1 DEF Sheds, Relocated
  <2> QED
    BY <1>6, <2>2 DEF Sheds
<1>7. ASSUME NEW w \in Workers, Takes(w) PROVE Goes
  <2>1. 1 \in 1 .. Len(waiting_requests)
    BY <1>7, FlowTypes DEF Takes
  <2>2. Held' = Held \cup {waiting_requests[1].arrival}
    BY <1>0, <1>7, FlowTypes DEF Takes
  <2>3. Relocated(waiting_requests[1].arrival) /\ waiting_requests[1].arrival \in 1 .. accepted
    BY <1>7, <1>b, <2>1, <2>2 DEF Takes, Relocated
  <2> QED
    BY <1>7, <2>3 DEF Takes
<1> QED
  BY <1>1, <1>2, <1>3, <1>4, <1>5, <1>6, <1>7, StepMoves DEF Moves

\* Accounted without the tuple.
AccountedInv ==
  /\ 1 .. accepted = Waits \cup Held \cup served \cup shed \cup lost
  /\ Waits \cap Held = {} /\ Waits \cap served = {} /\ Waits \cap shed = {}
  /\ Waits \cap lost = {} /\ Held \cap served = {} /\ Held \cap shed = {}
  /\ Held \cap lost = {} /\ served \cap shed = {} /\ served \cap lost = {}
  /\ shed \cap lost = {}

LEMMA AccountedMeaning == Accounted <=> AccountedInv
<1> DEFINE places == <<Waits, Held, served, shed, lost>>
<1>1. /\ places[1] = Waits /\ places[2] = Held /\ places[3] = served
      /\ places[4] = shed /\ places[5] = lost
  OBVIOUS
<1>2. Accounted <=> /\ 1 .. accepted = UNION {places[i] : i \in 1 .. 5}
                    /\ \A i, j \in 1 .. 5 : i # j => places[i] \cap places[j] = {}
  BY DEF Accounted, Waits, Held
<1>3. 1 .. 5 = {1, 2, 3, 4, 5}
  OBVIOUS
<1> HIDE DEF places
<1>4. UNION {places[i] : i \in 1 .. 5} = Waits \cup Held \cup served \cup shed \cup lost
  BY <1>1, <1>3
<1>5. (\A i, j \in 1 .. 5 : i # j => places[i] \cap places[j] = {})
        <=> /\ Waits \cap Held = {} /\ Waits \cap served = {} /\ Waits \cap shed = {}
            /\ Waits \cap lost = {} /\ Held \cap served = {} /\ Held \cap shed = {}
            /\ Held \cap lost = {} /\ served \cap shed = {} /\ served \cap lost = {}
            /\ shed \cap lost = {}
  BY <1>1, <1>3
<1> QED
  BY <1>2, <1>4, <1>5 DEF AccountedInv

LEMMA AccountedHolds == Spec => []AccountedInv
<1>1. Init => AccountedInv
  <2> SUFFICES ASSUME Init PROVE AccountedInv
    OBVIOUS
  <2>1. Holders = {} /\ Len(waiting_requests) = 0
    BY EmptySeq DEF Init, Holders
  <2>2. Waits = {} /\ Held = {}
    BY <2>1, InitIInv, PlacesMeaning
  <2> QED
    BY <2>2 DEF Init, AccountedInv
<1>2. IInv /\ IInv' /\ OrderInv /\ AccountedInv /\ [Next]_vars => AccountedInv'
  <2> SUFFICES ASSUME IInv, IInv', OrderInv, AccountedInv, [Next]_vars PROVE AccountedInv'
    OBVIOUS
  <2>1. CASE Waits' = Waits /\ Held' = Held /\ UNCHANGED <<accepted, served, shed, lost>>
    BY <2>1 DEF AccountedInv
  <2>2. CASE /\ accepted' = accepted + 1
             /\ Waits' = Waits /\ Held' = Held \cup {accepted'}
             /\ UNCHANGED <<served, shed, lost>>
    <3>1. 1 .. accepted' = 1 .. accepted \cup {accepted'} /\ accepted' \notin 1 .. accepted
      BY <2>2, FlowTypes
    <3> QED
      BY <2>2, <3>1 DEF AccountedInv
  <2>3. ASSUME accepted' = accepted, NEW a \in 1 .. accepted, Relocated(a)
        PROVE  AccountedInv'
    BY <2>3 DEF AccountedInv, Relocated
  <2> QED
    BY <2>1, <2>2, <2>3, ArrivalMoves
<1> QED
  BY <1>1, <1>2, IInvHolds, OrderInvHolds, PTL DEF Spec

\* Every accepted connection is in exactly one place: nobody's, and nobody's twice,
\* it never is.
THEOREM AllAccounted == Spec => []Accounted
  BY AccountedHolds, AccountedMeaning, PTL

-----------------------------------------------------------------------------
(* Which descriptors stay open for ever.                                   *)

Owned == {e.data : e \in WaitingConns \cup HeldConns}

Leaked == open \ Owned

LEMMA OwnedMeaning ==
  IInv => Owned = {waiting_requests[i].data : i \in 1 .. Len(waiting_requests)}
                    \cup {conn[t].data : t \in Holders}
<1> SUFFICES ASSUME IInv
             PROVE  Owned = {waiting_requests[i].data : i \in 1 .. Len(waiting_requests)}
                              \cup {conn[t].data : t \in Holders}
  OBVIOUS
<1>1. DOMAIN waiting_requests = 1 .. Len(waiting_requests)
  BY LenProperties DEF IInv, TypeOK
<1>2. Owned = {e.data : e \in WaitingConns} \cup {e.data : e \in HeldConns}
  BY DEF Owned
<1>3. {e.data : e \in WaitingConns} = {waiting_requests[i].data : i \in 1 .. Len(waiting_requests)}
  BY <1>1 DEF WaitingConns
<1>4. {e.data : e \in HeldConns} = {conn[t].data : t \in Holders}
  BY DEF HeldConns
<1> QED
  BY <1>2, <1>3, <1>4

\* A step leaks nothing and loses nothing, or one descriptor of one connection.
LEMMA LeakMoves ==
  ASSUME IInv, IInv', OrderInv, Ownership, AccountedInv, [Next]_vars
  PROVE  \/ Leaked' = Leaked /\ lost' = lost
         \/ /\ \E fd \in Fds \ Leaked : Leaked' = Leaked \cup {fd}
            /\ \E a \in Nat \ lost : lost' = lost \cup {a}
            /\ schedalg \in OverloadType => oom' = oom + 1
<1> DEFINE Same == Leaked' = Leaked /\ lost' = lost
           One == /\ \E fd \in Fds \ Leaked : Leaked' = Leaked \cup {fd}
                  /\ \E a \in Nat \ lost : lost' = lost \cup {a}
                  /\ schedalg \in OverloadType => oom' = oom + 1
<1> SUFFICES Same \/ One
  OBVIOUS
<1> DEFINE Queued == {waiting_requests[i].data : i \in 1 .. Len(waiting_requests)}
           InHand == {conn[t].data : t \in Holders}
<1>0. Owned = Queued \cup InHand /\ Owned' = Queued' \cup InHand'
  <2>1. (IInv => Owned = Queued \cup InHand)'
    BY OwnedMeaning, PTL
  <2> QED
    BY <2>1, OwnedMeaning
\* A thread gives its connection away.
<1>a. ASSUME NEW t \in Holders, Holders' = Holders \ {t},
             \A u \in Holders' : conn'[u] = conn[u],
             waiting_requests' = waiting_requests
      PROVE  /\ conn[t].data \in Owned /\ conn[t].data \in open
             /\ Owned' = Owned \ {conn[t].data}
  <2>1. Queued' = Queued /\ conn[t].data \notin Queued
    BY <1>a DEF Ownership, HoldersApart
  <2>2. conn[t].data \in InHand /\ InHand' = InHand \ {conn[t].data}
    BY <1>a DEF Ownership, HoldersDiffer
  <2>3. conn[t].data \in open
    BY DEF Ownership, HoldersOpen
  <2> HIDE DEF Queued, InHand
  <2> QED
    BY <1>0, <2>1, <2>2, <2>3
\* The k-th entry leaves the queue.
<1>b. ASSUME NEW k \in 1 .. Len(waiting_requests), Without(k)
      PROVE  /\ waiting_requests[k].data \in Queued
             /\ waiting_requests[k].data \notin InHand
             /\ Queued' = Queued \ {waiting_requests[k].data}
  <2>1. \A i \in 1 .. Len(waiting_requests) :
          i # k => waiting_requests[i].data # waiting_requests[k].data
    BY DEF Ownership, EntriesDiffer
  <2>2. waiting_requests[k].data \notin InHand
    BY DEF Ownership, HoldersApart
  <2>3. /\ \A i \in 1 .. Len(waiting_requests') :
             /\ Old(k, i) \in 1 .. Len(waiting_requests)
             /\ Old(k, i) # k
             /\ waiting_requests'[i] = waiting_requests[Old(k, i)]
        /\ \A j \in 1 .. Len(waiting_requests) :
             j # k => \E i \in 1 .. Len(waiting_requests') : Old(k, i) = j
    BY <1>b, WithoutSelects
  <2>4. ASSUME NEW d \in Queued' PROVE d \in Queued /\ d # waiting_requests[k].data
    BY <2>1, <2>3
  <2>5. ASSUME NEW d \in Queued, d # waiting_requests[k].data PROVE d \in Queued'
    <3>1. PICK j \in 1 .. Len(waiting_requests) : d = waiting_requests[j].data
      OBVIOUS
    <3>2. PICK i \in 1 .. Len(waiting_requests') : Old(k, i) = j
      BY <2>3, <2>5, <3>1
    <3> QED
      BY <2>3, <3>1, <3>2
  <2> QED
    BY <2>2, <2>4, <2>5
<1>1. CASE Rests
  <2>1. Queued' = Queued /\ InHand' = InHand
    BY <1>1, FlowTypes DEF Rests, Holders, Carriers
  <2> QED
    BY <1>0, <1>1, <2>1 DEF Rests, Leaked
<1>2. ASSUME NEW fd \in Fds \ open, Arrives(fd) PROVE Same
  <2>1. Queued' = Queued /\ InHand' = InHand \cup {fd}
    BY <1>2, FlowTypes DEF Arrives
  <2> HIDE DEF Queued, InHand
  <2> QED
    BY <1>0, <1>2, <2>1 DEF Arrives, Leaked
<1>3. CASE Queues
  <2>1. Queued' = Queued \cup {conn[Master].data}
    <3>1. Len(waiting_requests) \in Nat
      BY FlowTypes
    <3> QED
      BY <1>3, <3>1 DEF Queues
  <2>2. InHand = InHand' \cup {conn[Master].data}
    BY <1>3, FlowTypes DEF Queues
  <2> HIDE DEF Queued, InHand
  <2> QED
    BY <1>0, <1>3, <2>1, <2>2 DEF Queues, Leaked
<1>4. ASSUME NEW t \in Threads, Closes(t) PROVE Same
  <2>1. /\ t \in Holders /\ Holders' = Holders \ {t} /\ \A u \in Holders' : conn'[u] = conn[u]
        /\ waiting_requests' = waiting_requests
    BY <1>4, FlowTypes DEF Closes, Holders, Carriers
  <2>2. conn[t].data \in Owned /\ Owned' = Owned \ {conn[t].data}
    BY <1>a, <2>1
  <2> QED
    BY <1>4, <2>2 DEF Closes, Leaked
<1>5. CASE Loses
  <2>1. /\ Master \in Holders /\ Holders' = Holders \ {Master}
        /\ \A u \in Holders' : conn'[u] = conn[u]
        /\ waiting_requests' = waiting_requests
    BY <1>5, FlowTypes DEF Loses, Holders, Carriers
  <2>2. /\ conn[Master].data \in Owned /\ conn[Master].data \in open
        /\ Owned' = Owned \ {conn[Master].data}
    BY <1>a, <2>1
  <2>3. conn[Master].arrival \in Held
    BY <2>1, PlacesMeaning
  <2>4. conn[Master].arrival \in Nat \ lost
    BY <2>1, <2>3, FlowTypes DEF AccountedInv
  <2>5. open \subseteq Fds
    BY DEF IInv, TypeOK
  <2> QED
    BY <1>5, <2>2, <2>4, <2>5 DEF Loses, Leaked
<1>6. ASSUME NEW k \in 1 .. Len(waiting_requests), Sheds(k) PROVE Same
  <2>1. InHand' = InHand
    BY <1>6, FlowTypes DEF Sheds
  <2>2. /\ waiting_requests[k].data \in Queued
        /\ waiting_requests[k].data \notin InHand
        /\ Queued' = Queued \ {waiting_requests[k].data}
    BY <1>6, <1>b DEF Sheds
  <2> HIDE DEF Queued, InHand
  <2> QED
    BY <1>0, <1>6, <2>1, <2>2 DEF Sheds, Leaked
<1>7. ASSUME NEW w \in Workers, Takes(w) PROVE Same
  <2>1. 1 \in 1 .. Len(waiting_requests)
    BY <1>7, FlowTypes DEF Takes
  <2>2. InHand' = InHand \cup {waiting_requests[1].data}
    BY <1>7, FlowTypes DEF Takes
  <2>3. /\ waiting_requests[1].data \in Queued
        /\ Queued' = Queued \ {waiting_requests[1].data}
    BY <1>7, <1>b, <2>1 DEF Takes
  <2> HIDE DEF Queued, InHand
  <2> QED
    BY <1>0, <1>7, <2>2, <2>3 DEF Takes, Leaked
<1> QED
  BY <1>1, <1>2, <1>3, <1>4, <1>5, <1>6, <1>7, StepMoves DEF Moves

\* The descriptors nobody will ever close are as many as the connections the master
\* forgot, and under a legal policy malloc refused an entry for each of them.
THEOREM NothingElseLeaks == Spec => []NoLeak
<1> DEFINE LeakInv ==
      /\ Cardinality(Leaked) = Cardinality(lost)
      /\ schedalg \in OverloadType => Cardinality(lost) <= oom
<1>1. LeakInv <=> NoLeak
  BY DEF NoLeak, Leaked, Owned
<1>2. Init => LeakInv
  <2> SUFFICES ASSUME Init PROVE LeakInv
    OBVIOUS
  <2>1. Leaked = {} /\ lost = {} /\ oom = 0
    BY DEF Init, Leaked
  <2> QED
    BY <2>1, FS_EmptySet
<1>3. IInv /\ IInv' /\ OrderInv /\ Ownership /\ AccountedInv /\ LeakInv /\ [Next]_vars => LeakInv'
  <2> SUFFICES ASSUME IInv, IInv', OrderInv, Ownership, AccountedInv, LeakInv, [Next]_vars
               PROVE  LeakInv'
    OBVIOUS
  <2>1. IsFiniteSet(Leaked) /\ Cardinality(Leaked) \in Nat
    <3>1. Leaked \in SUBSET Fds
      BY DEF IInv, TypeOK, Leaked
    <3> QED
      BY <3>1, PoolAssumption, FS_Subset, FS_CardinalityType
  <2>2. IsFiniteSet(lost) /\ Cardinality(lost) \in Nat
    <3>1. lost \in SUBSET (1 .. accepted) /\ accepted \in Nat
      BY FlowTypes DEF AccountedInv
    <3>2. IsFiniteSet(1 .. accepted)
      BY <3>1, FS_Interval
    <3> QED
      BY <3>1, <3>2, FS_Subset, FS_CardinalityType
  <2>3. schedalg' = schedalg /\ oom' \in {oom, oom + 1} /\ oom \in Nat
    BY StepMoves DEF IInv, TypeOK
  <2>4. CASE Leaked' = Leaked /\ lost' = lost
    BY <2>2, <2>3, <2>4
  <2>5. ASSUME NEW fd \in Fds \ Leaked, Leaked' = Leaked \cup {fd},
               NEW a \in Nat \ lost, lost' = lost \cup {a},
               schedalg \in OverloadType => oom' = oom + 1
        PROVE  LeakInv'
    <3>1. Cardinality(Leaked') = Cardinality(Leaked) + 1
      BY <2>1, <2>5, FS_AddElement
    <3>2. Cardinality(lost') = Cardinality(lost) + 1
      BY <2>2, <2>5, FS_AddElement
    <3> QED
      BY <2>1, <2>2, <2>3, <2>5, <3>1, <3>2
  <2> QED
    BY <2>4, <2>5, LeakMoves
<1>4. Spec => []Ownership
  BY OwnershipHolds
<1> QED
  BY <1>1, <1>2, <1>3, <1>4, IInvHolds, OrderInvHolds, AccountedHolds, PTL DEF Spec

-----------------------------------------------------------------------------
(* Who is awake.                                                           *)

WorkersAwake ==
  (\E w \in Workers : w \in sleeping) => Len(waiting_requests) <= Cardinality(Seeking)

MasterRests ==
  Master \in sleeping => Full \/ (\E w \in Workers : pc[w] = "push")

LEMMA SeekingFinite == IsFiniteSet(Seeking) /\ Cardinality(Seeking) \in Nat
<1>1. Seeking \in SUBSET Workers /\ IsFiniteSet(Workers)
  BY PoolAssumption DEF Seeking
<1> QED
  BY <1>1, FS_Subset, FS_CardinalityType

\* A step that puts no worker to sleep, leaves the seekers at it and brings no
\* connection takes no wakeup away.
LEMMA StillAwake ==
  ASSUME IInv, IInv', WorkersAwake, Seeking \subseteq Seeking',
         \A w \in Workers : w \in sleeping' => w \in sleeping,
         Len(waiting_requests') <= Len(waiting_requests)
  PROVE  WorkersAwake'
<1>1. /\ IsFiniteSet(Seeking) /\ Cardinality(Seeking) \in Nat
      /\ IsFiniteSet(Seeking') /\ Cardinality(Seeking') \in Nat
  <2>1. (IsFiniteSet(Seeking) /\ Cardinality(Seeking) \in Nat)'
    BY SeekingFinite, PTL
  <2> QED
    BY <2>1, SeekingFinite
<1>2. Cardinality(Seeking) <= Cardinality(Seeking')
  BY <1>1, FS_Subset
<1>3. Len(waiting_requests) \in Nat /\ Len(waiting_requests') \in Nat
  BY LenProperties DEF IInv, TypeOK
<1> QED
  BY <1>1, <1>2, <1>3 DEF WorkersAwake

\* The signal of queuePush wakes as many workers as it adds connections, and the
\* broadcasts wake everybody.
LEMMA WorkersAwakeStep == IInv /\ IInv' /\ WorkersAwake /\ [Next]_vars => WorkersAwake'
<1> SUFFICES ASSUME IInv, IInv', WorkersAwake, [Next]_vars PROVE WorkersAwake'
  OBVIOUS
<1> USE PoolAssumption DEF IInv, TypeOK, Threads, MasterPcs, WorkerPcs,
    queues, history, faults
<1>0. ASSUME Seeking \subseteq Seeking',
             \A w \in Workers : w \in sleeping' => w \in sleeping,
             waiting_requests' = waiting_requests
      PROVE  WorkersAwake'
  <2>1. Len(waiting_requests') <= Len(waiting_requests)
    BY <1>0, LenProperties
  <2> QED
    BY <1>0, <2>1, StillAwake
<1>1. CASE MasterAccept
  BY <1>0, <1>1 DEF MasterAccept, Goto, Seeking
<1>2. CASE MasterAcceptFails
  BY <1>0, <1>2 DEF MasterAcceptFails, Seeking
<1>3. CASE MasterLock
  BY <1>0, <1>3 DEF MasterLock, Goto, Seeking
<1>4. CASE MasterWait
  BY <1>0, <1>4 DEF MasterWait, CondWait, Goto, Seeking
<1>5. CASE MasterTest
  BY <1>0, <1>5 DEF MasterTest, Goto, Seeking
<1>6. CASE MasterForget
  BY <1>0, <1>6 DEF MasterForget, Goto, Seeking
<1>7. CASE MasterAdmit
  <2>1. sleeping \subseteq Workers
    BY <1>7 DEF MasterAdmit, SleepInv
  <2>2. CASE sleeping = {} /\ sleeping' = sleeping
    BY <2>2 DEF WorkersAwake
  <2>3. ASSUME NEW v \in sleeping, sleeping' = sleeping \ {v} PROVE WorkersAwake'
    <3>1. v \in Workers /\ pc[v] = "wait"
      BY <2>1 DEF SleepInv
    <3>2. Seeking' = Seeking \cup {v} /\ v \notin Seeking
      BY <1>7, <2>1, <2>3, <3>1 DEF MasterAdmit, Goto, Seeking
    <3>3. Cardinality(Seeking') = Cardinality(Seeking) + 1
      BY <3>2, SeekingFinite, FS_AddElement
    <3>4. Len(waiting_requests') \in {Len(waiting_requests), Len(waiting_requests) + 1}
      <4>1. conn[Master] \in Conn
        BY <1>7 DEF MasterAdmit, ConnInv
      <4> QED
        BY <1>7, <4>1, AppendProperties DEF MasterAdmit, QueuePush
    <3>5. Len(waiting_requests) <= Cardinality(Seeking) /\ Len(waiting_requests) \in Nat
      BY <3>1, LenProperties DEF WorkersAwake
    <3> QED
      BY <3>3, <3>4, <3>5, SeekingFinite DEF WorkersAwake
  <2> QED
    BY <1>7, <2>2, <2>3 DEF MasterAdmit, CondSignal
<1>8. CASE MasterReject
  BY <1>0, <1>8 DEF MasterReject, Goto, Seeking
<1>9. CASE MasterEvict
  <2>1. Seeking' = Seeking /\ sleeping' = sleeping
    BY <1>9 DEF MasterEvict, Goto, Seeking
  <2>2. Len(waiting_requests') <= Len(waiting_requests)
    BY <1>9, PopFacts, LenProperties DEF MasterEvict
  <2> QED
    BY <2>1, <2>2, StillAwake
<1>10. CASE MasterDiscard
  <2>1. Seeking' = Seeking /\ sleeping' = sleeping
    BY <1>10 DEF MasterDiscard, Seeking
  <2>2. Len(waiting_requests') <= Len(waiting_requests)
    <3>1. waiting_requests \in Seq(Conn) /\ Len(waiting_requests) \in Nat
      BY LenProperties
    <3> HIDE DEF IInv, TypeOK
    <3> QED
      BY <1>10, <3>1, RemoveFacts DEF MasterDiscard
  <2> QED
    BY <2>1, <2>2, StillAwake
<1>11. CASE MasterRetest
  BY <1>0, <1>11 DEF MasterRetest, Goto, Seeking
<1>12. ASSUME NEW w \in Workers, WorkerLock(w) PROVE WorkersAwake'
  BY <1>0, <1>12 DEF WorkerLock, Goto, Seeking
<1>13. ASSUME NEW w \in Workers, WorkerTest(w) PROVE WorkersAwake'
  <2>1. CASE waiting_requests = <<>> /\ waiting_requests' = waiting_requests
    <3>1. Len(waiting_requests') = 0
      BY <2>1, EmptySeq
    <3>2. (IsFiniteSet(Seeking) /\ Cardinality(Seeking) \in Nat)'
      BY SeekingFinite, PTL
    <3> QED
      BY <3>1, <3>2 DEF WorkersAwake
  <2>2. CASE waiting_requests # <<>>
    BY <1>0, <1>13, <2>2 DEF WorkerTest, Goto, Seeking
  <2> QED
    BY <1>13, <2>1, <2>2 DEF WorkerTest
<1>14. ASSUME NEW w \in Workers, WorkerPop(w) PROVE WorkersAwake'
  <2>1. Seeking' = Seeking \ {w} /\ w \in Seeking
    BY <1>14 DEF WorkerPop, Goto, Seeking, SleepInv
  <2>2. Cardinality(Seeking') = Cardinality(Seeking) - 1
    BY <2>1, SeekingFinite, FS_RemoveElement
  <2>3. Len(waiting_requests') = Len(waiting_requests) - 1 /\ Len(waiting_requests) \in Nat
    BY <1>14, PopFacts, LenProperties DEF WorkerPop, PopInv
  <2> QED
    BY <1>14, <2>2, <2>3, SeekingFinite DEF WorkerPop, WorkersAwake
<1>15. ASSUME NEW w \in Workers, WorkerPush(w) PROVE WorkersAwake'
  BY <1>15 DEF WorkerPush, CondBroadcast, WorkersAwake
<1>16. ASSUME NEW w \in Workers, WorkerHandle(w) PROVE WorkersAwake'
  BY <1>0, <1>16 DEF WorkerHandle, Goto, Seeking
<1>17. ASSUME NEW w \in Workers, WorkerHandleFails(w) PROVE WorkersAwake'
  BY <1>0, <1>17 DEF WorkerHandleFails, Seeking
<1>18. ASSUME NEW w \in Workers, WorkerRelock(w) PROVE WorkersAwake'
  BY <1>0, <1>18 DEF WorkerRelock, Goto, Seeking
<1>19. ASSUME NEW w \in Workers, WorkerPopRunning(w) PROVE WorkersAwake'
  BY <1>19 DEF WorkerPopRunning, CondBroadcast, WorkersAwake
<1>20. ASSUME NEW t \in Threads, SpuriousWakeup(t) PROVE WorkersAwake'
  BY <1>0, <1>20 DEF SpuriousWakeup, Seeking
<1>21. CASE UNCHANGED vars
  BY <1>0, <1>21 DEF vars, Seeking
<1> QED
  BY <1>1, <1>2, <1>3, <1>4, <1>5, <1>6, <1>7, <1>8, <1>9, <1>10, <1>11,
     <1>12, <1>13, <1>14, <1>15, <1>16, <1>17, <1>18, <1>19, <1>20, <1>21
  DEF Next, MasterStep, WorkerStep, Environment, Idle, Ended

\* Every step that makes room is a broadcast, or leads to one: the pop of a waiting
\* connection does, by the worker's push.
LEMMA MasterRestsStep == IInv /\ MasterRests /\ [Next]_vars => MasterRests'
<1> SUFFICES ASSUME IInv, MasterRests, [Next]_vars PROVE MasterRests'
  OBVIOUS
<1> USE PoolAssumption DEF IInv, TypeOK, Threads, MasterPcs, WorkerPcs,
    queues, history, faults
<1>0. ASSUME Master \in sleeping' => Master \in sleeping,
             UNCHANGED <<waiting_requests, running_requests>>,
             \A w \in Workers : pc[w] = "push" => pc'[w] = "push"
      PROVE  MasterRests'
  BY <1>0 DEF MasterRests, Full
\* A step of the master: it is awake, and stays so.
<1>m. ASSUME pc[Master] # "wait", sleeping' \subseteq sleeping PROVE MasterRests'
  BY <1>m DEF SleepInv, MasterRests
<1>1. CASE MasterAccept
  BY <1>m, <1>1 DEF MasterAccept
<1>2. CASE MasterAcceptFails
  BY <1>0, <1>2 DEF MasterAcceptFails
<1>3. CASE MasterLock
  BY <1>0, <1>3 DEF MasterLock, Goto
<1>4. CASE MasterWait
  BY <1>4 DEF MasterWait, MasterRests, Full
<1>5. CASE MasterTest
  BY <1>m, <1>5 DEF MasterTest
<1>6. CASE MasterForget
  BY <1>m, <1>6 DEF MasterForget
<1>7. CASE MasterAdmit
  BY <1>m, <1>7 DEF MasterAdmit, CondSignal
<1>8. CASE MasterReject
  BY <1>m, <1>8 DEF MasterReject
<1>9. CASE MasterEvict
  BY <1>m, <1>9 DEF MasterEvict
<1>10. CASE MasterDiscard
  BY <1>m, <1>10 DEF MasterDiscard
<1>11. CASE MasterRetest
  BY <1>m, <1>11 DEF MasterRetest
<1>12. ASSUME NEW w \in Workers, WorkerLock(w) PROVE MasterRests'
  BY <1>0, <1>12 DEF WorkerLock, Goto
<1>13. ASSUME NEW w \in Workers, WorkerTest(w) PROVE MasterRests'
  BY <1>0, <1>13 DEF WorkerTest, CondWait, Goto
<1>14. ASSUME NEW w \in Workers, WorkerPop(w) PROVE MasterRests'
  <2>1. pc'[w] = "push"
    BY <1>14 DEF WorkerPop, Goto
  <2> QED
    BY <2>1 DEF MasterRests
<1>15. ASSUME NEW w \in Workers, WorkerPush(w) PROVE MasterRests'
  BY <1>15 DEF WorkerPush, CondBroadcast, MasterRests
<1>16. ASSUME NEW w \in Workers, WorkerHandle(w) PROVE MasterRests'
  BY <1>0, <1>16 DEF WorkerHandle, Goto
<1>17. ASSUME NEW w \in Workers, WorkerHandleFails(w) PROVE MasterRests'
  BY <1>0, <1>17 DEF WorkerHandleFails
<1>18. ASSUME NEW w \in Workers, WorkerRelock(w) PROVE MasterRests'
  BY <1>0, <1>18 DEF WorkerRelock, Goto
<1>19. ASSUME NEW w \in Workers, WorkerPopRunning(w) PROVE MasterRests'
  BY <1>19 DEF WorkerPopRunning, CondBroadcast, MasterRests
<1>20. ASSUME NEW t \in Threads, SpuriousWakeup(t) PROVE MasterRests'
  BY <1>0, <1>20 DEF SpuriousWakeup
<1>21. CASE UNCHANGED vars
  BY <1>0, <1>21 DEF vars
<1> QED
  BY <1>1, <1>2, <1>3, <1>4, <1>5, <1>6, <1>7, <1>8, <1>9, <1>10, <1>11,
     <1>12, <1>13, <1>14, <1>15, <1>16, <1>17, <1>18, <1>19, <1>20, <1>21
  DEF Next, MasterStep, WorkerStep, Environment, Idle, Ended

\* With one condition variable for everybody, no wakeup gets lost all the same:
\* workers sleep only while enough others are on their way to what waits, and the
\* master sleeps only while there is no room.
THEOREM WakeupsReach == Spec => []NoLostWakeup
<1>1. Init => WorkersAwake /\ MasterRests
  BY DEF Init, WorkersAwake, MasterRests
<1>2. IInv /\ IInv' /\ WorkersAwake /\ MasterRests /\ [Next]_vars
        => WorkersAwake' /\ MasterRests'
  BY WorkersAwakeStep, MasterRestsStep
<1>3. WorkersAwake /\ MasterRests => NoLostWakeup
  BY DEF WorkersAwake, MasterRests, NoLostWakeup
<1> QED
  BY <1>1, <1>2, <1>3, IInvHolds, PTL DEF Spec
==============================================================================
