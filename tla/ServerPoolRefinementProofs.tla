---------------------- MODULE ServerPoolRefinementProofs ----------------------
(***************************************************************************)
(* The thread pool implements AdmissionControl: every step of a thread is  *)
(* one step of the abstract server or none, for any number of workers,     *)
(* descriptors and connections, any queue_size and any spurious wakeups.   *)
(***************************************************************************)
EXTENDS ServerPoolRefinement, ServerPoolProofs

\* What AdmissionControl leaves out: malloc fails, or the policy has no name.
Presumed == MaxOOM = 0 /\ SchedArgs \subseteq DOMAIN PolicyNames

-----------------------------------------------------------------------------
(* What the master knows when it acts.                                     *)

\* Between the master's test of the capacity and what follows from it the test
\* still holds: it rejects only when the server is full and, unless the policy
\* is "dt", nobody waits; and it discards until something is gone.
MasterInv ==
  /\ schedalg \in OverloadType /\ oom = 0
  /\ num > 0 => pc[Master] = "discard"
  /\ pc[Master] = "discard"
       => schedalg = "DROP_RAND" /\ (num > 0 \/ waiting_requests = <<>> \/ ~Full)
  /\ pc[Master] = "evict" => schedalg = "DROP_HEAD" /\ Full
  /\ pc[Master] = "reject"
       => /\ Full
          /\ \/ schedalg = "DROP_TAIL"
             \/ schedalg \in {"DROP_HEAD", "DROP_RAND"} /\ waiting_requests = <<>>

\* With what waits, something is to be discarded.
LEMMA ShareFacts ==
  ASSUME IInv, waiting_requests # <<>>
  PROVE  LET size  == Len(waiting_requests)
             share == DiscardCount(size)
             n     == IF share < size THEN share ELSE size
         IN  n \in 1 .. size /\ n - ThirtyPercent(size) \in {0, 1}
<1> DEFINE size == Len(waiting_requests)
<1>1. size \in 1 .. QueueSize /\ QueueSize \in Nat
  BY PoolAssumption, LenProperties, EmptySeq DEF IInv, TypeOK, PlaceInv, Reserved
<1>2. DiscardCount(size) \in {ThirtyPercent(size), ThirtyPercent(size) + 1}
  BY <1>1, ShareAssumption
<1>3. ThirtyPercent(size) \in 1 .. size
  BY <1>1 DEF ThirtyPercent
<1> HIDE DEF size
<1> QED
  BY <1>1, <1>2, <1>3 DEF size

LEMMA MasterInvStep ==
  ASSUME MaxOOM = 0 PROVE IInv /\ MasterInv /\ [Next]_vars => MasterInv'
<1> SUFFICES ASSUME IInv, MasterInv, [Next]_vars PROVE MasterInv'
  OBVIOUS
<1> USE PoolAssumption DEF IInv, TypeOK, MutexInv, Threads, MasterPcs, WorkerPcs,
    CriticalPcs, queues, history, faults
<1>0. ASSUME UNCHANGED <<schedalg, oom, num, queues>>, pc'[Master] = pc[Master]
      PROVE  MasterInv'
  BY <1>0 DEF MasterInv, Full
\* A step of a worker inside its critical section: the master is in none.
<1>w. ASSUME NEW w \in Workers, m = w, UNCHANGED <<schedalg, oom, num>>,
             pc'[Master] = pc[Master]
      PROVE  MasterInv'
  BY <1>w DEF MasterInv
<1>1. CASE MasterAccept
  BY <1>1 DEF MasterAccept, Goto, MasterInv
<1>2. CASE MasterAcceptFails
  BY <1>0, <1>2 DEF MasterAcceptFails
<1>3. CASE MasterLock
  BY <1>3 DEF MasterLock, Goto, MasterInv
<1>4. CASE MasterWait
  BY <1>4 DEF MasterWait, CondWait, Goto, MasterInv
<1>5. CASE MasterTest
  <2>1. Full' = Full
    BY <1>5 DEF MasterTest, Full
  <2>2. CASE pc'[Master] # "discard"
    BY <1>5, <2>1, <2>2 DEF MasterTest, Goto, MasterInv, OverloadType
  <2>3. CASE pc'[Master] = "discard"
    <3>1. waiting_requests # <<>> => num' > 0
      BY <1>5, <2>3, ShareFacts, LenProperties DEF MasterTest, Goto
    <3> QED
      BY <1>5, <2>1, <2>3, <3>1 DEF MasterTest, Goto, MasterInv
  <2> QED
    BY <2>2, <2>3
<1>6. CASE MasterForget
  BY <1>6 DEF MasterForget, Goto, MasterInv
<1>7. CASE MasterAdmit
  BY <1>7 DEF MasterAdmit, QueuePush, Goto, MasterInv
<1>8. CASE MasterReject
  BY <1>8 DEF MasterReject, Goto, MasterInv
<1>9. CASE MasterEvict
  BY <1>9 DEF MasterEvict, Goto, MasterInv, Full
<1>10. CASE MasterDiscard
  <2>1. PICK k \in 1 .. Len(waiting_requests) :
          waiting_requests' = QueueRemoveByIndex(waiting_requests, k)
    BY <1>10 DEF MasterDiscard
  <2>2. Len(waiting_requests') = Len(waiting_requests) - 1
    <3>1. waiting_requests \in Seq(Conn)
      OBVIOUS
    <3> HIDE DEF IInv, TypeOK
    <3> QED
      BY <2>1, <3>1, RemoveFacts
  <2>3. ~Full'
    <3>1. Len(waiting_requests) \in Nat /\ Len(running_requests) \in Nat
      BY LenProperties
    <3>2. Len(waiting_requests) + Len(running_requests) <= QueueSize
      BY <3>1 DEF PlaceInv, Reserved
    <3>3. running_requests' = running_requests
      BY <1>10 DEF MasterDiscard
    <3> QED
      BY <2>2, <3>1, <3>2, <3>3 DEF Full
  <2> QED
    BY <1>10, <2>3 DEF MasterDiscard, MasterInv
<1>11. CASE MasterRetest
  <2>1. num = 0
    BY <1>11 DEF MasterRetest, MoreToDiscard
  <2> QED
    BY <1>11, <2>1 DEF MasterRetest, Goto, MasterInv, Full
<1>12. ASSUME NEW w \in Workers, WorkerLock(w) PROVE MasterInv'
  BY <1>0, <1>12 DEF WorkerLock, Goto
<1>13. ASSUME NEW w \in Workers, WorkerTest(w) PROVE MasterInv'
  BY <1>0, <1>13 DEF WorkerTest, CondWait, Goto
<1>14. ASSUME NEW w \in Workers, WorkerPop(w) PROVE MasterInv'
  BY <1>w, <1>14 DEF WorkerPop, Goto
<1>15. ASSUME NEW w \in Workers, WorkerPush(w) PROVE MasterInv'
  BY <1>w, <1>15 DEF WorkerPush, QueuePush, Goto
<1>16. ASSUME NEW w \in Workers, WorkerHandle(w) PROVE MasterInv'
  BY <1>0, <1>16 DEF WorkerHandle, Goto
<1>17. ASSUME NEW w \in Workers, WorkerHandleFails(w) PROVE MasterInv'
  BY <1>0, <1>17 DEF WorkerHandleFails
<1>18. ASSUME NEW w \in Workers, WorkerRelock(w) PROVE MasterInv'
  BY <1>0, <1>18 DEF WorkerRelock, Goto
<1>19. ASSUME NEW w \in Workers, WorkerPopRunning(w) PROVE MasterInv'
  BY <1>w, <1>19 DEF WorkerPopRunning, Goto
<1>20. ASSUME NEW t \in Threads, SpuriousWakeup(t) PROVE MasterInv'
  BY <1>0, <1>20 DEF SpuriousWakeup
<1>21. CASE UNCHANGED vars
  BY <1>0, <1>21 DEF vars
<1> QED
  BY <1>1, <1>2, <1>3, <1>4, <1>5, <1>6, <1>7, <1>8, <1>9, <1>10, <1>11,
     <1>12, <1>13, <1>14, <1>15, <1>16, <1>17, <1>18, <1>19, <1>20, <1>21
  DEF Next, MasterStep, WorkerStep, Environment, Idle, Ended

\* A worker that has closed its connection has served it.
ServedInv ==
  \A w \in Workers : pc[w] \in {"relock", "popRunning"} => conn[w].arrival \in served

LEMMA ServedInvStep == IInv /\ ServedInv /\ [Next]_vars => ServedInv'
<1> SUFFICES ASSUME IInv, ServedInv, [Next]_vars PROVE ServedInv'
  OBVIOUS
<1> USE PoolAssumption DEF IInv, TypeOK, Threads, MasterPcs, WorkerPcs,
    queues, history, faults
\* Whoever is there now was there before, or has just served.
<1>0. ASSUME served \subseteq served',
             \A w \in Workers : pc'[w] \in {"relock", "popRunning"} =>
               /\ conn'[w] = conn[w]
               /\ pc[w] \in {"relock", "popRunning"} \/ conn[w].arrival \in served'
      PROVE  ServedInv'
  BY <1>0 DEF ServedInv
<1>1. CASE MasterStep
  BY <1>0, <1>1
  DEF MasterStep, MasterLock, MasterWait, MasterTest, MasterForget, MasterAdmit,
      MasterReject, MasterEvict, MasterDiscard, MasterRetest, CondWait, Goto
<1>2. ASSUME NEW w \in Workers, WorkerStep(w) PROVE ServedInv'
  BY <1>0, <1>2
  DEF WorkerStep, WorkerLock, WorkerTest, WorkerPop, WorkerPush, WorkerHandle,
      WorkerRelock, WorkerPopRunning, CondWait, Goto
<1>3. CASE Environment
  BY <1>0, <1>3
  DEF Environment, MasterAccept, MasterAcceptFails, SpuriousWakeup,
      WorkerHandleFails, Goto
<1>4. CASE UNCHANGED vars
  BY <1>0, <1>4 DEF vars
<1> QED
  BY <1>1, <1>2, <1>3, <1>4 DEF Next, Idle, Ended

-----------------------------------------------------------------------------
(* The abstract state.                                                     *)

LEMMA WaitingMeaning ==
  IInv => /\ WaitingArrivals \in Seq(Nat)
          /\ Len(WaitingArrivals) = Len(waiting_requests)
          /\ Len(waiting_requests) \in Nat
          /\ DOMAIN WaitingArrivals = 1 .. Len(waiting_requests)
          /\ \A i \in 1 .. Len(waiting_requests) :
               WaitingArrivals[i] = waiting_requests[i].arrival
<1> SUFFICES ASSUME IInv
             PROVE  /\ WaitingArrivals \in Seq(Nat)
                    /\ Len(WaitingArrivals) = Len(waiting_requests)
                    /\ Len(waiting_requests) \in Nat
                    /\ DOMAIN WaitingArrivals = 1 .. Len(waiting_requests)
                    /\ \A i \in 1 .. Len(waiting_requests) :
                         WaitingArrivals[i] = waiting_requests[i].arrival
  OBVIOUS
<1>1. DOMAIN waiting_requests = 1 .. Len(waiting_requests)
  BY LenProperties DEF IInv, TypeOK
<1>2. WaitingArrivals \in [1 .. Len(waiting_requests) -> Nat]
  BY <1>1, FlowTypes DEF WaitingArrivals
<1>3. WaitingArrivals \in Seq(Nat)
  BY <1>2, FlowTypes, SeqDef
<1>4. DOMAIN WaitingArrivals = 1 .. Len(waiting_requests)
  BY <1>2
<1>5. Len(WaitingArrivals) = Len(waiting_requests)
  BY <1>3, <1>4, FlowTypes, LenProperties
<1> QED
  BY <1>1, <1>3, <1>4, <1>5, FlowTypes DEF WaitingArrivals

\* What leaves the queue leaves the abstract queue, at the same place.
LEMMA WaitingWithout ==
  ASSUME IInv, IInv', NEW k \in 1 .. Len(waiting_requests), Without(k)
  PROVE  WaitingArrivals' = RemoveAt(WaitingArrivals, k)
<1>1. (IInv => /\ WaitingArrivals \in Seq(Nat)
               /\ Len(WaitingArrivals) = Len(waiting_requests)
               /\ Len(waiting_requests) \in Nat
               /\ DOMAIN WaitingArrivals = 1 .. Len(waiting_requests)
               /\ \A i \in 1 .. Len(waiting_requests) :
                    WaitingArrivals[i] = waiting_requests[i].arrival)'
  BY WaitingMeaning, PTL
<1>2. /\ QueueRemoveByIndex(WaitingArrivals, k) \in Seq(Nat)
      /\ Len(QueueRemoveByIndex(WaitingArrivals, k)) = Len(waiting_requests) - 1
      /\ \A i \in 1 .. Len(waiting_requests) - 1 :
           QueueRemoveByIndex(WaitingArrivals, k)[i]
             = IF i < k THEN WaitingArrivals[i] ELSE WaitingArrivals[i + 1]
  <2>1. /\ WaitingArrivals \in Seq(Nat) /\ k \in 1 .. Len(WaitingArrivals)
        /\ Len(WaitingArrivals) = Len(waiting_requests)
    BY WaitingMeaning
  <2> QED
    BY <2>1, RemoveFacts
<1>3. /\ Len(waiting_requests') = Len(waiting_requests) - 1
      /\ \A i \in 1 .. Len(waiting_requests') :
           /\ Old(k, i) \in 1 .. Len(waiting_requests)
           /\ waiting_requests'[i] = waiting_requests[Old(k, i)]
  BY WithoutSelects DEF Without
<1>4. ASSUME NEW i \in 1 .. Len(WaitingArrivals')
      PROVE  WaitingArrivals'[i] = QueueRemoveByIndex(WaitingArrivals, k)[i]
  <2>1. i \in 1 .. Len(waiting_requests') /\ i \in 1 .. Len(waiting_requests) - 1
    BY <1>1, <1>3
  <2>2. WaitingArrivals'[i] = WaitingArrivals[Old(k, i)]
    BY <1>1, <1>3, <2>1, WaitingMeaning
  <2> QED
    BY <1>2, <2>1, <2>2 DEF Old
<1>5. WaitingArrivals' \in Seq(Nat)
      /\ Len(WaitingArrivals') = Len(QueueRemoveByIndex(WaitingArrivals, k))
  BY <1>1, <1>2, <1>3
<1>6. WaitingArrivals' = QueueRemoveByIndex(WaitingArrivals, k)
  BY <1>2, <1>4, <1>5, SeqEqual
<1> QED
  BY <1>6 DEF QueueRemoveByIndex

\* The same of the first entry, as Head and Tail say it.
LEMMA WaitingTail ==
  ASSUME IInv, IInv', Len(waiting_requests) > 0, Without(1)
  PROVE  /\ WaitingArrivals # <<>>
         /\ Head(WaitingArrivals) = waiting_requests[1].arrival
         /\ WaitingArrivals' = Tail(WaitingArrivals)
<1>1. 1 \in 1 .. Len(waiting_requests)
  BY WaitingMeaning
<1>2. WaitingArrivals # <<>>
  BY WaitingMeaning, EmptySeq
<1>3. Head(WaitingArrivals) = waiting_requests[1].arrival
  BY <1>1, <1>2, WaitingMeaning
<1>4. WaitingArrivals' = QueueRemoveByIndex(WaitingArrivals, 1)
  BY <1>1, WaitingWithout DEF QueueRemoveByIndex
<1>5. Tail(WaitingArrivals) = QueueRemoveByIndex(WaitingArrivals, 1)
  <2> DEFINE t == Tail(WaitingArrivals)
             r == QueueRemoveByIndex(WaitingArrivals, 1)
  <2>1. /\ t \in Seq(Nat) /\ Len(t) = Len(WaitingArrivals) - 1
        /\ \A i \in 1 .. Len(t) : t[i] = WaitingArrivals[i + 1]
    BY <1>2, WaitingMeaning, HeadTailProperties
  <2>2. /\ r \in Seq(Nat) /\ Len(r) = Len(WaitingArrivals) - 1
        /\ \A i \in 1 .. Len(WaitingArrivals) - 1 :
             r[i] = IF i < 1 THEN WaitingArrivals[i] ELSE WaitingArrivals[i + 1]
    <3>1. WaitingArrivals \in Seq(Nat) /\ 1 \in 1 .. Len(WaitingArrivals)
      BY <1>1, WaitingMeaning
    <3> QED
      BY <3>1, RemoveFacts
  <2> HIDE DEF t, r
  <2>3. \A i \in 1 .. Len(t) : t[i] = r[i]
    BY <2>1, <2>2
  <2> QED
    BY <2>1, <2>2, <2>3, SeqEqual DEF t, r
<1> QED
  BY <1>2, <1>3, <1>4, <1>5

LEMMA WaitingAppend ==
  ASSUME IInv, IInv', Queues
  PROVE  WaitingArrivals' = Append(WaitingArrivals, conn[Master].arrival)
<1> DEFINE a == conn[Master].arrival
<1>1. (IInv => /\ WaitingArrivals \in Seq(Nat)
               /\ Len(WaitingArrivals) = Len(waiting_requests)
               /\ Len(waiting_requests) \in Nat
               /\ DOMAIN WaitingArrivals = 1 .. Len(waiting_requests)
               /\ \A i \in 1 .. Len(waiting_requests) :
                    WaitingArrivals[i] = waiting_requests[i].arrival)'
  BY WaitingMeaning, PTL
<1>2. a \in Nat
  BY FlowTypes DEF Queues
<1>3. /\ Append(WaitingArrivals, a) \in Seq(Nat)
      /\ Len(Append(WaitingArrivals, a)) = Len(waiting_requests) + 1
      /\ \A i \in 1 .. Len(waiting_requests) : Append(WaitingArrivals, a)[i] = WaitingArrivals[i]
      /\ Append(WaitingArrivals, a)[Len(waiting_requests) + 1] = a
  BY <1>2, WaitingMeaning, AppendProperties
<1>4. ASSUME NEW i \in 1 .. Len(WaitingArrivals')
      PROVE  WaitingArrivals'[i] = Append(WaitingArrivals, a)[i]
  <2>1. i \in 1 .. Len(waiting_requests) \/ i = Len(waiting_requests) + 1
    BY <1>1, WaitingMeaning DEF Queues
  <2>2. WaitingArrivals'[i] = waiting_requests'[i].arrival
    BY <1>1
  <2> QED
    BY <1>3, <2>1, <2>2, WaitingMeaning DEF Queues
<1>5. WaitingArrivals' \in Seq(Nat) /\ Len(WaitingArrivals') = Len(Append(WaitingArrivals, a))
  BY <1>1, <1>3 DEF Queues
<1> HIDE DEF a
<1>6. WaitingArrivals' = Append(WaitingArrivals, a)
  BY <1>3, <1>4, <1>5, SeqEqual
<1> QED
  BY <1>6 DEF a

LEMMA PendingMeaning ==
  PendingArrivals = IF conn[Master] = NoConn THEN {} ELSE {conn[Master].arrival}
  BY DEF PendingArrivals

\* The workers that occupy a place are those with a connection.
LEMMA OccupiedMeaning == IInv => Occupied = Carriers \ {Master}
  BY PoolAssumption DEF IInv, TypeOK, ConnInv, WorkerPcs, Occupied, Carriers, Threads

\* Different workers are active with different connections.
LEMMA ActiveCount ==
  ASSUME IInv, OrderInv
  PROVE  /\ IsFiniteSet(ActiveArrivals) /\ IsFiniteSet(Occupied)
         /\ Cardinality(ActiveArrivals) = Cardinality(Occupied)
<1> DEFINE f == [w \in Occupied |-> conn[w].arrival]
<1>1. IsFiniteSet(Occupied)
  <2>1. Occupied \in SUBSET Workers
    BY DEF Occupied
  <2> QED
    BY <2>1, PoolAssumption, FS_Subset
<1>2. f \in Surjection(Occupied, ActiveArrivals)
  BY DEF Surjection, ActiveArrivals
<1>3. f \in Injection(Occupied, ActiveArrivals)
  <2>1. \A v, w \in Occupied : conn[v].arrival = conn[w].arrival => v = w
    BY OccupiedMeaning DEF OrderInv, WorkersDiffer
  <2> QED
    BY <1>2, <2>1 DEF Injection, IsInjective, Surjection
<1> QED
  BY <1>1, <1>2, <1>3, FS_Surjection

\* The load, as the master sees it from inside its critical section.
LEMMA LoadMeaning ==
  ASSUME IInv, OrderInv, RunningCount, MasterInv, m = Master
  PROVE  Admission!Load = Len(waiting_requests) + Len(running_requests)
<1>1. Occupied = Busy
  BY PoolAssumption DEF IInv, MutexInv, CriticalPcs, Threads, Occupied, Busy
<1>2. Cardinality(Busy) = Len(running_requests)
  <2>1. oom = 0 /\ Len(running_requests) \in Nat
    BY LenProperties DEF MasterInv, IInv, TypeOK
  <2> QED
    BY <2>1, BusyFinite DEF RunningCount
<1>3. Cardinality(ActiveArrivals) = Len(running_requests)
  BY <1>1, <1>2, ActiveCount
<1>4. Admission!Cardinality(ActiveArrivals) = Cardinality(ActiveArrivals)
  BY DEF Admission!Cardinality, Cardinality
<1> QED
  BY <1>3, <1>4, WaitingMeaning DEF Admission!Load

-----------------------------------------------------------------------------
(* The simulation, one abstract action after the other.                    *)

\* The invariants of the thread pool that the simulation uses.
SimInv ==
  IInv /\ OrderInv /\ AccountedInv /\ RunningCount /\ MasterInv /\ ServedInv

\* At a pc between the master's lock and unlock, Full is what AdmissionControl
\* means by it.
LEMMA FullMeaning ==
  ASSUME SimInv, pc[Master] \in CriticalPcs
  PROVE  /\ m = Master
         /\ Full <=> Admission!Load >= QueueSize
         /\ Admission!Load \in Nat
<1>1. m = Master
  BY DEF SimInv, IInv, MutexInv, Threads
<1>2. Admission!Load = Len(waiting_requests) + Len(running_requests)
  BY <1>1, LoadMeaning DEF SimInv
<1> QED
  BY <1>1, <1>2, PoolAssumption, LenProperties DEF Full, SimInv, IInv, TypeOK

\* What the abstract variables look like when their concrete ones do not change.
LEMMA ActiveKept ==
  ASSUME Occupied' = Occupied, \A w \in Occupied : conn'[w] = conn[w]
  PROVE  ActiveArrivals' = ActiveArrivals
  BY DEF ActiveArrivals

LEMMA WaitingKept ==
  ASSUME waiting_requests' = waiting_requests PROVE WaitingArrivals' = WaitingArrivals
  BY DEF WaitingArrivals

LEMMA PendingKept ==
  ASSUME conn'[Master] = conn[Master] PROVE PendingArrivals' = PendingArrivals
  BY DEF PendingArrivals

LEMMA SimArrive ==
  ASSUME SimInv, MasterAccept PROVE Admission!Arrive
<1> USE PoolAssumption DEF SimInv, IInv, TypeOK, Threads, queues, history, faults
<1>1. PICK fd \in Fds \ open :
        conn' = [conn EXCEPT ![Master] = [data |-> fd, arrival |-> accepted + 1]]
  BY DEF MasterAccept
<1>2. [data |-> fd, arrival |-> accepted + 1] \in Conn
  BY DEF Conn
<1>3. PendingArrivals = {}
  BY PendingMeaning DEF MasterAccept, ConnInv
<1>4. PendingArrivals' = {accepted + 1}
  BY <1>1, <1>2 DEF PendingArrivals, Conn
<1>5. Occupied' = Occupied /\ \A w \in Occupied : conn'[w] = conn[w]
  BY <1>1 DEF MasterAccept, Goto, Occupied
<1>6. ActiveArrivals' = ActiveArrivals
  BY <1>5, ActiveKept
<1>7. WaitingArrivals' = WaitingArrivals
  BY WaitingKept DEF MasterAccept
<1> QED
  BY <1>3, <1>4, <1>6, <1>7 DEF MasterAccept, Admission!Arrive

LEMMA SimAdmit ==
  ASSUME MaxOOM = 0, SimInv, IInv', MasterAdmit PROVE Admission!Admit
<1> USE PoolAssumption DEF SimInv, IInv, TypeOK, Threads, queues, history, faults
<1>1. /\ waiting_requests' = Append(waiting_requests, conn[Master])
      /\ lost' = lost
  BY DEF MasterAdmit, QueuePush, MasterInv
<1>2. conn[Master] \in Conn /\ conn'[Master] = NoConn
  BY DEF MasterAdmit, ConnInv
<1>3. Queues
  <2>1. /\ Len(waiting_requests') = Len(waiting_requests) + 1
        /\ \A i \in 1 .. Len(waiting_requests) : waiting_requests'[i] = waiting_requests[i]
        /\ waiting_requests'[Len(waiting_requests) + 1] = conn[Master]
    BY <1>1, <1>2, AppendProperties
  <2>2. /\ Master \in Holders /\ Holders' = Holders \ {Master}
        /\ Carriers' = Carriers \ {Master} /\ \A t \in Carriers' : conn'[t] = conn[t]
    BY DEF MasterAdmit, ConnInv, Goto, Holders, Carriers
  <2> QED
    BY <1>1, <2>1, <2>2 DEF MasterAdmit, Queues
<1>4. WaitingArrivals' = Append(WaitingArrivals, conn[Master].arrival)
  BY <1>3, WaitingAppend
<1>5. PendingArrivals = {conn[Master].arrival} /\ PendingArrivals' = {}
  BY <1>2 DEF PendingArrivals, MasterAdmit, ConnInv
<1>6. Occupied' = Occupied /\ \A w \in Occupied : conn'[w] = conn[w]
  BY DEF MasterAdmit, Goto, Occupied
<1>7. ActiveArrivals' = ActiveArrivals
  BY <1>6, ActiveKept
<1>8. num = 0
  BY DEF MasterAdmit, MasterInv
<1>9. Admission!Load < QueueSize
  <2>1. ~Full
    <3>1. Len(waiting_requests) \in Nat /\ Len(running_requests) \in Nat
      BY LenProperties
    <3> QED
      BY <3>1 DEF MasterAdmit, PlaceInv, Full
  <2> QED
    BY <2>1, FullMeaning DEF MasterAdmit, CriticalPcs
<1> QED
  BY <1>4, <1>5, <1>7, <1>8, <1>9 DEF MasterAdmit, Admission!Admit

LEMMA SimRefuse ==
  ASSUME SimInv, MasterReject PROVE Admission!Refuse
<1> USE PoolAssumption DEF SimInv, IInv, TypeOK, Threads, queues, history, faults
<1>1. PendingArrivals = {conn[Master].arrival} /\ PendingArrivals' = {}
  BY DEF PendingArrivals, MasterReject, ConnInv
<1>2. Occupied' = Occupied /\ \A w \in Occupied : conn'[w] = conn[w]
  BY DEF MasterReject, Goto, Occupied
<1>3. ActiveArrivals' = ActiveArrivals
  BY <1>2, ActiveKept
<1>4. WaitingArrivals' = WaitingArrivals
  BY WaitingKept DEF MasterReject
<1>5. num = 0
  BY DEF MasterReject, MasterInv
<1>6. Admission!Load >= QueueSize
  BY FullMeaning DEF MasterReject, MasterInv, CriticalPcs
<1>7. waiting_requests = <<>> => WaitingArrivals = <<>>
  <2>1. Len(waiting_requests) = 0 => WaitingArrivals = <<>>
    BY WaitingMeaning, EmptySeq
  <2> QED
    BY <2>1, EmptySeq
<1> QED
  BY <1>1, <1>3, <1>4, <1>5, <1>6, <1>7 DEF MasterReject, MasterInv, Admission!Refuse

LEMMA SimEvict ==
  ASSUME SimInv, IInv', MasterEvict, waiting_requests # <<>> PROVE Admission!EvictOldest
<1> USE PoolAssumption DEF SimInv, IInv, TypeOK, Threads, queues, history, faults
<1>1. /\ Without(1) /\ Len(waiting_requests) > 0
      /\ Head(waiting_requests) = waiting_requests[1]
  BY PopFacts, LenProperties DEF MasterEvict, Without
<1>2. /\ WaitingArrivals # <<>>
      /\ Head(WaitingArrivals) = waiting_requests[1].arrival
      /\ WaitingArrivals' = Tail(WaitingArrivals)
  BY <1>1, WaitingTail
<1>3. Occupied' = Occupied /\ \A w \in Occupied : conn'[w] = conn[w]
  BY DEF MasterEvict, Goto, Occupied
<1>4. ActiveArrivals' = ActiveArrivals
  BY <1>3, ActiveKept
<1>5. PendingArrivals' = PendingArrivals /\ PendingArrivals # {}
  BY PendingMeaning, PendingKept DEF MasterEvict, ConnInv
<1>6. schedalg = "DROP_HEAD" /\ Admission!Load >= QueueSize
  BY FullMeaning DEF MasterEvict, MasterInv, CriticalPcs
<1> QED
  BY <1>1, <1>2, <1>4, <1>5, <1>6 DEF MasterEvict, Admission!EvictOldest

LEMMA SimDropOne ==
  ASSUME SimInv, IInv', MasterDiscard PROVE Admission!DropOne
<1> USE PoolAssumption DEF SimInv, IInv, TypeOK, Threads, queues, history, faults
<1>1. PICK k \in 1 .. Len(waiting_requests) :
        /\ shed' = shed \cup {waiting_requests[k].arrival}
        /\ waiting_requests' = QueueRemoveByIndex(waiting_requests, k)
  BY DEF MasterDiscard
<1>2. Without(k)
  <2>1. waiting_requests \in Seq(Conn)
    OBVIOUS
  <2> HIDE DEF SimInv, IInv, TypeOK
  <2> QED
    BY <1>1, <2>1, RemoveFacts DEF Without
<1>3. WaitingArrivals' = RemoveAt(WaitingArrivals, k)
  BY <1>2, WaitingWithout
<1>4. k \in DOMAIN WaitingArrivals /\ WaitingArrivals[k] = waiting_requests[k].arrival
  BY WaitingMeaning
<1>5. ActiveArrivals' = ActiveArrivals
  BY ActiveKept DEF MasterDiscard, Occupied
<1>6. PendingArrivals' = PendingArrivals
  BY PendingKept DEF MasterDiscard
<1>7. Admission!RemoveAt(WaitingArrivals, k) = RemoveAt(WaitingArrivals, k)
  BY DEF Admission!RemoveAt, RemoveAt
<1> QED
  BY <1>1, <1>3, <1>4, <1>5, <1>6, <1>7 DEF MasterDiscard, MoreToDiscard, Admission!DropOne

LEMMA SimDispatch ==
  ASSUME SimInv, IInv', NEW w \in Workers, WorkerPop(w) PROVE Admission!Dispatch
<1> USE PoolAssumption DEF SimInv, IInv, TypeOK, Threads, queues, history, faults
<1>1. waiting_requests # <<>>
  BY DEF WorkerPop, PopInv
<1>2. /\ Without(1) /\ Len(waiting_requests) > 0
      /\ Head(waiting_requests) = waiting_requests[1]
  BY <1>1, PopFacts, LenProperties DEF WorkerPop, Without
<1>3. /\ WaitingArrivals # <<>>
      /\ Head(WaitingArrivals) = waiting_requests[1].arrival
      /\ WaitingArrivals' = Tail(WaitingArrivals)
  BY <1>2, WaitingTail
<1>4. /\ Occupied' = Occupied \cup {w} /\ w \notin Occupied
      /\ conn'[w] = waiting_requests[1]
      /\ \A v \in Occupied : conn'[v] = conn[v]
  BY <1>2 DEF WorkerPop, Goto, Occupied
<1>5. ActiveArrivals' = ActiveArrivals \cup {Head(WaitingArrivals)}
  BY <1>3, <1>4 DEF ActiveArrivals
<1>6. waiting_requests[1].arrival \notin served
  <2>1. 1 \in 1 .. Len(waiting_requests)
    BY <1>2, LenProperties
  <2>2. waiting_requests[1].arrival \in Waits
    BY <2>1, PlacesMeaning
  <2> QED
    BY <2>2 DEF AccountedInv
<1>7. served' \ ActiveArrivals' = served \ ActiveArrivals
  BY <1>3, <1>5, <1>6 DEF WorkerPop
<1>8. PendingArrivals' = PendingArrivals
  BY PendingKept DEF WorkerPop
<1>9. num = 0
  BY DEF WorkerPop, MasterInv, MutexInv, CriticalPcs
<1>10. Admission!Cardinality(ActiveArrivals) < Cardinality(Workers)
  <2>1. Occupied \in SUBSET Workers /\ Occupied # Workers
    BY <1>4 DEF Occupied
  <2>2. Cardinality(Occupied) < Cardinality(Workers)
    BY <2>1, FS_Subset, FS_CardinalityType, SMTT(60)
  <2>3. Cardinality(ActiveArrivals) = Cardinality(Occupied)
    BY ActiveCount
  <2>4. Admission!Cardinality(ActiveArrivals) = Cardinality(ActiveArrivals)
    BY DEF Admission!Cardinality, Cardinality
  <2> QED
    BY <2>2, <2>3, <2>4
<1> QED
  BY <1>3, <1>5, <1>7, <1>8, <1>9, <1>10 DEF WorkerPop, Admission!Dispatch

LEMMA SimComplete ==
  ASSUME SimInv, NEW w \in Workers, WorkerPopRunning(w) PROVE Admission!Complete
<1> USE PoolAssumption DEF SimInv, IInv, TypeOK, Threads, queues, history, faults
<1>1. /\ w \in Occupied /\ Occupied' = Occupied \ {w}
      /\ \A v \in Occupied' : conn'[v] = conn[v]
  BY DEF WorkerPopRunning, Goto, Occupied
<1>2. \A v \in Occupied : v # w => conn[v].arrival # conn[w].arrival
  BY <1>1, OccupiedMeaning DEF OrderInv, WorkersDiffer
<1>3. conn[w].arrival \in ActiveArrivals /\ ActiveArrivals' = ActiveArrivals \ {conn[w].arrival}
  BY <1>1, <1>2 DEF ActiveArrivals
<1>4. conn[w].arrival \in served /\ served' = served
  BY DEF WorkerPopRunning, ServedInv
<1>5. served' \ ActiveArrivals' = (served \ ActiveArrivals) \cup {conn[w].arrival}
  BY <1>3, <1>4
<1>6. PendingArrivals' = PendingArrivals /\ WaitingArrivals' = WaitingArrivals
  BY PendingKept, WaitingKept DEF WorkerPopRunning
<1> QED
  BY <1>3, <1>5, <1>6 DEF WorkerPopRunning, Admission!Complete

\* Whatever changes neither connections nor places is no step of the abstract server.
LEMMA SimStutter ==
  ASSUME UNCHANGED <<schedalg, accepted, conn, waiting_requests, shed, num>>,
         Occupied' = Occupied,
         served' \ ActiveArrivals = served \ ActiveArrivals
  PROVE  UNCHANGED Admission!vars
<1>1. ActiveArrivals' = ActiveArrivals /\ PendingArrivals' = PendingArrivals
      /\ WaitingArrivals' = WaitingArrivals
  BY ActiveKept, PendingKept, WaitingKept
<1> QED
  BY <1>1 DEF Admission!vars

LEMMA SimOverload ==
  ASSUME SimInv, MasterTest PROVE [Admission!Next]_(Admission!vars)
<1> USE PoolAssumption DEF SimInv, IInv, TypeOK, Threads, queues, history, faults
<1>1. Occupied' = Occupied /\ UNCHANGED <<schedalg, accepted, conn, waiting_requests, shed, served>>
  BY DEF MasterTest, Goto, Occupied
<1>2. CASE num' = num
  BY <1>1, <1>2, SimStutter
<1>3. CASE num' # num
  <2> DEFINE size == Len(waiting_requests)
  <2>1. /\ schedalg = "DROP_RAND" /\ Full
        /\ num' = IF DiscardCount(size) < size THEN DiscardCount(size) ELSE size
    BY <1>3 DEF MasterTest
  <2>2. num = 0
    BY DEF MasterTest, MasterInv
  <2>3. waiting_requests # <<>>
    <3> SUFFICES ASSUME waiting_requests = <<>> PROVE num' = 0
      BY <1>3, <2>2
    <3>1. size = 0
      BY EmptySeq
    <3>2. DiscardCount(0) \in {0, 1}
      <4>1. 0 \in 0 .. QueueSize /\ ThirtyPercent(0) = 0
        BY DEF ThirtyPercent
      <4> QED
        BY <4>1, ShareAssumption
    <3> QED
      BY <2>1, <3>1, <3>2
  <2>4. num' \in 1 .. size /\ num' - ThirtyPercent(size) \in {0, 1}
    BY <2>1, <2>3, ShareFacts
  <2>5. Len(WaitingArrivals) = size /\ WaitingArrivals # <<>>
    BY <2>3, WaitingMeaning, EmptySeq
  <2>6. Admission!Load >= QueueSize
    BY <2>1, FullMeaning DEF MasterTest, CriticalPcs
  <2>7. PendingArrivals # {}
    BY PendingMeaning DEF MasterTest, ConnInv
  <2>8. ActiveArrivals' = ActiveArrivals /\ PendingArrivals' = PendingArrivals
        /\ WaitingArrivals' = WaitingArrivals
    BY <1>1, ActiveKept, PendingKept, WaitingKept
  <2>9. Admission!ThirtyPercent(size) = ThirtyPercent(size)
    BY DEF Admission!ThirtyPercent, ThirtyPercent
  <2> HIDE DEF size
  <2>10. Admission!Overload
    BY <1>1, <2>1, <2>2, <2>4, <2>5, <2>6, <2>7, <2>8, <2>9 DEF Admission!Overload
  <2> QED
    BY <2>10 DEF Admission!Next
<1> QED
  BY <1>2, <1>3

\* Every step of the threads is a step of the abstract server, or none.
LEMMA SimStep ==
  ASSUME MaxOOM = 0
  PROVE  SimInv /\ SimInv' /\ [Next]_vars => [Admission!Next]_(Admission!vars)
<1> SUFFICES ASSUME SimInv, IInv', [Next]_vars
             PROVE  [Admission!Next]_(Admission!vars)
  BY DEF SimInv
<1> DEFINE Goal == [Admission!Next]_(Admission!vars)
<1> USE DEF queues, history, faults
<1>0. ASSUME UNCHANGED <<schedalg, accepted, conn, waiting_requests, shed, num, served>>,
             Occupied' = Occupied
      PROVE  Goal
  BY <1>0, SimStutter
\* A change of pc that leaves a worker where it holds a place, or does not.
<1>t. /\ pc \in [Threads -> MasterPcs \cup WorkerPcs] /\ Master \notin Workers
      /\ Threads = Workers \cup {Master}
  BY PoolAssumption DEF SimInv, IInv, TypeOK, Threads
<1>1. CASE MasterAccept
  BY <1>1, SimArrive DEF Admission!Next
<1>2. CASE MasterAcceptFails
  BY <1>0, <1>2 DEF MasterAcceptFails, Occupied
<1>3. CASE MasterLock
  BY <1>0, <1>t, <1>3 DEF MasterLock, Goto, Occupied
<1>4. CASE MasterWait
  BY <1>0, <1>t, <1>4 DEF MasterWait, CondWait, Goto, Occupied
<1>5. CASE MasterTest
  BY <1>5, SimOverload
<1>6. CASE MasterForget
  BY <1>6 DEF MasterForget, SimInv, MasterInv
<1>7. CASE MasterAdmit
  BY <1>7, SimAdmit DEF Admission!Next
<1>8. CASE MasterReject
  BY <1>8, SimRefuse DEF Admission!Next
<1>9. CASE MasterEvict
  <2>1. CASE waiting_requests # <<>>
    BY <1>9, <2>1, SimEvict DEF Admission!Next
  <2>2. CASE waiting_requests = <<>>
    BY <1>0, <1>t, <1>9, <2>2 DEF MasterEvict, Goto, Occupied
  <2> QED
    BY <2>1, <2>2
<1>10. CASE MasterDiscard
  BY <1>10, SimDropOne DEF Admission!Next
<1>11. CASE MasterRetest
  BY <1>0, <1>t, <1>11 DEF MasterRetest, Goto, Occupied
<1>12. ASSUME NEW w \in Workers, WorkerLock(w) PROVE Goal
  BY <1>0, <1>t, <1>12 DEF WorkerLock, Goto, Occupied
<1>13. ASSUME NEW w \in Workers, WorkerTest(w) PROVE Goal
  BY <1>0, <1>t, <1>13 DEF WorkerTest, CondWait, Goto, Occupied
<1>14. ASSUME NEW w \in Workers, WorkerPop(w) PROVE Goal
  BY <1>14, SimDispatch DEF Admission!Next
<1>15. ASSUME NEW w \in Workers, WorkerPush(w) PROVE Goal
  BY <1>0, <1>t, <1>15 DEF WorkerPush, Goto, Occupied
<1>16. ASSUME NEW w \in Workers, WorkerHandle(w) PROVE Goal
  <2>1. w \in Occupied /\ Occupied' = Occupied
    BY <1>t, <1>16 DEF WorkerHandle, Goto, Occupied
  <2>2. served' = served \cup {conn[w].arrival} /\ conn[w].arrival \in ActiveArrivals
    BY <1>16, <2>1 DEF WorkerHandle, ActiveArrivals
  <2>3. UNCHANGED <<schedalg, accepted, conn, waiting_requests, shed, num>>
    BY <1>16 DEF WorkerHandle
  <2> QED
    BY <2>1, <2>2, <2>3, SimStutter
<1>17. ASSUME NEW w \in Workers, WorkerHandleFails(w) PROVE Goal
  BY <1>0, <1>17 DEF WorkerHandleFails, Occupied
<1>18. ASSUME NEW w \in Workers, WorkerRelock(w) PROVE Goal
  BY <1>0, <1>t, <1>18 DEF WorkerRelock, Goto, Occupied
<1>19. ASSUME NEW w \in Workers, WorkerPopRunning(w) PROVE Goal
  BY <1>19, SimComplete DEF Admission!Next
<1>20. ASSUME NEW t \in Threads, SpuriousWakeup(t) PROVE Goal
  BY <1>0, <1>20 DEF SpuriousWakeup, Occupied
<1>21. CASE UNCHANGED vars
  BY <1>0, <1>21 DEF vars, Occupied
<1> QED
  BY <1>1, <1>2, <1>3, <1>4, <1>5, <1>6, <1>7, <1>8, <1>9, <1>10, <1>11,
     <1>12, <1>13, <1>14, <1>15, <1>16, <1>17, <1>18, <1>19, <1>20, <1>21
  DEF Next, MasterStep, WorkerStep, Environment, Idle, Ended

LEMMA SimInit == Presumed => (Init => Admission!Init /\ MasterInv /\ ServedInv)
<1> SUFFICES ASSUME Presumed, Init PROVE Admission!Init /\ MasterInv /\ ServedInv
  OBVIOUS
<1>1. PICK arg \in SchedArgs : schedalg \in GetArgs(arg)
  BY DEF Init
<1>2. schedalg \in OverloadType
  BY <1>1 DEF Presumed, GetArgs, PolicyNames, OverloadType
<1>3. \A t \in Threads : conn[t] = NoConn /\ pc[t] = IF t = Master THEN "accept" ELSE "lock"
  BY DEF Init
<1>4. PendingArrivals = {} /\ ActiveArrivals = {}
  BY <1>3, PoolAssumption DEF PendingArrivals, ActiveArrivals, Occupied, Threads
<1>5. WaitingArrivals = <<>>
  <2>1. Len(waiting_requests) = 0
    BY EmptySeq DEF Init
  <2> QED
    BY <2>1, InitIInv, WaitingMeaning, EmptySeq
<1>6. Admission!Init
  BY <1>1, <1>4, <1>5 DEF Init, Admission!Init
<1> QED
  BY <1>2, <1>3, <1>6, PoolAssumption DEF Init, MasterInv, ServedInv, Threads

\* Threads, mutex and condition variable do what AdmissionControl says, whichever
\* thread runs when, wherever malloc does not fail and the policy is one of the four.
THEOREM PoolImplementsAdmission == Presumed => (Spec => ImplementsAdmission)
<1> SUFFICES ASSUME Presumed PROVE Spec => ImplementsAdmission
  OBVIOUS
<1>1. Init => Admission!Init /\ MasterInv /\ ServedInv
  BY SimInit
<1>2. IInv /\ MasterInv /\ [Next]_vars => MasterInv'
  BY MasterInvStep DEF Presumed
<1>3. IInv /\ ServedInv /\ [Next]_vars => ServedInv'
  BY ServedInvStep
<1>4. IInv /\ OrderInv /\ AccountedInv /\ RunningCount /\ MasterInv /\ ServedInv => SimInv
  BY DEF SimInv
<1>5. SimInv /\ SimInv' /\ [Next]_vars => [Admission!Next]_(Admission!vars)
  BY SimStep DEF Presumed
<1> QED
  BY <1>1, <1>2, <1>3, <1>4, <1>5, IInvHolds, OrderInvHolds, AccountedHolds,
     RunningCounted, PTL DEF Spec, ImplementsAdmission, Admission!Spec
=============================================================================
