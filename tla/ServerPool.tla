------------------------------ MODULE ServerPool ------------------------------
(***************************************************************************)
(* The web server's thread pool (hw3/webserver-files/server.c on top of    *)
(* queue.c): a master thread that accepts connections and applies the      *)
(* overload policy, worker threads that handle them, two queues, and ONE   *)
(* mutex m and ONE condition variable c shared by everybody.               *)
(*                                                                         *)
(* A connection is the record [data |-> descriptor, arrival |-> a], the    *)
(* fields of queue.h's Node; the arrival time is its position in the order *)
(* of Accept, which also serves as the connection's identity.  Descriptors *)
(* are reused by the kernel as soon as they are closed.                    *)
(*                                                                         *)
(* Statements inside a critical section are separate steps: that nobody    *)
(* runs between a test and the action it guards is something the mutex     *)
(* provides, not something the model grants.                               *)
(***************************************************************************)
EXTENDS Naturals, FiniteSets, SequencesExt, DiscardShare

CONSTANTS
  Workers,     \* the worker threads, threads[0..threads_num-1]
  Master,      \* the thread running main()
  NoThread,    \* the value of m when the mutex is free
  Fds,         \* the connection descriptors the process may have open
  NoConn,      \* the value of conn[t] between two connections
  QueueSize,   \* the command line's queue_size
  SchedArgs,   \* the command line's schedalg strings considered
  MaxConn,     \* bound: how many connections arrive
  MaxOOM,      \* bound: how many times malloc() fails in queuePush
  MaxSpurious, \* bound: how many spurious wakeups of pthread_cond_wait
  IOErrors     \* whether a system call inside requestHandle may fail

OverloadType == {"BLOCK", "DROP_TAIL", "DROP_RAND", "DROP_HEAD"}

ASSUME PoolAssumption ==
  /\ Workers # {} /\ IsFiniteSet(Workers)
  /\ Master \notin Workers
  /\ NoThread \notin Workers \cup {Master}
  /\ IsFiniteSet(Fds)
  /\ NoConn \notin [data : Fds, arrival : Nat]
  /\ QueueSize \in Nat
  /\ MaxConn \in Nat /\ MaxOOM \in Nat /\ MaxSpurious \in Nat
  /\ IOErrors \in BOOLEAN

\* Up to queue_size requests, single precision is good enough to discard thirty
\* per cent of them, or one more (ShareIsThirtyPercent has sizes up to 200).
ASSUME ShareAssumption ==
  \A n \in 0 .. QueueSize :
    DiscardCount(n) \in {ThirtyPercent(n), ThirtyPercent(n) + 1}

Threads == Workers \cup {Master}

\* Where main() and thread_routine() may be.  The names stand for the statement
\* that comes next; "wait" is pthread_cond_wait.
CriticalPcs ==
  {"test", "admit", "reject", "evict", "discard", "pop", "push", "popRunning"}
MasterPcs ==
  {"accept", "lock", "wait", "test", "admit", "reject", "evict", "discard"}
WorkerPcs ==
  {"lock", "wait", "test", "pop", "push", "handle", "relock", "popRunning"}
Conn == [data : Fds, arrival : Nat]

VARIABLES
  schedalg,          \* the policy in force; "unset" is a garbage enum value
  m,                 \* the thread that holds the mutex, or NoThread
  sleeping,          \* the threads blocked in pthread_cond_wait(&c, &m)
  pc,                \* where each thread is
  conn,              \* the connection in a thread's local variables
  waiting_requests,  \* the queue of connections nobody handles yet
  running_requests,  \* the queue that counts the connections being handled
  num,               \* queueDiscardX's loop counter
  open,              \* the open connection descriptors
  accepted,          \* how many connections have been accepted
  served,            \* history: arrivals handled and closed by a worker
  shed,              \* history: arrivals closed by the overload policy
  lost,              \* history: arrivals nobody will ever close
  oom,               \* how many times malloc() has failed
  spurious,          \* how many spurious wakeups have happened
  exited             \* the call whose unix_error() ended the program, or "no"

queues == <<waiting_requests, running_requests>>
history == <<served, shed, lost>>
faults == <<oom, spurious>>
vars == <<schedalg, m, sleeping, pc, conn, queues, num, open, accepted,
          history, faults, exited>>

-----------------------------------------------------------------------------
(***************************************************************************)
(* main() up to the accept loop.  An unknown schedalg string is reported   *)
(* but the program goes on with an uninitialised enum, which may hold any  *)
(* value.                                                                  *)
(***************************************************************************)
PolicyNames ==
  [block |-> "BLOCK", dt |-> "DROP_TAIL", dh |-> "DROP_HEAD", random |-> "DROP_RAND"]

GetArgs(arg) ==
  IF arg \in DOMAIN PolicyNames
  THEN {PolicyNames[arg]}
  ELSE OverloadType \cup {"unset"}

Init ==
  /\ \E arg \in SchedArgs : schedalg \in GetArgs(arg)
  /\ m = NoThread
  /\ sleeping = {}
  /\ pc = [t \in Threads |-> IF t = Master THEN "accept" ELSE "lock"]
  /\ conn = [t \in Threads |-> NoConn]
  /\ waiting_requests = <<>>
  /\ running_requests = <<>>
  /\ num = 0
  /\ open = {}
  /\ accepted = 0
  /\ served = {} /\ shed = {} /\ lost = {}
  /\ oom = 0 /\ spurious = 0
  /\ exited = "no"

-----------------------------------------------------------------------------
(* The mutex and the condition variable (external: pthreads).              *)

Goto(t, l) == pc' = [pc EXCEPT ![t] = l]

\* pthread_mutex_lock, and the reacquisition at the end of pthread_cond_wait.
Lock(t) == m = NoThread /\ m' = t

Unlock == m' = NoThread

\* Atomically releases m and blocks on c.
CondWait(t) == m' = NoThread /\ sleeping' = sleeping \cup {t} /\ Goto(t, "wait")

\* Wakes one of the blocked threads, whichever, if there is one.
CondSignal ==
  \/ sleeping = {} /\ UNCHANGED sleeping
  \/ \E t \in sleeping : sleeping' = sleeping \ {t}

CondBroadcast == sleeping' = {}

-----------------------------------------------------------------------------
(* queue.c on sequences, and segel.c's Close.                              *)

\* A slip the check must notice: the new node linked in at the head.
QueuePushFront(q, qn, e) ==
  \/ qn = <<e>> \o q /\ UNCHANGED oom
  \/ oom < MaxOOM /\ qn = q /\ oom' = oom + 1

\* queuePush: q becomes qn.  When malloc fails it returns -1, which no caller
\* looks at, and the queue stays as it was.
QueuePush(q, qn, e) ==
  \/ qn = Append(q, e) /\ UNCHANGED oom
  \/ oom < MaxOOM /\ qn = q /\ oom' = oom + 1

\* queuePop: the queue without its head.  Callers that may find it empty look
\* at the result first.
QueuePop(q) == IF q = <<>> THEN q ELSE Tail(q)

\* A slip the check must notice: unlinking the node before the one returned.
RemoveBefore(q, i) == RemoveAt(q, IF i > 1 THEN i - 1 ELSE i)

\* queueRemoveByIndex: the queue without its i-th entry.
QueueRemoveByIndex(q, i) == RemoveAt(q, i)

\* Close exits the program when close() fails, as it does on a descriptor
\* that is not open.
Close(fd) == open' = open \ {fd} /\ exited' = IF fd \in open THEN exited ELSE "Close"

\* A slip the check must notice: < for <=.
FullOffByOne == QueueSize < Len(waiting_requests) + Len(running_requests)

\* The test of lines 116, 123, 132 and 145, and of 136 negated.
Full == QueueSize <= Len(waiting_requests) + Len(running_requests)

-----------------------------------------------------------------------------
(* The master thread.                                                      *)

\* Accept returns a new connection on some free descriptor.
MasterAccept ==
  /\ pc[Master] = "accept"
  /\ accepted < MaxConn
  /\ \E fd \in Fds \ open :
       /\ conn' = [conn EXCEPT ![Master] = [data |-> fd, arrival |-> accepted + 1]]
       /\ open' = open \cup {fd}
  /\ accepted' = accepted + 1
  /\ Goto(Master, "lock")
  /\ UNCHANGED <<schedalg, m, sleeping, queues, num, history, faults, exited>>

\* Accept's error path: no descriptor is left, unix_error ends the program.
MasterAcceptFails ==
  /\ pc[Master] = "accept"
  /\ accepted < MaxConn
  /\ Fds \subseteq open
  /\ exited' = "Accept"
  /\ UNCHANGED <<schedalg, m, sleeping, pc, conn, queues, num, open, accepted,
                 history, faults>>

\* A slip the check must notice: if for while around pthread_cond_wait.
MasterLockOnce ==
  /\ pc[Master] = "lock" \/ (pc[Master] = "wait" /\ Master \notin sleeping)
  /\ Lock(Master)
  /\ Goto(Master, IF pc[Master] = "wait" THEN "admit" ELSE "test")
  /\ UNCHANGED <<schedalg, sleeping, conn, queues, num, open, accepted,
                 history, faults, exited>>

\* Takes the mutex, the first time or after pthread_cond_wait.
MasterLock ==
  /\ pc[Master] = "lock" \/ (pc[Master] = "wait" /\ Master \notin sleeping)
  /\ Lock(Master)
  /\ Goto(Master, "test")
  /\ UNCHANGED <<schedalg, sleeping, conn, queues, num, open, accepted,
                 history, faults, exited>>

\* case BLOCK, the while loop: the server is full.
MasterWait ==
  /\ pc[Master] = "test"
  /\ schedalg = "BLOCK" /\ Full
  /\ CondWait(Master)
  /\ UNCHANGED <<schedalg, conn, queues, num, open, accepted, history, faults,
                 exited>>

\* The test of the capacity, and where it leads under each policy.
MasterTest ==
  /\ pc[Master] = "test"
  /\ \/ schedalg \in OverloadType /\ ~Full /\ Goto(Master, "admit") /\ num' = num
     \/ schedalg = "DROP_TAIL" /\ Full /\ Goto(Master, "reject") /\ num' = num
     \/ schedalg = "DROP_HEAD" /\ Full /\ Goto(Master, "evict") /\ num' = num
     \/ /\ schedalg = "DROP_RAND" /\ Full /\ Goto(Master, "discard")
        /\ LET share == DiscardCount(Len(waiting_requests))
               size == Len(waiting_requests)
           IN  num' = IF share < size THEN share ELSE size
  /\ UNCHANGED <<schedalg, m, sleeping, conn, queues, open, accepted, history,
                 faults, exited>>

\* The switch has no case for a garbage policy: the connection is forgotten.
MasterForget ==
  /\ pc[Master] = "test"
  /\ schedalg \notin OverloadType
  /\ lost' = lost \cup {conn[Master].arrival}
  /\ conn' = [conn EXCEPT ![Master] = NoConn]
  /\ Unlock
  /\ Goto(Master, "accept")
  /\ UNCHANGED <<schedalg, sleeping, queues, num, open, accepted, served, shed,
                 faults, exited>>

\* queuePush(waiting_requests, connfd, arrival); signal; unlock; next Accept.
MasterAdmit ==
  /\ pc[Master] = "admit"
  /\ QueuePush(waiting_requests, waiting_requests', conn[Master])
  /\ lost' = IF oom' = oom THEN lost ELSE lost \cup {conn[Master].arrival}
  /\ conn' = [conn EXCEPT ![Master] = NoConn]
  /\ CondSignal
  /\ Unlock
  /\ Goto(Master, "accept")
  /\ UNCHANGED <<schedalg, running_requests, num, open, accepted, served, shed,
                 spurious, exited>>

\* A slip the check must notice: the refused connection is not closed.
MasterRejectLeaks ==
  /\ pc[Master] = "reject"
  /\ shed' = shed \cup {conn[Master].arrival}
  /\ conn' = [conn EXCEPT ![Master] = NoConn]
  /\ Unlock
  /\ Goto(Master, "accept")
  /\ UNCHANGED <<schedalg, sleeping, queues, num, open, accepted, served, lost,
                 faults, exited>>

\* Close(connfd) instead: nobody is woken.
MasterReject ==
  /\ pc[Master] = "reject"
  /\ Close(conn[Master].data)
  /\ shed' = shed \cup {conn[Master].arrival}
  /\ conn' = [conn EXCEPT ![Master] = NoConn]
  /\ Unlock
  /\ Goto(Master, "accept")
  /\ UNCHANGED <<schedalg, sleeping, queues, num, accepted, served, lost, faults>>

\* A slip the check must notice: the head is taken off but never closed.
MasterEvictForgets ==
  /\ pc[Master] = "evict"
  /\ waiting_requests' = QueuePop(waiting_requests)
  /\ Goto(Master, IF waiting_requests = <<>> THEN "reject" ELSE "admit")
  /\ UNCHANGED <<schedalg, m, sleeping, conn, running_requests, num, open,
                 accepted, history, faults, exited>>

\* case DROP_HEAD of a full server: the oldest waiting request makes room; with
\* none waiting queuePop returns -1 and the new connection is the one closed.
MasterEvict ==
  /\ pc[Master] = "evict"
  /\ \/ /\ waiting_requests # <<>>
        /\ Close(Head(waiting_requests).data)
        /\ shed' = shed \cup {Head(waiting_requests).arrival}
        /\ waiting_requests' = QueuePop(waiting_requests)
        /\ Goto(Master, "admit")
     \/ /\ waiting_requests = <<>>
        /\ Goto(Master, "reject")
        /\ UNCHANGED <<waiting_requests, open, shed, exited>>
  /\ UNCHANGED <<schedalg, m, sleeping, conn, running_requests, num, accepted,
                 served, lost, faults>>

\* A slip the check must notice: while(num >= 0).
OneMoreToDiscard == num >= 0

\* The condition of queueDiscardX's loop.
MoreToDiscard == num > 0

\* queueDiscardX: one turn of its loop, with whatever index rand() gives.
MasterDiscard ==
  /\ pc[Master] = "discard"
  /\ MoreToDiscard
  /\ \E i \in 1 .. Len(waiting_requests) :
       /\ Close(waiting_requests[i].data)
       /\ shed' = shed \cup {waiting_requests[i].arrival}
       /\ waiting_requests' = QueueRemoveByIndex(waiting_requests, i)
  /\ num' = num - 1
  /\ UNCHANGED <<schedalg, m, sleeping, pc, conn, running_requests, accepted,
                 served, lost, faults>>

\* case DROP_RAND goes on to test the capacity a second time.
MasterRetest ==
  /\ pc[Master] = "discard"
  /\ ~MoreToDiscard
  /\ Goto(Master, IF Full THEN "reject" ELSE "admit")
  /\ UNCHANGED <<schedalg, m, sleeping, conn, queues, num, open, accepted,
                 history, faults, exited>>

-----------------------------------------------------------------------------
(* The worker threads, thread_routine().                                   *)

\* Takes the mutex at the top of the loop or after pthread_cond_wait.
WorkerLock(w) ==
  /\ pc[w] = "lock" \/ (pc[w] = "wait" /\ w \notin sleeping)
  /\ Lock(w)
  /\ Goto(w, "test")
  /\ UNCHANGED <<schedalg, sleeping, conn, queues, num, open, accepted,
                 history, faults, exited>>

\* while(queueSize(waiting_requests) == 0): go to sleep, or leave the loop.
WorkerTest(w) ==
  /\ pc[w] = "test"
  /\ \/ waiting_requests = <<>> /\ CondWait(w)
     \/ waiting_requests # <<>> /\ Goto(w, "pop") /\ UNCHANGED <<m, sleeping>>
  /\ UNCHANGED <<schedalg, conn, queues, num, open, accepted, history, faults,
                 exited>>

WorkerPop(w) ==
  /\ pc[w] = "pop"
  /\ conn' = [conn EXCEPT ![w] = Head(waiting_requests)]
  /\ waiting_requests' = QueuePop(waiting_requests)
  /\ Goto(w, "push")
  /\ UNCHANGED <<schedalg, m, sleeping, running_requests, num, open, accepted,
                 history, faults, exited>>

\* The entry's arrival time is an uninitialised local and nobody reads it: an
\* entry of running_requests is its descriptor.
WorkerPush(w) ==
  /\ pc[w] = "push"
  /\ QueuePush(running_requests, running_requests', conn[w].data)
  /\ CondBroadcast
  /\ Unlock
  /\ Goto(w, "handle")
  /\ UNCHANGED <<schedalg, conn, waiting_requests, num, open, accepted, history,
                 spurious, exited>>

\* A slip the check must notice: the count of running requests is not undone.
WorkerHandleOnly(w) ==
  /\ pc[w] = "handle"
  /\ Close(conn[w].data)
  /\ served' = served \cup {conn[w].arrival}
  /\ conn' = [conn EXCEPT ![w] = NoConn]
  /\ Goto(w, "lock")
  /\ UNCHANGED <<schedalg, m, sleeping, queues, num, accepted, shed, lost, faults>>

\* requestHandle(fd, tstats) returns and the worker closes the descriptor.
WorkerHandle(w) ==
  /\ pc[w] = "handle"
  /\ Close(conn[w].data)
  /\ served' = served \cup {conn[w].arrival}
  /\ Goto(w, "relock")
  /\ UNCHANGED <<schedalg, m, sleeping, conn, queues, num, accepted, shed, lost,
                 faults>>

\* A system call of requestHandle fails (the client is gone, say), and its
\* wrapper ends the whole program.
WorkerHandleFails(w) ==
  /\ IOErrors
  /\ pc[w] = "handle"
  /\ exited' = "requestHandle"
  /\ UNCHANGED <<schedalg, m, sleeping, pc, conn, queues, num, open, accepted,
                 history, faults>>

WorkerRelock(w) ==
  /\ pc[w] = "relock"
  /\ Lock(w)
  /\ Goto(w, "popRunning")
  /\ UNCHANGED <<schedalg, sleeping, conn, queues, num, open, accepted,
                 history, faults, exited>>

\* A slip the check must notice: line 71 is missing.
WorkerPopRunningSilent(w) ==
  /\ pc[w] = "popRunning"
  /\ running_requests' = QueuePop(running_requests)
  /\ conn' = [conn EXCEPT ![w] = NoConn]
  /\ Unlock
  /\ Goto(w, "lock")
  /\ UNCHANGED <<schedalg, waiting_requests, num, open, accepted, history, faults,
                 exited, sleeping>>

\* Pops the HEAD of running_requests, whoever pushed it; what it returns is
\* ignored.
WorkerPopRunning(w) ==
  /\ pc[w] = "popRunning"
  /\ running_requests' = QueuePop(running_requests)
  /\ conn' = [conn EXCEPT ![w] = NoConn]
  /\ CondBroadcast
  /\ Unlock
  /\ Goto(w, "lock")
  /\ UNCHANGED <<schedalg, waiting_requests, num, open, accepted, history, faults,
                 exited>>

\* pthread_cond_wait may return without a signal.
SpuriousWakeup(t) ==
  /\ spurious < MaxSpurious
  /\ t \in sleeping
  /\ sleeping' = sleeping \ {t}
  /\ spurious' = spurious + 1
  /\ UNCHANGED <<schedalg, m, pc, conn, queues, num, open, accepted, history, oom,
                 exited>>

-----------------------------------------------------------------------------
MasterStep ==
  \/ MasterLock \/ MasterWait \/ MasterTest \/ MasterForget \/ MasterAdmit
  \/ MasterReject \/ MasterEvict \/ MasterDiscard \/ MasterRetest

WorkerStep(w) ==
  \/ WorkerLock(w) \/ WorkerTest(w) \/ WorkerPop(w) \/ WorkerPush(w)
  \/ WorkerHandle(w) \/ WorkerRelock(w) \/ WorkerPopRunning(w)

\* What the outside world does to the server.
Environment ==
  \/ MasterAccept \/ MasterAcceptFails
  \/ \E t \in Threads : SpuriousWakeup(t)
  \/ \E w \in Workers : WorkerHandleFails(w)

\* The server rests: no client is left, and every worker waits for one.  Any
\* other state without a next step is a deadlock.
Idle ==
  /\ accepted = MaxConn
  /\ pc[Master] = "accept"
  /\ Workers \subseteq sleeping
  /\ waiting_requests = <<>>
  /\ UNCHANGED vars

Ended == exited # "no" /\ UNCHANGED vars

Next ==
  \/ exited = "no" /\ (MasterStep \/ (\E w \in Workers : WorkerStep(w)) \/ Environment)
  \/ Idle
  \/ Ended

Spec == Init /\ [][Next]_vars

\* A thread that can run does run; nobody owes the server a connection.
Fairness ==
  /\ WF_vars(exited = "no" /\ MasterStep)
  /\ \A w \in Workers : WF_vars(exited = "no" /\ WorkerStep(w))

FairSpec == Spec /\ Fairness

-----------------------------------------------------------------------------
(* Where things are.                                                       *)

\* The workers that count as handling a request.
Busy == {w \in Workers : pc[w] \in {"handle", "relock", "popRunning"}}

\* The threads that hold a connection and have not closed it yet.
Holders ==
  {t \in Threads : conn[t] # NoConn /\ pc[t] \notin {"relock", "popRunning"}}

\* The connections with somebody who will close them.
WaitingConns == {waiting_requests[i] : i \in DOMAIN waiting_requests}
HeldConns == {conn[t] : t \in Holders}
Arrivals(C) == {e.arrival : e \in C}

\* The workers that are awake and on their way to look at waiting_requests.
Seeking ==
  {w \in Workers \ sleeping : pc[w] \in {"lock", "wait", "test", "pop"}}

-----------------------------------------------------------------------------
(* Properties.                                                             *)

\* Every variable has its type; line for line the declarations of server.c and
\* queue.h.
TypeOK ==
  /\ schedalg \in OverloadType \cup {"unset"}
  /\ m \in Threads \cup {NoThread}
  /\ sleeping \subseteq Threads
  /\ pc \in [Threads -> MasterPcs \cup WorkerPcs]
  /\ pc[Master] \in MasterPcs
  /\ \A w \in Workers : pc[w] \in WorkerPcs
  /\ conn \in [Threads -> Conn \cup {NoConn}]
  /\ waiting_requests \in Seq(Conn)
  /\ running_requests \in Seq(Fds)
  /\ num \in Nat
  /\ open \subseteq Fds
  /\ accepted \in Nat
  /\ served \subseteq Nat /\ shed \subseteq Nat /\ lost \subseteq Nat
  /\ oom \in Nat /\ spurious \in Nat
  /\ exited \in {"no", "Accept", "Close", "requestHandle"}

\* The requests that wait or are in a worker's hands, from its pop to its pop of
\* running_requests, are never more than queue_size: what the tests of lines 116,
\* 123, 132, 136 and 145 are for, although they look at two counters and a worker
\* goes from one to the other in two steps.  Every malloc failure may let one more
\* in, for a worker whose push has failed (line 62) is not counted.
CapacityBound ==
  Len(waiting_requests) + Cardinality({w \in Workers : pc[w] = "push"} \cup Busy)
    <= QueueSize + oom

\* running_requests counts the busy workers although each of them pops the head
\* and not its own entry (line 70); every malloc failure in queuePush may lose
\* one entry, and the count is never further off than that.
RunningCount ==
  /\ Len(running_requests) <= Cardinality(Busy)
  /\ Cardinality(Busy) <= Len(running_requests) + oom

\* Every accepted connection is in exactly one place: waiting, in the hands of
\* one thread, served, shed by the policy, or forgotten.
Accounted ==
  LET places == <<Arrivals(WaitingConns), Arrivals(HeldConns), served, shed, lost>>
  IN  /\ 1 .. accepted = UNION {places[i] : i \in 1 .. 5}
      /\ \A i, j \in 1 .. 5 : i # j => places[i] \cap places[j] = {}

\* A descriptor has at most one owner, the queue or a thread, and is open while
\* it has one; so no Close (lines 67, 124, 141, 148, 153, queue.c 104) can close
\* a descriptor twice, or one that Accept has given to a newer connection.
DescriptorOwnership ==
  /\ \A i, j \in DOMAIN waiting_requests :
       waiting_requests[i].data = waiting_requests[j].data => i = j
  /\ \A t, u \in Holders : conn[t].data = conn[u].data => t = u
  /\ \A t \in Holders : \A i \in DOMAIN waiting_requests :
       conn[t].data # waiting_requests[i].data
  /\ \A e \in WaitingConns \cup HeldConns : e.data \in open
  /\ exited # "Close"

\* The descriptors nobody will close are those of the forgotten connections,
\* and with a legal policy only a malloc failure makes the server forget one.
NoLeak ==
  /\ Cardinality(open \ {e.data : e \in WaitingConns \cup HeldConns})
       = Cardinality(lost)
  /\ schedalg \in OverloadType => Cardinality(lost) <= oom

\* Requests wait in the order of their arrival, and the ones in the hands of
\* workers arrived before all of them, whatever the policy threw away.
ArrivalOrder ==
  /\ \A i, j \in DOMAIN waiting_requests :
       i < j => waiting_requests[i].arrival < waiting_requests[j].arrival
  /\ \A e \in WaitingConns, t \in Holders :
       IF t = Master THEN e.arrival < conn[t].arrival ELSE conn[t].arrival < e.arrival

\* No wakeup is lost although everybody shares one condition variable: a worker
\* sleeps only while awake workers are enough for the waiting requests (the
\* signals of lines 120, 128, 138, 150, 158), and the master sleeps only while
\* the server is full (the broadcast of line 71).
NoLostWakeup ==
  /\ (\E w \in Workers : w \in sleeping)
       => Len(waiting_requests) <= Cardinality(Seeking)
  /\ Master \in sleeping
       => Full \/ (\E w \in Workers : pc[w] = "push")

\* Every accepted connection is handled or closed by the policy in the end, so
\* that the main loop comes back to Accept and takes the next one.
EventuallyClosed ==
  \A a \in 1 .. MaxConn : accepted >= a ~> (a \in served \cup shed /\ pc[Master] = "accept")

\* No connection is ever forgotten.  getargs() insists that the policy be one
\* of four ("Overload Type must be: block|dt|dh|random").
NoneForgotten == lost = {}
=============================================================================
