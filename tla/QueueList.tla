------------------------------ MODULE QueueList ------------------------------
(***************************************************************************)
(* queue.c as it is written: singly linked lists of malloc'd nodes with a  *)
(* head, a tail and a size.  The two queues of the server allocate from    *)
(* one heap, which hands out freed nodes again.  Every call is one step,   *)
(* since the callers hold the mutex (ServerPool).                          *)
(***************************************************************************)
EXTENDS Integers, FiniteSets

CONSTANTS
  Queues,   \* waiting_requests and running_requests
  Data,     \* the descriptors
  Address,  \* the places malloc may put a node at
  NULL

ASSUME QueueListAssumption == NULL \notin Address /\ IsFiniteSet(Address)

VARIABLES
  queue,  \* the Queue structs: [Queues -> [head, tail, size]]
  node,   \* the Node structs by address; a free address has none
  ret     \* what the last call returned

vars == <<queue, node, ret>>

Allocated == DOMAIN node

\* free(a)
WithoutNode(f, a) == [b \in DOMAIN f \ {a} |-> f[b]]

\* The assignment f[a] = n, of a node that is new or that is already there.
WithNode(f, a, n) == [b \in DOMAIN f \cup {a} |-> IF b = a THEN n ELSE f[b]]

\* queueCreate, twice.
Init ==
  /\ queue = [q \in Queues |-> [head |-> NULL, tail |-> NULL, size |-> 0]]
  /\ node = << >>
  /\ ret = 0

QueueEmpty(q) == queue[q].head = NULL

\* queuePush when malloc returns the address a.
PushAt(q, d, a) ==
  LET new == WithNode(node, a, [data |-> d, next |-> NULL])
      old == queue[q].tail
  IN  /\ queue' = [queue EXCEPT ![q].tail = a,
                                ![q].head = IF QueueEmpty(q) THEN a ELSE @,
                                ![q].size = @ + 1]
      /\ node' = IF QueueEmpty(q) THEN new ELSE [new EXCEPT ![old].next = a]

Push(q, d) ==
  \/ (\E a \in Address \ Allocated : PushAt(q, d, a)) /\ ret' = 1
  \/ ret' = -1 /\ UNCHANGED <<queue, node>>

\* A slip the check must notice: the tail is not reset with the last node.
PopKeepsTail(q) ==
  IF QueueEmpty(q)
  THEN ret' = -1 /\ UNCHANGED <<queue, node>>
  ELSE LET first == queue[q].head
       IN  /\ ret' = node[first].data
           /\ queue' = [queue EXCEPT ![q].head = node[first].next,
                                     ![q].size = @ - 1]
           /\ node' = WithoutNode(node, first)

\* queuePop
Pop(q) ==
  IF QueueEmpty(q)
  THEN ret' = -1 /\ UNCHANGED <<queue, node>>
  ELSE LET first == queue[q].head
           second == node[first].next
       IN  /\ ret' = node[first].data
           /\ queue' = [queue EXCEPT ![q].head = second,
                                     ![q].tail = IF second = NULL THEN NULL ELSE @,
                                     ![q].size = @ - 1]
           /\ node' = WithoutNode(node, first)

\* The address reached from a by following next n times.
Follow(a, n) ==
  LET at[k \in 0 .. n] ==
        IF k = 0 THEN a
        ELSE IF at[k - 1] \in Allocated THEN node[at[k - 1]].next ELSE NULL
  IN  at[n]

\* A slip the check must notice: fd = it->data for fd = tmp->data.
UnlinkReturnsPrevious(q, i) ==
  LET it == Follow(queue[q].head, i - 1)
      tmp == node[it].next
      after == node[tmp].next
  IN  /\ ret' = node[it].data
      /\ node' = WithoutNode([node EXCEPT ![it].next = after], tmp)
      /\ queue' = [queue EXCEPT ![q].tail = IF after = NULL THEN it ELSE @,
                                ![q].size = @ - 1]

\* The part of queueRemoveByIndex for an index that is not 0.
Unlink(q, i) ==
  LET it == Follow(queue[q].head, i - 1)
      tmp == node[it].next
      after == node[tmp].next
  IN  /\ ret' = node[tmp].data
      /\ node' = WithoutNode([node EXCEPT ![it].next = after], tmp)
      /\ queue' = [queue EXCEPT ![q].tail = IF after = NULL THEN it ELSE @,
                                ![q].size = @ - 1]

\* queueRemoveByIndex, with the indices its one caller uses: rand() % q->size.
RemoveByIndex(q, i) == IF i = 0 THEN Pop(q) ELSE Unlink(q, i)

Next ==
  \E q \in Queues :
    \/ \E d \in Data : Push(q, d)
    \/ Pop(q)
    \/ \E i \in 0 .. queue[q].size - 1 : RemoveByIndex(q, i)

Spec == Init /\ [][Next]_vars

-----------------------------------------------------------------------------
\* The addresses of a queue's nodes, first to last.
Chain(q) == [i \in 1 .. queue[q].size |-> Follow(queue[q].head, i - 1)]

Contents(q) == [i \in DOMAIN Chain(q) |-> node[Chain(q)[i]].data]

\* size is the length of the list, the list ends there, tail is its last node,
\* and nothing of a queue points to freed memory; queueEmpty looks at head and
\* queueSize at size, and the worker's loop relies on their agreement.
WellLinked ==
  \A q \in Queues :
    LET n == queue[q].size
    IN  /\ queue[q].tail = IF n = 0 THEN NULL ELSE Follow(queue[q].head, n - 1)
        /\ Follow(queue[q].head, n) = NULL
        /\ \A i \in 1 .. n : Chain(q)[i] \in Allocated

\* Every node malloc has given out is in exactly one place of one queue: none is
\* leaked, shared by the two queues, or linked twice.
EachNodeOnce ==
  \A a \in Allocated :
    Cardinality({p \in Queues \X (1 .. Cardinality(Address)) :
                   p[2] <= queue[p[1]].size /\ Chain(p[1])[p[2]] = a}) = 1

\* Whatever calls were made on the two queues, their lists are sound: links, sizes
\* and tails agree (Pop, Push and the removal by index set them separately), and
\* no node is lost or in two places.
ListsSound == WellLinked /\ EachNodeOnce

Interface == INSTANCE ConnQueues WITH contents <- [q \in Queues |-> Contents(q)]

\* Every sequence of calls has the effect and the results of ConnQueues: what a
\* call returns, and the caller closes, is the descriptor taken off the list.
ImplementsQueues == Interface!Spec
=============================================================================
