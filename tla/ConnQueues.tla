------------------------------ MODULE ConnQueues ------------------------------
(***************************************************************************)
(* The interface of queue.h: queues of descriptors as sequences, and what  *)
(* each call returns.  This is what ServerPool uses of queue.c.            *)
(***************************************************************************)
EXTENDS Integers, SequencesExt

CONSTANTS
  Queues,  \* the queues of the program
  Data     \* the descriptors

VARIABLES
  contents,  \* [Queues -> Seq(Data)]
  ret        \* what the last call returned

vars == <<contents, ret>>

Init == contents = [q \in Queues |-> <<>>] /\ ret = 0

Push(q, d) ==
  \/ contents' = [contents EXCEPT ![q] = Append(@, d)] /\ ret' = 1
  \/ UNCHANGED contents /\ ret' = -1

Pop(q) ==
  IF contents[q] = <<>>
  THEN UNCHANGED contents /\ ret' = -1
  ELSE contents' = [contents EXCEPT ![q] = Tail(@)] /\ ret' = Head(contents[q])

\* Indices count from 0.
RemoveByIndex(q, i) ==
  /\ contents' = [contents EXCEPT ![q] = RemoveAt(@, i + 1)]
  /\ ret' = contents[q][i + 1]

Next ==
  \E q \in Queues :
    \/ \E d \in Data : Push(q, d)
    \/ Pop(q)
    \/ \E i \in 0 .. Len(contents[q]) - 1 : RemoveByIndex(q, i)

Spec == Init /\ [][Next]_vars
=============================================================================
