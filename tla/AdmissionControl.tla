--------------------------- MODULE AdmissionControl ---------------------------
(***************************************************************************)
(* What the web server's overload handling promises, without threads,      *)
(* locks, descriptors or linked lists: connections arrive one at a time,   *)
(* each is admitted or refused by the policy of the command line, admitted *)
(* ones wait in order of arrival, and at most Capacity connections wait or *)
(* are handled at any time.  A connection is its arrival number.           *)
(*                                                                         *)
(* Each action is the net effect of the lines "map" names for it.          *)
(***************************************************************************)
EXTENDS Integers, FiniteSets, SequencesExt, DiscardShare

CONSTANTS
  Capacity,     \* how many connections may wait or be handled
  Parallelism,  \* how many connections are handled at a time
  Policies      \* the overload policies considered

VARIABLES
  policy,   \* the policy in force
  arrived,  \* how many connections have arrived
  pending,  \* the connection to be decided about, at most one
  waiting,  \* the connections admitted and not handled yet, oldest first
  active,   \* the connections being handled
  done,     \* the connections handled
  refused,  \* the connections the policy closed
  budget    \* how many waiting connections "random" still has to drop

vars == <<policy, arrived, pending, waiting, active, done, refused, budget>>

Load == Len(waiting) + Cardinality(active)

Init ==
  /\ policy \in Policies
  /\ arrived = 0
  /\ pending = {} /\ waiting = <<>> /\ active = {}
  /\ done = {} /\ refused = {}
  /\ budget = 0

\* A client connects; the next one has to wait until this one is decided.
Arrive ==
  /\ pending = {}
  /\ arrived' = arrived + 1
  /\ pending' = {arrived'}
  /\ UNCHANGED <<policy, waiting, active, done, refused, budget>>

\* There is room: the connection goes to the end of the queue.
Admit ==
  /\ budget = 0
  /\ Load < Capacity
  /\ \E a \in pending : waiting' = Append(waiting, a)
  /\ pending' = {}
  /\ UNCHANGED <<policy, arrived, active, done, refused, budget>>

\* There is no room for the newcomer.  "block" never refuses, "dt" refuses
\* whenever it is full, the others only when no waiting connection can go.
Refuse ==
  /\ budget = 0
  /\ Load >= Capacity
  /\ \/ policy = "DROP_TAIL"
     \/ policy \in {"DROP_HEAD", "DROP_RAND"} /\ waiting = <<>>
  /\ pending # {}
  /\ refused' = refused \cup pending
  /\ pending' = {}
  /\ UNCHANGED <<policy, arrived, waiting, active, done, budget>>

\* "dh": the connection that has waited longest makes room.
EvictOldest ==
  /\ policy = "DROP_HEAD"
  /\ Load >= Capacity
  /\ pending # {}
  /\ waiting # <<>>
  /\ refused' = refused \cup {Head(waiting)}
  /\ waiting' = Tail(waiting)
  /\ UNCHANGED <<policy, arrived, pending, active, done, budget>>

\* "random": thirty per cent of the waiting connections, rounded up or, where
\* single precision overshoots, one more, are to go, ...
Overload ==
  /\ policy = "DROP_RAND"
  /\ Load >= Capacity
  /\ budget = 0
  /\ pending # {}
  /\ waiting # <<>>
  /\ budget' \in 1 .. Len(waiting)
  /\ budget' - ThirtyPercent(Len(waiting)) \in {0, 1}
  /\ UNCHANGED <<policy, arrived, pending, waiting, active, done, refused>>

\* ... any of them, ...
DropOne ==
  /\ budget > 0
  /\ \E i \in DOMAIN waiting :
       /\ refused' = refused \cup {waiting[i]}
       /\ waiting' = RemoveAt(waiting, i)
  /\ budget' = budget - 1
  /\ UNCHANGED <<policy, arrived, pending, active, done>>

\* ... and none of them is handled before all have gone.
Dispatch ==
  /\ budget = 0
  /\ waiting # <<>>
  /\ Cardinality(active) < Parallelism
  /\ active' = active \cup {Head(waiting)}
  /\ waiting' = Tail(waiting)
  /\ UNCHANGED <<policy, arrived, pending, done, refused, budget>>

Complete ==
  /\ \E a \in active : active' = active \ {a} /\ done' = done \cup {a}
  /\ UNCHANGED <<policy, arrived, pending, waiting, refused, budget>>

Next ==
  \/ Arrive \/ Admit \/ Refuse \/ EvictOldest \/ Overload \/ DropOne
  \/ Dispatch \/ Complete

Spec == Init /\ [][Next]_vars
=============================================================================
