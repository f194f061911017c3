------------------------- MODULE ServerPoolRefinement -------------------------
(***************************************************************************)
(* The thread pool of server.c implements AdmissionControl.  A connection  *)
(* is active from the moment a worker pops it until the worker has popped  *)
(* its entry of running_requests, which is later than its Close.           *)
(***************************************************************************)
EXTENDS ServerPool

\* The workers that hold one of the Capacity places.
Occupied == {w \in Workers : pc[w] \in {"push", "handle", "relock", "popRunning"}}

ActiveArrivals == {conn[w].arrival : w \in Occupied}

PendingArrivals ==
  {conn[Master].arrival : t \in {u \in {Master} : conn[u] # NoConn}}

WaitingArrivals ==
  [i \in DOMAIN waiting_requests |-> waiting_requests[i].arrival]

Admission == INSTANCE AdmissionControl WITH
  Capacity    <- QueueSize,
  Parallelism <- Cardinality(Workers),
  Policies    <- UNION {GetArgs(arg) : arg \in SchedArgs},
  policy      <- schedalg,
  arrived     <- accepted,
  pending     <- PendingArrivals,
  waiting     <- WaitingArrivals,
  active      <- ActiveArrivals,
  done        <- served \ ActiveArrivals,
  refused     <- shed,
  budget      <- num

\* Threads, mutex and condition variable together do what AdmissionControl
\* says, whichever thread runs when: "block" never closes a connection unread,
\* "dt" only refuses newcomers, "dh" gives up the oldest waiting connection and
\* "random" thirty per cent of the waiting ones, all of them only when the server is
\* full (the switch of main(), lines 114-161).  This presumes that malloc does
\* not fail and that the policy's name is one of the four.
ImplementsAdmission == Admission!Spec
=============================================================================
