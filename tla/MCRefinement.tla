---------------------------- MODULE MCRefinement ----------------------------
(***************************************************************************)
(* A small instance of ServerPoolRefinement for TLC.  Accept returns the   *)
(* lowest descriptor that is free, as POSIX has it: with liveness to check *)
(* the descriptors cannot be treated as symmetric.                         *)
(***************************************************************************)
EXTENDS ServerPoolRefinement, TLC

LowestDescriptor == \A fd \in open' \ open : \A other \in Fds \ open : fd <= other

KernelSpec == Init /\ [][Next /\ LowestDescriptor]_vars /\ Fairness
=============================================================================
