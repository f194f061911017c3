---------------------------- MODULE MCServerPool ----------------------------
(* A small instance of ServerPool for TLC. *)
EXTENDS ServerPool, TLC

PoolSymmetry == Permutations(Workers) \cup Permutations(Fds)
=============================================================================
