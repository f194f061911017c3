------------------------------ MODULE Sublists ------------------------------
(***************************************************************************)
(* What the programs' lists look like when entries are taken out of them:  *)
(* the others keep their order.                                            *)
(***************************************************************************)
EXTENDS Integers, Sequences, FiniteSets

\* The entries at the positions I, in their order.
Nth(I, m) == CHOOSE i \in I : Cardinality({j \in I : j <= i}) = m
Kept(entries, I) == [m \in 1 .. Cardinality(I) |-> entries[Nth(I, m)]]

\* The entries that are not in A.
Without(entries, A) == Kept(entries, {i \in DOMAIN entries : entries[i] \notin A})
=============================================================================
