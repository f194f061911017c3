----------------------------- MODULE DiscardShare -----------------------------
(***************************************************************************)
(* How many waiting requests the "random" overload policy throws away:     *)
(*     int num = ceil((queueSize(waiting_requests)*0.3f));                 *)
(* in server.c.  The product is computed in single precision, so the share *)
(* is not always thirty per cent rounded up.  The nearest float to 0.3 is  *)
(* 10066330 / 2^25; the product of an int and that float is rounded to 24  *)
(* significant bits, ties to even, and ceil() is applied to the result.    *)
(*                                                                         *)
(* The module holds constant operators and a fact about them that TLC      *)
(* evaluates in every run.                                                 *)
(***************************************************************************)
EXTENDS Integers, FiniteSets

Pow2(k) == 2 ^ k

\* 0.3f is Mantissa / Pow2(25).
Mantissa == 10066330

\* How many low bits of p are lost when only 24 significant ones are kept.
\* Sizes are ints, so the products stay below 2^55.
LostBits(p) == Cardinality({k \in 0 .. 30 : p \div Pow2(k) >= Pow2(24)})

\* p rounded to a multiple of unit, ties to the even multiple.
RoundHalfEven(p, unit) ==
  LET q == p \div unit
      r == p % unit
  IN  IF 2 * r < unit \/ (2 * r = unit /\ q % 2 = 0)
      THEN q * unit
      ELSE (q + 1) * unit

\* The float n * 0.3f, scaled by 2^25 so that it is an integer.
ScaledProduct(n) ==
  LET p == n * Mantissa IN RoundHalfEven(p, Pow2(LostBits(p)))

\* A slip the check must notice: (int)(size * 0.3f), no ceil().
DiscardCountFloor(n) == ScaledProduct(n) \div Pow2(25)

\* ceil(n * 0.3f)
DiscardCount(n) == (ScaledProduct(n) + Pow2(25) - 1) \div Pow2(25)

\* What the expression is meant to compute: thirty per cent, rounded up.
ThirtyPercent(n) == (3 * n + 9) \div 10

\* Bound: the largest queue TLC evaluates the share for.
LargestSize == 200

\* Single precision discards no more than waits, something when something
\* waits, thirty per cent rounded up or one more, and never the latter below
\* fifty requests.
ASSUME ShareIsThirtyPercent ==
  \A n \in 0 .. LargestSize :
    /\ DiscardCount(n) <= n
    /\ n > 0 => DiscardCount(n) > 0
    /\ DiscardCount(n) - ThirtyPercent(n) \in {0, 1}
    /\ n < 50 => DiscardCount(n) = ThirtyPercent(n)
=============================================================================
