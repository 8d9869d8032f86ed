------------------------------ MODULE Rounding ------------------------------
(***************************************************************************)
(* The roundings of Utils.cpp and SrtmReader.cpp.  A double is a multiple  *)
(* of 1/u; the tolerance of Utils is less than that, so that comparisons   *)
(* with it are exact.                                                      *)
(***************************************************************************)
EXTENDS Integers

\* A cast to int, and the remainder that goes with it.
Trunc(a, u) == IF a >= 0 THEN a \div u ELSE -((-a) \div u)
Rem(a, u) == a - u * Trunc(a, u)

Abs(a) == IF a >= 0 THEN a ELSE -a

\* floor2 of a/u is no floor below zero, where the cast rounds up.
Floor2(a, u) ==
  LET b == Trunc(a, u)
  IN  IF b * u <= a /\ (b + 1) * u > a THEN b ELSE b + 1

Ceil2(a, u) == Floor2(a, u) + 1

\* round: halves go away from zero.
Round(a, u) == IF a >= 0 THEN (2 * a + u) \div (2 * u) ELSE -((u - 2 * a) \div (2 * u))
=============================================================================
