------------------------------- MODULE Rounding -------------------------------
(***************************************************************************)
(* Money is whole cents; lib/money.ts divides it with banker's rounding.   *)
(***************************************************************************)
EXTENDS Integers

\* a / b to the nearest whole number, a half to the even one.
RoundDiv(a, b) ==
  LET q == a \div b
      twice == 2 * (a % b)
  IN  IF twice > b \/ (twice = b /\ q % 2 = 1) THEN q + 1 ELSE q
=============================================================================
