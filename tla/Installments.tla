----------------------------- MODULE Installments -----------------------------
(***************************************************************************)
(* The rows of an amortization schedule (lib/loans/interest.ts).           *)
(*                                                                         *)
(* Money is whole cents.  A rate is a whole number of parts of Unit; what  *)
(* the accrual rules make of a yearly, a monthly or a daily rate is the    *)
(* number given here, so charge[k] is what a period k costs and rate the   *)
(* nominal rate of a period, the one the French quota is computed from.    *)
(* The two differ when interest accrues by the day.                        *)
(***************************************************************************)
EXTENDS Rounding

CONSTANT Unit   \* a rate of Unit doubles the debt in one period

ASSUME UnitAssumption == Unit \in Nat \ {0}

Styles == {"FRENCH", "GERMAN", "AMERICAN", "CUSTOM"}

\* A plan, what is asked of a schedule: fixed is installmentAmountCents (0: none), io the
\* number of installments that pay interest only, totals the customTotals (0: none).

\* b to the power of n, as a recursive function: proofs cannot look into ^.
Power(b, n) == LET power[k \in 0 .. n] == IF k = 0 THEN 1 ELSE b * power[k - 1] IN power[n]

\* computeTermCountFromInstallment: what n installments of one size are worth at the start
\* covers the principal; the term is the least such n.
PaysOff(principal, rate, fixed, n) ==
  IF rate = 0 THEN n * fixed >= principal
  ELSE (fixed * Unit - principal * rate) * Power(Unit + rate, n) >= fixed * Unit * Power(Unit, n)

FrenchQuota(principal, rate, n) ==
  LET grown == Power(Unit + rate, n)
  IN  IF rate = 0 THEN RoundDiv(principal, n)
      ELSE RoundDiv(principal * rate * grown, Unit * (grown - Power(Unit, n)))

\* The installment a French plan keeps constant.
Quota(plan) ==
  IF plan.fixed > 0 THEN plan.fixed
  ELSE FrenchQuota(plan.principal, plan.rate, plan.term - plan.io)

Clamp(portion, balance) ==
  IF portion < 0 THEN 0 ELSE IF portion > balance THEN balance ELSE portion

InterestDue(plan, k, balance) == RoundDiv(balance * plan.charge[k], Unit)

InterestOnly(plan, k) ==
  k <= plan.io \/ (plan.style = "AMERICAN" /\ k # plan.term)

\* What a row that is neither the last nor interest-only takes off the debt.
Portion(plan, k, balance) ==
  LET interest == InterestDue(plan, k, balance)
      amortizing == plan.term - plan.io
  IN  CASE plan.style = "FRENCH" -> Clamp(Quota(plan) - interest, balance)
        [] plan.style = "GERMAN" -> Clamp(RoundDiv(plan.principal, amortizing), balance)
        [] plan.style = "CUSTOM" /\ plan.totals[k] > 0 ->
             Clamp(plan.totals[k] - interest, balance)
        [] OTHER -> RoundDiv(balance, amortizing)

\* Row k of a plan when so much is still owed; the last row takes the rest.
Row(plan, k, balance) ==
  [principal |-> IF InterestOnly(plan, k) THEN 0
                 ELSE IF k = plan.term THEN balance ELSE Portion(plan, k, balance),
   interest |-> InterestDue(plan, k, balance)]

Total(row) == row.principal + row.interest

\* What is still owed after each row.
Balances(plan) ==
  LET owed[k \in 0 .. plan.term] ==
        IF k = 0 THEN plan.principal
        ELSE owed[k - 1] - Row(plan, k, owed[k - 1]).principal
  IN  owed

\* All rows, one after another.
Rows(plan) ==
  LET owed == Balances(plan) IN [k \in 1 .. plan.term |-> Row(plan, k, owed[k - 1])]
=============================================================================
