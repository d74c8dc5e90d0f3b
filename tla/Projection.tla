------------------------------ MODULE Projection ------------------------------
(***************************************************************************)
(* What the user will have at the end of the month and of the year         *)
(* (services/projection.service.ts, lib/projection.ts), while days pass    *)
(* and what was planned is done: salaries arrive, bills and installments   *)
(* are paid, loans are collected, money is invested.                       *)
(*                                                                         *)
(* A rate is a whole number of units of home money, 0 when there is none.  *)
(* A due installment keeps one sum for what was paid on it, interest first.*)
(***************************************************************************)
EXTENDS Rounding, Schedules, SequencesExt

CONSTANTS
  Currencies, Home,
  Rate,          \* what a unit of each currency is worth at home
  Templates,     \* the fixed expenses
  Bills,         \* their payments: [of, due, amt, cur]
  Dues,          \* installments of loans: [direction, due, principal, interest, cur]
  Salary,        \* [amt, cur, frequency, payDays]
  Bonuses,       \* [amt, cur, frequency, anchor, day]
  Estimate,      \* estimateMonthlyVariableCents, per currency
  Target,        \* monthlySavingsTargetCents
  Tolerance,     \* SALARY_MATCH_TOLERANCE_DAYS
  Opening,       \* the cash at first
  FirstDay, LastDay,
  Early,         \* how many days before its date a salary may arrive
  MaxInvested

Directions == {"PAYABLE", "RECEIVABLE"}
Due == [direction : Directions, due : Days, principal : Nat, interest : Nat, cur : Currencies]

ASSUME ProjectionAssumption ==
  /\ IsFiniteSet(Currencies) /\ IsFiniteSet(Bills) /\ IsFiniteSet(Dues) /\ IsFiniteSet(Bonuses)
  /\ Home \in Currencies /\ Rate \in [Currencies -> Nat] /\ Rate[Home] = 1
  /\ \A t \in Templates : IsTemplate(t)
  /\ Bills \subseteq [of : Templates, due : Days, amt : Nat, cur : Currencies]
  /\ Dues \subseteq Due
  /\ Salary.amt \in Nat /\ Salary.cur \in Currencies
  /\ \A b \in Bonuses : b.amt \in Nat /\ b.cur \in Currencies
  /\ Estimate \in [Currencies -> Nat] /\ Target \in Nat /\ Tolerance \in Nat
  /\ Opening \in [Currencies -> Nat]
  /\ FirstDay \in Days /\ LastDay \in Days /\ Early \in Nat /\ MaxInvested \in Nat

VARIABLES
  today,
  cash,      \* the ledger's money in the liquid accounts
  invested,  \* the worth of the investment accounts, at home
  salaries,  \* the salaries that were booked: the day, and the pay date it is for
  settled,   \* the bills that were paid
  paid       \* what was paid on each installment

vars == <<today, cash, invested, salaries, settled, paid>>

TypeOK ==
  /\ today \in FirstDay .. LastDay
  /\ cash \in [Currencies -> Int]
  /\ invested \in 0 .. MaxInvested
  /\ salaries \subseteq [date : Days, of : Days]
  /\ settled \subseteq Bills
  /\ paid \in [Dues -> Nat]

Init ==
  /\ today = FirstDay
  /\ cash = Opening
  /\ invested = 0
  /\ salaries = {}
  /\ settled = {}
  /\ paid = [i \in Dues |-> 0]

-----------------------------------------------------------------------------
(* The periods.                                                            *)

Periods == {"month", "year"}

LastMonth == LET year == (MonthOf(today) - 1) \div 12 IN Min({Len(Lengths), 12 * (year + 1)})
PeriodStart(per) ==
  FirstOf[IF per = "month" THEN MonthOf(today) ELSE MonthOf(today) - ((MonthOf(today) - 1) % 12)]
PeriodEnd(per) == LastOf(IF per = "month" THEN MonthOf(today) ELSE LastMonth)

-----------------------------------------------------------------------------
(* What is planned and still to come.  Of what is owed the overdue counts, *)
(* of what is to be collected or earned only what is due from today on.    *)

Converted(amt, cur) == amt * Rate[cur]

Worth(amount) == SumFunction([x \in DOMAIN amount |-> Converted(amount[x], x.cur)])

\* loadPendingFixedPayments
PendingBills(per) == {b \in Bills \ settled : b.due <= PeriodEnd(per)}

\* Slip of OpenInstallments: what is overdue is left out of what is owed as well.
UpcomingInstallments(per, direction) ==
  {i \in Dues :
     /\ i.direction = direction /\ paid[i] < i.principal + i.interest
     /\ i.due \in today .. PeriodEnd(per)}

\* loadRemainingLoanInstallments
OpenInstallments(per, direction) ==
  {i \in Dues :
     /\ i.direction = direction /\ paid[i] < i.principal + i.interest
     /\ i.due <= PeriodEnd(per)
     /\ direction = "RECEIVABLE" => i.due >= today}

\* Slip of RemainingOf: the row is taken whole although a part was paid.
WholeOf(i) == i.principal + i.interest

\* splitRemainingLoan: both parts together are what is left of the row.
RemainingOf(i) == i.principal + i.interest - paid[i]

\* matchSalaryOccurrences: every salary, the oldest first, takes the nearest date that
\* no other has taken, unless it is too far away.
Distance(d, e) == IF d < e THEN e - d ELSE d - e

Nearest(d, open) ==
  LET near == Min({Distance(d, o) : o \in open}) IN Min({o \in open : Distance(d, o) = near})

Matched(dates, booked) ==
  LET Match(got, s) ==
        LET near == {o \in dates \ got : Distance(o, s.date) <= Tolerance} IN
        IF near = {} THEN got ELSE got \cup {Nearest(s.date, near)}
  IN  FoldLeft(Match, {}, SetToSortSeq(booked, LAMBDA s, t : s.date < t.date))

\* The pay dates from today on that count as received.
Received(per) ==
  Matched(PayDates(Salary, today, PeriodEnd(per)),
          {s \in salaries : s.date \in PeriodStart(per) .. PeriodEnd(per)})

PendingPayDates(per) == PayDates(Salary, today, PeriodEnd(per)) \ Received(per)

PendingBonus(b, per) == Cardinality(BonusDates(b, today, PeriodEnd(per)))

-----------------------------------------------------------------------------
(* projectPeriod                                                           *)

Cash == SumFunction([c \in Currencies |-> Converted(cash[c], c)])

Income(per) ==
  Converted(Salary.amt, Salary.cur) * Cardinality(PendingPayDates(per))
  + Worth([b \in Bonuses |-> b.amt * PendingBonus(b, per)])
  + Worth([i \in OpenInstallments(per, "RECEIVABLE") |-> RemainingOf(i)])

Fixed(per) == Worth([b \in PendingBills(per) |-> b.amt])

LoanPayments(per) == Worth([i \in OpenInstallments(per, "PAYABLE") |-> RemainingOf(i)])

Million == 1000000

\* remainingMonthFraction, in millionths, and the whole months after this one
MonthsLeft(per) ==
  LET m == MonthOf(today) IN
  RoundDiv((Lengths[m] - DayOfMonth(today) + 1) * Million, Lengths[m])
  + (IF per = "year" THEN (LastMonth - m) * Million ELSE 0)

VariableBudget(per) ==
  SumFunction([c \in Currencies |-> Converted(RoundDiv(Estimate[c] * MonthsLeft(per), Million), c)])

SavingsTarget(per) == Target * (IF per = "year" THEN LastMonth - MonthOf(today) + 1 ELSE 1)

RemainingToSpend(per) == Income(per) - Fixed(per) - LoanPayments(per) - SavingsTarget(per)
Surplus(per) == RemainingToSpend(per) - VariableBudget(per)
ProjectedEnd(per) == Cash + invested + Surplus(per)

-----------------------------------------------------------------------------
(* What happens.                                                           *)

Gain(amt, cur) == cash' = [cash EXCEPT ![cur] = @ + amt]

NextDay ==
  /\ today < LastDay
  /\ today' = today + 1
  /\ UNCHANGED <<cash, invested, salaries, settled, paid>>

\* A salary is booked, on its date or a few days before.
ReceiveSalary(d) ==
  /\ d \in PayDates(Salary, today, today + Early)
  /\ \A s \in salaries : s.of # d
  /\ salaries' = salaries \cup {[date |-> today, of |-> d]}
  /\ Gain(Salary.amt, Salary.cur)
  /\ UNCHANGED <<today, invested, settled, paid>>

\* payFixedExpense
PayBill(b) ==
  /\ b \in Bills \ settled
  /\ settled' = settled \cup {b}
  /\ Gain(-b.amt, b.cur)
  /\ UNCHANGED <<today, invested, salaries, paid>>

\* applyLoanInstallmentPayment, of either direction
PayInstallment(i, amt) ==
  /\ amt > 0 /\ paid[i] + amt <= i.principal + i.interest
  /\ paid' = [paid EXCEPT ![i] = @ + amt]
  /\ Gain(IF i.direction = "PAYABLE" THEN -amt ELSE amt, i.cur)
  /\ UNCHANGED <<today, invested, salaries, settled>>

\* depositToInvestment, at the rate of the day; what is bought for it is worth the same.
Invest(amt) ==
  /\ amt > 0 /\ amt <= cash[Home] /\ invested + amt <= MaxInvested
  /\ invested' = invested + amt
  /\ Gain(-amt, Home)
  /\ UNCHANGED <<today, salaries, settled, paid>>

Next ==
  \/ NextDay
  \/ \E d \in today .. today + Early : ReceiveSalary(d)
  \/ \E b \in Bills : PayBill(b)
  \/ \E i \in Dues : \E amt \in 1 .. i.principal + i.interest : PayInstallment(i, amt)
  \/ \E amt \in 1 .. MaxInvested : Invest(amt)

Spec == Init /\ [][Next]_vars

-----------------------------------------------------------------------------
(* Properties.                                                             *)

\* A bill or an installment of the period is paid or collected, or money is invested.
Transacts(per) ==
  \/ \E b \in settled' \ settled : b.due <= PeriodEnd(per)
  \/ \E i \in Dues :
       /\ i.due <= PeriodEnd(per)
       /\ i.direction = "RECEIVABLE" => i.due >= today
       /\ paid'[i] # paid[i]
  \/ invested' # invested

\* A salary of the period is booked.
Earns(per) == \E s \in salaries' \ salaries : s.of <= PeriodEnd(per)

\* Doing what is planned does not change how the period ends: what leaves the plan
\* enters the cash, once, whether it is done early or in parts, and, but for a salary,
\* late.
PlanKept ==
  [][\A per \in Periods :
       Transacts(per) \/ Earns(per) => ProjectedEnd(per)' = ProjectedEnd(per)]_vars

\* What is owed stays in the projection however long it is overdue, and more comes to
\* it as the month turns: a day that passes never takes anything away.
NothingOwedIsForgotten ==
  [][\A per \in Periods : NextDay =>
       Fixed(per)' + LoanPayments(per)' >= Fixed(per) + LoanPayments(per)]_vars

\* What a look at all time shows.
EverDue == [t \in Templates |-> DueDates(t, 1, LastOf(Len(Lengths)))]

Windows == {<<today, PeriodEnd(per)>> : per \in Periods}
             \cup {<<FirstOf[Max({1, MonthOf(today) - 3})], LastOf(Min({Len(Lengths), MonthOf(today) + 11}))>>}

\* The window a page looks through does not decide on which days something is due: it
\* shows what a look at all time would show there.  A monthly expense is due once in
\* every month of its life, whatever day it is due on.
SchedulesAgree ==
  \A t \in Templates :
    /\ \A w \in Windows :
         DueDates(t, w[1], w[2]) = EverDue[t] \cap (w[1] .. w[2])
    /\ t.frequency = "MONTHLY" =>
         \A m \in Months : t.start < FirstOf[m] /\ LastOf(m) < t.end =>
           Cardinality(DueDates(t, FirstOf[m], LastOf(m))) = 1

\* A pay date counts as received only when its salary is in the cash
\* (lib/projection.ts:36: "it is already inside `currentCashCents`").
ReceivedIsInCash ==
  \A per \in Periods : \A d \in Received(per) : \E s \in salaries : s.of = d
=============================================================================
