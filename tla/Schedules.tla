------------------------------ MODULE Schedules ------------------------------
(***************************************************************************)
(* The dates on which something is due: fixed expenses                     *)
(* (lib/fixed-expense-recurrence.ts), the salary and its bonuses           *)
(* (lib/projection.ts).                                                    *)
(*                                                                         *)
(* A day is a number.  The calendar is a sequence of months, the first one *)
(* a January; there is no time of day, because every date is put at the    *)
(* same hour before it is compared.                                        *)
(***************************************************************************)
EXTENDS Integers, Sequences, FiniteSets, FiniteSetsExt

CONSTANTS
  Lengths,       \* how many days each month has
  FirstWeekday,  \* the weekday of day 1; a Monday is 1
  Cap            \* MAX_PAYMENTS_PER_TEMPLATE

ASSUME SchedulesAssumption ==
  /\ Lengths \in Seq(1 .. 31) /\ Lengths # <<>>
  /\ FirstWeekday \in 1 .. 7
  /\ Cap \in Nat \ {0}

Months == DOMAIN Lengths

\* startOfMonth, endOfMonth
FirstOf == [m \in Months |-> 1 + SumFunction([k \in 1 .. m - 1 |-> Lengths[k]])]
LastOf(m) == FirstOf[m] + Lengths[m] - 1

Days == 1 .. LastOf(Len(Lengths))

MonthOf(d) == CHOOSE m \in Months : FirstOf[m] <= d /\ d <= LastOf(m)
DayOfMonth(d) == d - FirstOf[MonthOf(d)] + 1
Weekday(d) == ((d + FirstWeekday - 2) % 7) + 1

\* clampDayToMonth, clampToMonth
ClampedDay(m, day) == FirstOf[m] + Min({Max({day, 1}), Lengths[m]}) - 1

-----------------------------------------------------------------------------
(* Fixed expenses.                                                         *)

StepDays == [DAILY |-> 1, WEEKLY |-> 7, BIWEEKLY |-> 14]
StepMonths == [MONTHLY |-> 1, QUARTERLY |-> 3, YEARLY |-> 12]

Frequencies == DOMAIN StepDays \cup DOMAIN StepMonths

\* day is dayOfPayment, or 0; a template without an end has the last day there is.
IsTemplate(t) ==
  t.frequency \in Frequencies /\ t.day \in 0 .. 31 /\ t.start \in Days /\ t.end \in Days

CeilDiv(a, b) == (a + b - 1) \div b

\* Slip of IntervalDates: the steps are counted from the window instead of the start.
IntervalDatesAnew(t, first, last) ==
  {d \in first .. last : (d - first) % StepDays[t.frequency] = 0}

\* computeIntervalDueDates: from the first step that is not before the window
IntervalDates(t, first, last) ==
  LET step == StepDays[t.frequency]
      cursor == t.start + step * Max({0, CeilDiv(first - t.start, step)})
  IN  {d \in cursor .. last : (d - cursor) % step = 0}

\* computeMonthStepDueDates
MonthStepDates(t, first, last) ==
  LET from == MonthOf(t.start)
      day == IF t.day = 0 THEN DayOfMonth(t.start) ELSE t.day
      months == {m \in from .. MonthOf(last) : (m - from) % StepMonths[t.frequency] = 0}
  IN  {ClampedDay(m, day) : m \in months} \cap (first .. last)

FirstOnes(ds) ==
  IF Cardinality(ds) <= Cap THEN ds ELSE {d \in ds : Cardinality({e \in ds : e < d}) < Cap}

\* computeDueDates, within resolveEffectiveRange
DueDates(t, from, to) ==
  LET first == Max({from, t.start})
      last == Min({to, t.end})
  IN  IF first > last THEN {}
      ELSE FirstOnes(IF t.frequency \in DOMAIN StepDays
                     THEN IntervalDates(t, first, last) ELSE MonthStepDates(t, first, last))

-----------------------------------------------------------------------------
(* The salary and its bonuses.                                             *)

\* payDays is a sequence: one weekday, two days of the month, or one.
PayDates(salary, from, to) ==
  CASE from > to \/ salary.payDays = <<>> -> {}
    [] from <= to /\ salary.payDays # <<>> /\ salary.frequency = "WEEKLY" ->
         {d \in from .. to : Weekday(d) = salary.payDays[1]}
    [] OTHER ->
         {ClampedDay(m, salary.payDays[i]) :
            m \in MonthOf(from) .. MonthOf(to),
            i \in DOMAIN salary.payDays \cap (IF salary.frequency = "BIWEEKLY" THEN 1 .. 2 ELSE {1})}
         \cap (from .. to)

BonusMonths == [MONTHLY |-> 1, BIMONTHLY |-> 2, QUARTERLY |-> 3, SEMIANNUAL |-> 6, ANNUAL |-> 12]

\* expandBonusOccurrences
BonusDates(bonus, from, to) ==
  LET every == BonusMonths[bonus.frequency] IN
  {ClampedDay(m, bonus.day) :
     m \in {k \in Months : (((k - 1) % 12) - (bonus.anchor - 1)) % every = 0}} \cap (from .. to)
=============================================================================
