----------------------------- MODULE MCProjection -----------------------------
(***************************************************************************)
(* Two weeks of a user, from late January to mid February of a year that   *)
(* begins on a Thursday, in a calendar of fourteen months.                 *)
(***************************************************************************)
EXTENDS Projection

CONSTANTS cop, usd

MCLengths == <<31, 28, 31, 30, 31, 30, 31, 31, 30, 31, 30, 31, 31, 28>>
Forever == 424

On(m, day) == ClampedDay(m, day)

Every(frequency, day, start, end) ==
  [frequency |-> frequency, day |-> day, start |-> start, end |-> end]

Rent == Every("MONTHLY", 31, On(1, 20), On(2, 28))

MCTemplates ==
  {Rent, Every("MONTHLY", 0, On(1, 30), Forever), Every("MONTHLY", 1, On(1, 15), On(9, 1)),
   Every("DAILY", 0, On(2, 10), On(2, 20)), Every("WEEKLY", 0, On(1, 3), Forever),
   Every("BIWEEKLY", 0, On(1, 31), On(12, 1)), Every("QUARTERLY", 30, On(1, 31), Forever),
   Every("YEARLY", 0, On(2, 28), Forever)}

Bill(t, d, amt) == [of |-> t, due |-> d, amt |-> amt, cur |-> cop]

\* The rent of January and February, and a bill that is overdue from the start.
MCBills ==
  {Bill(Rent, d, 3) : d \in DueDates(Rent, 1, Forever)}
    \cup {Bill(Every("MONTHLY", 1, On(1, 15), On(9, 1)), On(1, 15), 1)}

Row(direction, due, principal, interest, cur) ==
  [direction |-> direction, due |-> due, principal |-> principal, interest |-> interest, cur |-> cur]

MCDues == {Row("PAYABLE", On(1, 30), 1, 1, usd), Row("RECEIVABLE", On(2, 10), 1, 1, cop)}

Pay(frequency, payDays) == [amt |-> 4, cur |-> cop, frequency |-> frequency, payDays |-> payDays]
MonthlySalary == Pay("MONTHLY", <<31>>)
TwiceAMonth == Pay("BIWEEKLY", <<10, 25>>)

MCBonuses == {[amt |-> 2, cur |-> usd, frequency |-> "SEMIANNUAL", anchor |-> 2, day |-> 14]}

MCRate == [c \in Currencies |-> IF c = cop THEN 1 ELSE 3]
MCEstimate == [c \in Currencies |-> IF c = cop THEN 5 ELSE 1]
MCOpening == [c \in Currencies |-> 4]
=============================================================================
