----------------------------- MODULE LoansProofs -----------------------------
(***************************************************************************)
(* Theorems about loans, for every number of requests, every term, rate    *)
(* and style: type correctness; no deadlock; what was paid stays; the      *)
(* cache, the schedule and the debt move together; a loan is a debt.       *)
(*                                                                         *)
(* First the rows of a schedule, then the tables, then the control of a    *)
(* request, then what each step does to the tables (Effect), from which the*)
(* properties follow.                                                      *)
(***************************************************************************)
EXTENDS Loans, SumsProofs

-----------------------------------------------------------------------------
(* Amortization schedules (lib/loans/interest.ts): the rows of a plan are  *)
(* never negative, never take more than is still owed, and add up to the   *)
(* principal, however they are rounded.                                    *)

IsPower(h, b, n) == h = [k \in 0 .. n |-> IF k = 0 THEN 1 ELSE b * h[k - 1]]

LEMMA PowerUnfolds ==
  ASSUME NEW b \in Nat, NEW n \in Nat
  PROVE  \E h : IsPower(h, b, n) /\ Power(b, n) = h[n]
<1> DEFINE F == [x \in (1 .. n) \X Int |-> b * x[2]]
<1>1. F \in [(1 .. n) \X Int -> Int]
  OBVIOUS
<1>2. PICK h \in [0 .. n -> Int] : IsChain(h, F, 1, n)
  <2> HIDE DEF F
  <2>1. \A base \in Int : \E h \in [0 .. n -> Int] : IsChain(h, F, base, n)
    BY <1>1, ChainExists
  <2> QED BY <2>1
<1>3. \A k \in 0 .. n : h[k] = IF k = 0 THEN 1 ELSE b * h[k - 1]
  <2> SUFFICES ASSUME NEW k \in 0 .. n PROVE h[k] = IF k = 0 THEN 1 ELSE b * h[k - 1]
    OBVIOUS
  <2>1. h[k] = IF k = 0 THEN 1 ELSE F[<<k, h[k - 1]>>]
    <3> HIDE DEF F
    <3> QED BY <1>2 DEF IsChain
  <2>2. CASE k # 0
    <3>1. k \in 1 .. n /\ h[k - 1] \in Int
      BY <2>2
    <3> QED BY <2>1, <2>2, <3>1
  <2> QED BY <2>1, <2>2
<1>4. IsPower(h, b, n)
  <2>1. h = [k \in 0 .. n |-> h[k]]
    OBVIOUS
  <2> QED BY <1>3, <2>1 DEF IsPower
<1>5. IsPower(CHOOSE f : IsPower(f, b, n), b, n)
  BY <1>4
<1>6. Power(b, n) = (CHOOSE f : IsPower(f, b, n))[n]
  BY DEF Power, IsPower
<1> QED BY <1>5, <1>6

\* A larger base has a larger power, so the divisor of the French quota is positive.
LEMMA PowerGrows ==
  ASSUME NEW b \in Nat \ {0}, NEW c \in Nat, c > b, NEW n \in Nat
  PROVE  /\ Power(b, n) \in Nat \ {0}
         /\ Power(c, n) \in Nat \ {0}
         /\ n > 0 => Power(c, n) > Power(b, n)
<1>1. PICK h : IsPower(h, b, n) /\ Power(b, n) = h[n]
  BY PowerUnfolds
<1>2. PICK g : IsPower(g, c, n) /\ Power(c, n) = g[n]
  BY PowerUnfolds
<1> DEFINE Good(k) == /\ h[k] \in Nat \ {0} /\ g[k] \in Nat \ {0}
                      /\ k > 0 => g[k] > h[k]
           Bad == {k \in 0 .. n : ~ Good(k)}
<1> SUFFICES ASSUME Bad # {} PROVE FALSE
  BY <1>1, <1>2
<1>3. PICK m \in Bad : \A t \in Bad : m <= t
  <2>1. Bad \in SUBSET Nat
    OBVIOUS
  <2> HIDE DEF Bad
  <2> QED BY <2>1, LeastNumber
<1>4. \A k \in 0 .. n : /\ h[k] = IF k = 0 THEN 1 ELSE b * h[k - 1]
                        /\ g[k] = IF k = 0 THEN 1 ELSE c * g[k - 1]
  BY <1>1, <1>2 DEF IsPower
<1>5. m \in 0 .. n /\ ~ Good(m)
  OBVIOUS
<1>6. m # 0
  BY <1>4, <1>5
<1>7. m - 1 \in 0 .. n /\ m - 1 \notin Bad
  BY <1>3, <1>5, <1>6
<1>8. Good(m - 1)
  BY <1>7
<1> DEFINE x == h[m - 1]
           y == g[m - 1]
<1>9. x \in Nat \ {0} /\ y \in Nat \ {0} /\ y >= x
  <2>1. CASE m = 1
    BY <1>4, <1>8, <2>1
  <2>2. CASE m # 1
    BY <1>5, <1>6, <1>8, <2>2
  <2> QED BY <2>1, <2>2
<1>10. h[m] = b * x /\ g[m] = c * y
  BY <1>4, <1>5, <1>6
<1> HIDE DEF x, y
<1>11. b * x \in Nat \ {0} /\ c * y \in Nat \ {0} /\ c * y > b * x
  <2>1. c * y >= (b + 1) * y
    BY <1>9
  <2>2. (b + 1) * y = b * y + y
    BY <1>9
  <2>3. b * y >= b * x
    BY <1>9
  <2>4. b * x \in Nat \ {0} /\ c * y \in Nat /\ b * y \in Nat
    BY <1>9
  <2> QED BY <2>1, <2>2, <2>3, <2>4, <1>9
<1> QED BY <1>5, <1>10, <1>11

-----------------------------------------------------------------------------
\* What CreateLoanSchema and regenerateFutureSchedule hand over to the schedule.
IsPlan(plan) ==
  /\ plan.style \in Styles
  /\ plan.principal \in Nat
  /\ plan.term \in Nat \ {0}
  /\ plan.io \in Nat /\ plan.io < plan.term
  /\ plan.rate \in Nat /\ plan.fixed \in Nat
  /\ \A k \in 1 .. plan.term : plan.charge[k] \in Nat /\ plan.totals[k] \in Nat

LEMMA QuotaIsNat ==
  ASSUME NEW principal \in Nat, NEW rate \in Nat, NEW n \in Nat \ {0}
  PROVE  FrenchQuota(principal, rate, n) \in Nat
<1>1. CASE rate = 0
  BY <1>1, RoundDivNat DEF FrenchQuota
<1>2. CASE rate # 0
  <2> DEFINE grown == Power(Unit + rate, n)
             one == Power(Unit, n)
  <2>1. grown \in Nat /\ one \in Nat /\ grown > one
    <3>1. Unit \in Nat \ {0} /\ Unit + rate \in Nat /\ Unit + rate > Unit
      BY <1>2, UnitAssumption
    <3>2. \A c \in Nat : c > Unit =>
            /\ Power(Unit, n) \in Nat \ {0} /\ Power(c, n) \in Nat \ {0}
            /\ Power(c, n) > Power(Unit, n)
      BY <3>1, PowerGrows
    <3> QED BY <3>1, <3>2
  <2> HIDE DEF grown, one
  <2>2. Unit * (grown - one) \in Nat \ {0}
    BY <2>1, UnitAssumption
  <2>3. principal * rate * grown \in Nat
    BY <2>1
  <2>4. RoundDiv(principal * rate * grown, Unit * (grown - one)) \in Nat
    BY <2>2, <2>3, RoundDivNat
  <2> QED BY <1>2, <2>4 DEF FrenchQuota, grown, one
<1> QED BY <1>1, <1>2

\* A row takes no more than is still owed, and the last row takes all of it.
LEMMA RowBounds ==
  ASSUME NEW plan, IsPlan(plan), NEW k \in 1 .. plan.term, NEW balance \in Nat
  PROVE  /\ Row(plan, k, balance).principal \in 0 .. balance
         /\ Row(plan, k, balance).interest \in Nat
         /\ k = plan.term => Row(plan, k, balance).principal = balance
         /\ Row(plan, k, balance) \in [principal : Nat, interest : Nat]
<1>1. InterestDue(plan, k, balance) \in Nat
  <2>1. balance * plan.charge[k] \in Nat
    BY DEF IsPlan
  <2> QED BY <2>1, UnitAssumption, RoundDivNat DEF InterestDue
<1>2. ASSUME ~InterestOnly(plan, k) PROVE Portion(plan, k, balance) \in 0 .. balance
  <2>1. k > plan.io /\ plan.term - plan.io \in Nat \ {0}
    BY <1>2 DEF InterestOnly, IsPlan
  <2>2. Quota(plan) \in Nat
    BY <2>1, QuotaIsNat DEF Quota, IsPlan
  <2>3. \A x \in Int : Clamp(x, balance) \in 0 .. balance
    BY DEF Clamp
  <2>4. RoundDiv(plan.principal, plan.term - plan.io) \in Nat
    BY <2>1, RoundDivNat DEF IsPlan
  <2>5. RoundDiv(balance, plan.term - plan.io) \in 0 .. balance
    BY <2>1, RoundDivNat
  <2>6. plan.totals[k] \in Nat /\ plan.style \in Styles
    BY DEF IsPlan
  <2>7. CASE plan.style = "FRENCH"
    BY <2>2, <2>3, <2>7, <1>1 DEF Portion
  <2>8. CASE plan.style = "GERMAN"
    BY <2>3, <2>4, <2>8 DEF Portion
  <2>9. CASE plan.style = "CUSTOM"
    BY <2>3, <2>5, <2>6, <2>9, <1>1 DEF Portion
  <2>10. CASE plan.style = "AMERICAN"
    BY <2>5, <2>10 DEF Portion
  <2> QED BY <2>6, <2>7, <2>8, <2>9, <2>10 DEF Styles
<1>3. ~InterestOnly(plan, plan.term)
  BY DEF InterestOnly, IsPlan
<1> QED BY <1>1, <1>2, <1>3 DEF Row

IsBalance(h, plan) ==
  h = [k \in 0 .. plan.term |->
         IF k = 0 THEN plan.principal ELSE h[k - 1] - Row(plan, k, h[k - 1]).principal]

\* Balances is what its definition says: the recursion is well-founded.
LEMMA BalancesUnfold ==
  ASSUME NEW plan, IsPlan(plan)
  PROVE  IsBalance(Balances(plan), plan)
<1> DEFINE n == plan.term
           F == [x \in (1 .. n) \X Int |->
                   IF x[2] \in Nat THEN x[2] - Row(plan, x[1], x[2]).principal ELSE 0]
<1>1. F \in [(1 .. n) \X Int -> Int]
  <2> SUFFICES ASSUME NEW k \in 1 .. n, NEW b \in Nat
               PROVE  b - Row(plan, k, b).principal \in Int
    OBVIOUS
  <2> QED BY RowBounds
<1>2. n \in Nat /\ plan.principal \in Int
  BY DEF IsPlan
<1>3. PICK h \in [0 .. n -> Int] : IsChain(h, F, plan.principal, n)
  <2> HIDE DEF F, n
  <2> QED BY <1>1, <1>2, ChainExists
<1>4. \A k \in 0 .. n : h[k] = IF k = 0 THEN plan.principal ELSE F[<<k, h[k - 1]>>]
  <2> HIDE DEF F, n
  <2> QED BY <1>3 DEF IsChain
<1>5. \A k \in 0 .. n : h[k] \in Nat
  <2> DEFINE Bad == {k \in 0 .. n : h[k] \notin Nat}
  <2> SUFFICES ASSUME Bad # {} PROVE FALSE
    OBVIOUS
  <2>1. PICK m \in Bad : \A t \in Bad : m <= t
    <3>1. Bad \in SUBSET Nat
      BY <1>2
    <3> HIDE DEF Bad
    <3> QED BY <3>1, LeastNumber
  <2>2. m \in 0 .. n /\ h[m] \notin Nat
    OBVIOUS
  <2>3. m # 0
    <3> HIDE DEF F
    <3> QED BY <1>4, <2>2 DEF IsPlan
  <2>4. m - 1 \in 0 .. n /\ m - 1 \notin Bad
    BY <1>2, <2>1, <2>2, <2>3
  <2>5. h[m - 1] \in Nat /\ m \in 1 .. n
    BY <1>2, <2>2, <2>3, <2>4
  <2>6. h[m] = h[m - 1] - Row(plan, m, h[m - 1]).principal
    <3>1. h[m] = F[<<m, h[m - 1]>>]
      BY <1>4, <2>2, <2>3
    <3> QED BY <2>5, <3>1
  <2>7. Row(plan, m, h[m - 1]).principal \in 0 .. h[m - 1]
    BY <2>5, RowBounds
  <2> QED BY <2>2, <2>5, <2>6, <2>7
<1>6. \A k \in 0 .. n : h[k] = IF k = 0 THEN plan.principal
                                ELSE h[k - 1] - Row(plan, k, h[k - 1]).principal
  <2> SUFFICES ASSUME NEW k \in 0 .. n, k # 0
               PROVE  h[k] = h[k - 1] - Row(plan, k, h[k - 1]).principal
    BY <1>4
  <2>1. k - 1 \in 0 .. n /\ k \in 1 .. n
    BY <1>2
  <2>2. h[k - 1] \in Nat
    BY <1>5, <2>1
  <2> QED BY <1>4, <2>1, <2>2
<1>7. IsBalance(h, plan)
  <2>1. h = [k \in 0 .. n |-> h[k]]
    BY <1>3
  <2> HIDE DEF F
  <2> QED BY <1>6, <2>1 DEF IsBalance
<1> HIDE DEF F
<1> QED BY <1>7 DEF Balances, IsBalance

\* What is owed falls, row by row, from the principal to nothing.
LEMMA BalancesFall ==
  ASSUME NEW plan, IsPlan(plan), NEW b, b = Balances(plan)
  PROVE  /\ \A k \in 0 .. plan.term : b[k] \in Nat
         /\ b[0] = plan.principal /\ b[plan.term] = 0
         /\ \A k \in 1 .. plan.term :
              /\ Rows(plan)[k] = Row(plan, k, b[k - 1])
              /\ b[k] = b[k - 1] - Rows(plan)[k].principal
<1> DEFINE n == plan.term
<1>0. n \in Nat \ {0} /\ plan.principal \in Nat
  BY DEF IsPlan
<1>1. \A k \in 0 .. n : b[k] = IF k = 0 THEN plan.principal
                                ELSE b[k - 1] - Row(plan, k, b[k - 1]).principal
  BY BalancesUnfold DEF IsBalance
<1>2. \A k \in 0 .. n : b[k] \in Nat
  <2> DEFINE Bad == {k \in 0 .. n : b[k] \notin Nat}
  <2> SUFFICES ASSUME Bad # {} PROVE FALSE
    OBVIOUS
  <2>1. PICK m \in Bad : \A t \in Bad : m <= t
    <3>1. Bad \in SUBSET Nat
      BY <1>0
    <3> HIDE DEF Bad
    <3> QED BY <3>1, LeastNumber
  <2>2. m \in 0 .. n /\ b[m] \notin Nat
    OBVIOUS
  <2>3. m # 0
    BY <1>0, <1>1, <2>2
  <2>4. m - 1 \in 0 .. n /\ m - 1 \notin Bad
    BY <1>0, <2>1, <2>2, <2>3
  <2>5. b[m - 1] \in Nat /\ m \in 1 .. n
    BY <1>0, <2>2, <2>3, <2>4
  <2>6. Row(plan, m, b[m - 1]).principal \in 0 .. b[m - 1]
    BY <2>5, RowBounds
  <2> QED BY <1>1, <2>2, <2>3, <2>5, <2>6
<1>3. \A k \in 1 .. n : Rows(plan)[k] = Row(plan, k, b[k - 1])
  BY DEF Rows
<1>4. \A k \in 1 .. n : b[k] = b[k - 1] - Rows(plan)[k].principal
  BY <1>0, <1>1, <1>3
<1>5. b[0] = plan.principal
  BY <1>0, <1>1
<1>6. b[n] = 0
  <2>1. n \in 1 .. n /\ n - 1 \in 0 .. n
    BY <1>0
  <2>2. Row(plan, n, b[n - 1]).principal = b[n - 1]
    BY <1>2, <2>1, RowBounds
  <2>3. b[n] = b[n - 1] - b[n - 1]
    BY <1>3, <1>4, <2>1, <2>2
  <2> QED BY <1>2, <2>1, <2>3
<1> QED BY <1>2, <1>3, <1>4, <1>5, <1>6

LEMMA RowsAre ==
  ASSUME NEW plan, IsPlan(plan)
  PROVE  Rows(plan) \in [1 .. plan.term -> [principal : Nat, interest : Nat]]
<1> DEFINE b == Balances(plan)
<1>1. \A k \in 0 .. plan.term : b[k] \in Nat
  BY BalancesFall
<1>2. \A k \in 1 .. plan.term : Row(plan, k, b[k - 1]) \in [principal : Nat, interest : Nat]
  <2> SUFFICES ASSUME NEW k \in 1 .. plan.term
               PROVE  Row(plan, k, b[k - 1]) \in [principal : Nat, interest : Nat]
    OBVIOUS
  <2>1. k - 1 \in 0 .. plan.term
    BY DEF IsPlan
  <2> QED BY <1>1, <2>1, RowBounds
<1> QED BY <1>2 DEF Rows

-----------------------------------------------------------------------------
\* The rows of a schedule add up to the principal, in every style, for every rate and
\* whatever is lost or won by rounding on the way (buildAmortizationSchedule lets the
\* last row take the rest).  f is what a table of installments keeps of the rows when the
\* first of them is put at from, as regenerateFutureSchedule does.
THEOREM RowsCarryThePrincipal ==
  ASSUME NEW plan, IsPlan(plan), NEW from \in Nat \ {0}, NEW f,
         \A n \in from .. (from + plan.term - 1) : f[n] = Rows(plan)[n - from + 1].principal
  PROVE  SumOn(f, from .. (from + plan.term - 1)) = plan.principal
<1> DEFINE b == Balances(plan)
           S(k) == from .. (from + k - 1)
           Bad == {k \in 0 .. plan.term : SumOn(f, S(k)) # plan.principal - b[k]}
<1>0. plan.term \in Nat \ {0} /\ plan.principal \in Nat
  BY DEF IsPlan
<1>1. /\ \A k \in 0 .. plan.term : b[k] \in Nat
      /\ b[0] = plan.principal /\ b[plan.term] = 0
      /\ \A k \in 1 .. plan.term : b[k] = b[k - 1] - Rows(plan)[k].principal
  BY BalancesFall
<1> HIDE DEF b
<1>2. \A k \in 1 .. plan.term : Rows(plan)[k].principal \in Nat
  BY RowsAre
<1>3. ASSUME Bad # {} PROVE FALSE
  <2>1. PICK m \in Bad : \A t \in Bad : m <= t
    <3>1. Bad \in SUBSET Nat
      BY <1>0
    <3> HIDE DEF Bad
    <3> QED BY <1>3, <3>1, LeastNumber
  <2>2. m \in 0 .. plan.term /\ SumOn(f, S(m)) # plan.principal - b[m]
    OBVIOUS
  <2>3. m # 0
    <3> SUFFICES ASSUME m = 0 PROVE FALSE
      OBVIOUS
    <3>1. S(0) = {}
      OBVIOUS
    <3>2. SumOn(f, S(0)) = 0
      BY <3>1, SumEmpty
    <3> QED BY <1>0, <1>1, <2>2, <3>2
  <2>4. m - 1 \in 0 .. plan.term /\ m \in 1 .. plan.term /\ m - 1 \notin Bad
    BY <1>0, <2>1, <2>2, <2>3
  <2>5. SumOn(f, S(m - 1)) = plan.principal - b[m - 1]
    BY <2>4
  <2> DEFINE x == from + m - 1
  <2>6. x \in S(m) /\ S(m) \ {x} = S(m - 1)
    BY <2>4, <1>0
  <2>7. IsFiniteSet(S(m))
    BY <2>4, <1>0, FS_Interval
  <2>8. \A y \in S(m) : f[y] \in Int
    <3> SUFFICES ASSUME NEW y \in S(m) PROVE f[y] \in Int
      OBVIOUS
    <3>1. y \in from .. (from + plan.term - 1) /\ y - from + 1 \in 1 .. plan.term
      BY <1>0, <2>4
    <3> QED BY <1>2, <3>1
  <2>9. SumOn(f, S(m)) = f[x] + SumOn(f, S(m) \ {x})
    <3> HIDE DEF S, x
    <3> QED BY <2>6, <2>7, <2>8, SumWithout
  <2>10. f[x] = Rows(plan)[m].principal
    <3>1. x \in from .. (from + plan.term - 1) /\ x - from + 1 = m
      BY <1>0, <2>4
    <3> QED BY <3>1
  <2>11. b[m] = b[m - 1] - Rows(plan)[m].principal /\ b[m - 1] \in Nat
    BY <1>1, <2>4
  <2>12. Rows(plan)[m].principal \in Nat
    BY <1>2, <2>4
  <2> HIDE DEF S, x, Bad
  <2> QED BY <1>0, <2>2, <2>5, <2>6, <2>9, <2>10, <2>11, <2>12
<1>4. plan.term \in 0 .. plan.term
  BY <1>0
<1> QED BY <1>0, <1>1, <1>3, <1>4

-----------------------------------------------------------------------------
(* The tables of a loan.                                                   *)

Table == [Numbers -> Installment \cup {NoRow}]
Log == [Procs -> Payment \cup Adjustment \cup {NoRow}]

\* A row that carries no payment: it is untouched, or not there.
Untouched(row) ==
  row = NoRow \/ (row.status = "PENDING" /\ row.paidPrincipal = 0 /\ row.paidInterest = 0)

\* A row with a payment is active; every other row has had none.
Tidy(rs) ==
  \A n \in Numbers : Untouched(rs[n]) \/ (rs[n].active /\ rs[n].status # "PENDING")

\* What rescheduling may do to the rows: those with a payment stay as they are.
Rearranged(rs, new) ==
  /\ new \in Table
  /\ \A n \in Numbers : IF Untouched(rs[n]) THEN Untouched(new[n]) ELSE new[n] = rs[n]

LEMMA Given ==
  /\ IsFiniteSet(Procs) /\ IsFiniteSet(Numbers)
  /\ MaxTerm \in Nat \ {0} /\ Numbers \subseteq Nat \ {0}
  /\ NoProc \notin Procs /\ NoAccount \notin Accounts
  /\ NoRow \notin Loan /\ NoRow \notin Installment /\ NoRow \notin Payment
  /\ NoRow \notin Adjustment /\ NoRow \notin Entry
  /\ LoanRow \notin Accounts /\ LoanRow \notin Numbers
  /\ Accounts \cap Numbers = {}
<1>1. MaxTerm \in Nat \ {0}
  BY LoansAssumption
<1>2. IsFiniteSet(Numbers)
  BY <1>1, FS_Interval DEF Numbers
<1> QED
  BY <1>1, <1>2, LoansAssumption DEF Numbers

LEMMA MinIs ==
  ASSUME NEW S \in SUBSET Nat, S # {}
  PROVE  Min(S) \in S /\ \A x \in S : Min(S) <= x
<1>1. \E m \in S : \A x \in S : m <= x
  BY LeastNumber
<1> QED
  BY <1>1 DEF Min

-----------------------------------------------------------------------------
(* Sums over the tables.                                                   *)

LentBy(m, op) ==
  SumFunction([q \in Procs |-> IF m[q] # NoRow /\ m[q].op = op THEN m[q].amt ELSE 0])

LEMMA LentTypes ==
  ASSUME NEW m \in Log, NEW op \in Adjustments
  PROVE  LentBy(m, op) \in Nat
<1> DEFINE f == [q \in Procs |-> IF m[q] # NoRow /\ m[q].op = op THEN m[q].amt ELSE 0]
<1>1. f \in [Procs -> Nat]
  <2> SUFFICES ASSUME NEW q \in Procs, m[q] # NoRow, m[q].op = op PROVE m[q].amt \in Nat
    OBVIOUS
  <2>1. m[q] \in Payment \cup Adjustment
    BY DEF Log
  <2>2. op # "pay"
    BY DEF Adjustments, Extras, Schedules
  <2> QED
    BY <2>1, <2>2 DEF Payment, Adjustment
<1> HIDE DEF f
<1>2. SumFunction(f) \in Nat
  BY <1>1, Given, SumNat
<1> QED
  BY <1>2 DEF LentBy, f

\* One slot adds what it has made to the log.
LEMMA LentChanges ==
  ASSUME NEW m \in Log, NEW op \in Adjustments, NEW p \in Procs, m[p] = NoRow,
         NEW x \in Payment \cup Adjustment \cup {NoRow}
  PROVE  /\ [m EXCEPT ![p] = x] \in Log
         /\ LentBy([m EXCEPT ![p] = x], op) =
              LentBy(m, op) + (IF x # NoRow /\ x.op = op THEN x.amt ELSE 0)
<1> DEFINE k == [m EXCEPT ![p] = x]
           f == [q \in Procs |-> IF m[q] # NoRow /\ m[q].op = op THEN m[q].amt ELSE 0]
           g == [q \in Procs |-> IF k[q] # NoRow /\ k[q].op = op THEN k[q].amt ELSE 0]
<1>1. k \in Log
  BY DEF Log
<1>2. op # "pay"
  BY DEF Adjustments, Extras, Schedules
<1>3. ASSUME NEW h \in Log, NEW q \in Procs, h[q] # NoRow, h[q].op = op PROVE h[q].amt \in Nat
  <2>1. h[q] \in Payment \cup Adjustment
    BY <1>3 DEF Log
  <2> QED
    BY <1>2, <1>3, <2>1 DEF Payment, Adjustment
<1>4. f \in [Procs -> Int]
  BY <1>3
<1>5. g \in [Procs -> Int]
  <2> HIDE DEF k
  <2> QED
    BY <1>1, <1>3
<1>6. \A q \in Procs : q # p => g[q] = f[q]
  BY DEF Log
<1>7. f[p] = 0 /\ g[p] = IF x # NoRow /\ x.op = op THEN x.amt ELSE 0
  BY DEF Log
<1>8. SumFunction(f) = LentBy(m, op) /\ SumFunction(g) = LentBy(k, op)
  BY DEF LentBy
<1>9. LentBy(m, op) \in Nat
  BY LentTypes
<1>10. g[p] \in Int
  BY <1>5
<1> HIDE DEF f, g, k
<1>11. SumFunction(g) = SumFunction(f) + (g[p] - f[p])
  BY <1>4, <1>5, <1>6, Given, SumChangesAt
<1>12. LentBy(k, op) = LentBy(m, op) + g[p]
  BY <1>7, <1>8, <1>9, <1>10, <1>11
<1> QED
  BY <1>1, <1>7, <1>12 DEF k

ExtraOf(m) == LentBy(m, "disburse") - LentBy(m, "extra")

LEMMA ExtraIs ==
  /\ Extra = ExtraOf(made) /\ Extra' = ExtraOf(made')
  /\ \A op : Lent(op) = LentBy(made, op) /\ Lent(op)' = LentBy(made', op)
BY DEF Extra, ExtraOf, Lent, LentBy, Made

LEMMA ExtraTypes ==
  ASSUME NEW m \in Log
  PROVE  ExtraOf(m) \in Int
BY LentTypes DEF ExtraOf, Adjustments, Extras

\* An adjustment that neither lends nor repays leaves the sums alone; the others add to one.
LEMMA ExtraChanges ==
  ASSUME NEW m \in Log, NEW p \in Procs, m[p] = NoRow,
         NEW x \in Payment \cup Adjustment \cup {NoRow}
  PROVE  LET k == [m EXCEPT ![p] = x] IN
         /\ k \in Log
         /\ x = NoRow \/ x.op \notin Extras =>
              /\ LentBy(k, "disburse") = LentBy(m, "disburse")
              /\ LentBy(k, "extra") = LentBy(m, "extra")
              /\ ExtraOf(k) = ExtraOf(m)
         /\ x # NoRow /\ x.op = "disburse" =>
              /\ LentBy(k, "disburse") = LentBy(m, "disburse") + x.amt
              /\ LentBy(k, "extra") = LentBy(m, "extra")
              /\ ExtraOf(k) = ExtraOf(m) + x.amt
         /\ x # NoRow /\ x.op = "extra" =>
              /\ LentBy(k, "disburse") = LentBy(m, "disburse")
              /\ LentBy(k, "extra") = LentBy(m, "extra") + x.amt
              /\ ExtraOf(k) = ExtraOf(m) - x.amt
<1> DEFINE k == [m EXCEPT ![p] = x]
<1>1. "disburse" \in Adjustments /\ "extra" \in Adjustments
  BY DEF Adjustments, Extras
<1>2. /\ k \in Log
      /\ LentBy(k, "disburse") =
           LentBy(m, "disburse") + (IF x # NoRow /\ x.op = "disburse" THEN x.amt ELSE 0)
      /\ LentBy(k, "extra") =
           LentBy(m, "extra") + (IF x # NoRow /\ x.op = "extra" THEN x.amt ELSE 0)
  BY <1>1, LentChanges
<1>3. LentBy(m, "disburse") \in Nat /\ LentBy(m, "extra") \in Nat
  BY <1>1, LentTypes
<1>4. x # NoRow /\ x.op \in Extras => x.amt \in Nat
  BY DEF Payment, Adjustment, Extras
<1> HIDE DEF k
<1> QED
  BY <1>2, <1>3, <1>4 DEF ExtraOf, Extras, k

LEMMA PaidTypes ==
  ASSUME NEW rs \in Table
  PROVE  PaidPrincipal(rs) \in Nat
<1> DEFINE f == [n \in Numbers |-> IF Active(rs, n) THEN rs[n].paidPrincipal ELSE 0]
<1>1. f \in [Numbers -> Nat]
  <2> SUFFICES ASSUME NEW n \in Numbers, Active(rs, n) PROVE rs[n].paidPrincipal \in Nat
    OBVIOUS
  <2>1. rs[n] \in Installment
    BY DEF Table, Active
  <2> QED
    BY <2>1 DEF Installment
<1> HIDE DEF f
<1>2. SumFunction(f) \in Nat
  BY <1>1, Given, SumNat
<1> QED
  BY <1>2 DEF PaidPrincipal, f

LEMMA PaidStays ==
  ASSUME NEW rs \in Table, Tidy(rs), NEW new, Rearranged(rs, new)
  PROVE  /\ Tidy(new)
         /\ PaidPrincipal(new) = PaidPrincipal(rs)
<1>1. Tidy(new)
  <2> SUFFICES ASSUME NEW n \in Numbers
               PROVE  Untouched(new[n]) \/ (new[n].active /\ new[n].status # "PENDING")
    BY DEF Tidy
  <2> QED
    BY DEF Tidy, Rearranged
<1>2. \A n \in Numbers : (IF Active(new, n) THEN new[n].paidPrincipal ELSE 0) =
                         (IF Active(rs, n) THEN rs[n].paidPrincipal ELSE 0)
  <2> SUFFICES ASSUME NEW n \in Numbers
               PROVE  (IF Active(new, n) THEN new[n].paidPrincipal ELSE 0) =
                      (IF Active(rs, n) THEN rs[n].paidPrincipal ELSE 0)
    OBVIOUS
  <2>1. CASE Untouched(rs[n])
    <3>1. Untouched(new[n])
      BY <2>1 DEF Rearranged
    <3> QED
      BY <2>1, <3>1 DEF Active, Untouched
  <2>2. CASE ~Untouched(rs[n])
    <3>1. new[n] = rs[n]
      BY <2>2 DEF Rearranged
    <3> QED
      BY <3>1 DEF Active
  <2> QED
    BY <2>1, <2>2
<1> QED
  BY <1>1, <1>2 DEF PaidPrincipal

LEMMA PaidMore ==
  ASSUME NEW rs \in Table, NEW n \in Numbers, Active(rs, n),
         NEW row \in Installment, row.active
  PROVE  PaidPrincipal([rs EXCEPT ![n] = row]) =
           PaidPrincipal(rs) + (row.paidPrincipal - rs[n].paidPrincipal)
<1> DEFINE new == [rs EXCEPT ![n] = row]
           f == [k \in Numbers |-> IF Active(rs, k) THEN rs[k].paidPrincipal ELSE 0]
           g == [k \in Numbers |-> IF Active(new, k) THEN new[k].paidPrincipal ELSE 0]
<1>1. new \in Table /\ new[n] = row /\ \A k \in Numbers : k # n => new[k] = rs[k]
  BY DEF Table
<1>2. \A t \in Table : \A k \in Numbers : Active(t, k) => t[k].paidPrincipal \in Nat
  <2> SUFFICES ASSUME NEW t \in Table, NEW k \in Numbers, Active(t, k)
               PROVE  t[k].paidPrincipal \in Nat
    OBVIOUS
  <2>1. t[k] \in Installment
    BY DEF Table, Active
  <2> QED
    BY <2>1 DEF Installment
<1> HIDE DEF new
<1>3. f \in [Numbers -> Int] /\ g \in [Numbers -> Int]
  BY <1>1, <1>2
<1>4. row # NoRow
  BY Given
<1>5. f[n] = rs[n].paidPrincipal /\ g[n] = row.paidPrincipal
  BY <1>1, <1>4 DEF Active
<1>6. \A k \in Numbers : k # n => g[k] = f[k]
  BY <1>1 DEF Active
<1>7. SumFunction(f) = PaidPrincipal(rs) /\ SumFunction(g) = PaidPrincipal(new)
  BY DEF PaidPrincipal
<1> HIDE DEF f, g
<1>8. SumFunction(g) = SumFunction(f) + (g[n] - f[n])
  <2>1. IsFiniteSet(Numbers)
    BY Given
  <2> QED
    BY <1>3, <1>6, <2>1, SumChangesAt
<1> QED
  BY <1>5, <1>7, <1>8 DEF new

-----------------------------------------------------------------------------
(* The schedule.                                                           *)

LEMMA NewRowTypes ==
  ASSUME NEW row \in [principal : Nat, interest : Nat]
  PROVE  NewRow(row) \in Installment /\ Untouched(NewRow(row)) /\ NewRow(row).active
BY DEF NewRow, Installment, Total, Untouched

LEMMA RewrittenTypes ==
  ASSUME NEW row \in [principal : Nat, interest : Nat], NEW old \in Installment \cup {NoRow},
         Untouched(old)
  PROVE  LET new == Rewritten(old, row) IN
         /\ new \in Installment /\ Untouched(new) /\ new.active
         /\ new.principal = row.principal
<1>1. CASE old = NoRow
  BY <1>1, NewRowTypes DEF Rewritten, NewRow
<1>2. CASE old # NoRow
  <2>1. old \in Installment /\ old.paidPrincipal = 0 /\ old.paidInterest = 0
    BY <1>2 DEF Untouched
  <2>2. row.principal + row.interest \in Nat
    OBVIOUS
  <2> QED
    BY <1>2, <2>1, <2>2 DEF Rewritten, Installment, Total, Untouched
<1> QED
  BY <1>1, <1>2

LEMMA ClearedRearranges ==
  ASSUME NEW rs \in Table, Tidy(rs), NEW from \in Nat
  PROVE  /\ Rearranged(rs, Cleared(rs, from))
         /\ \A n \in Numbers : n < from => Cleared(rs, from)[n] = rs[n]
         /\ PendingFrom(Cleared(rs, from), 1) = {n \in PendingFrom(rs, 1) : n < from}
         /\ \A n \in Numbers : ~Untouched(rs[n]) => Cleared(rs, from)[n] = rs[n]
<1> DEFINE new == Cleared(rs, from)
<1>1. ASSUME NEW n \in Numbers, n \in PendingFrom(rs, from)
      PROVE  /\ new[n] \in Installment /\ Untouched(new[n]) /\ Untouched(rs[n])
             /\ ~new[n].active
  <2>1. rs[n] \in Installment /\ rs[n] # NoRow /\ rs[n].status = "PENDING"
    BY <1>1 DEF PendingFrom, ActiveRows, Active, Table
  <2>2. Untouched(rs[n])
    BY <2>1 DEF Tidy
  <2>3. new[n] = [rs[n] EXCEPT !.active = FALSE]
    BY <1>1 DEF Cleared
  <2> QED
    BY <2>1, <2>2, <2>3 DEF Installment, Untouched
<1>2. \A n \in Numbers : n \notin PendingFrom(rs, from) => new[n] = rs[n]
  BY DEF Cleared
<1>3. new \in Table
  <2>1. \A n \in Numbers : new[n] \in Installment \cup {NoRow}
    BY <1>1, <1>2 DEF Table
  <2> QED
    BY <2>1 DEF Table, Cleared
<1>4. Rearranged(rs, new)
  BY <1>1, <1>2, <1>3 DEF Rearranged
<1>5. \A n \in Numbers : n \in PendingFrom(rs, from) => n >= from
  BY DEF PendingFrom
<1>6. \A n \in Numbers : n < from => new[n] = rs[n]
  <2> HIDE DEF new
  <2> SUFFICES ASSUME NEW n \in Numbers, n < from PROVE n \notin PendingFrom(rs, from)
    BY <1>2
  <2>1. n \in Nat
    BY Given
  <2> QED
    BY <1>5, <2>1
<1>7. PendingFrom(new, 1) = {n \in PendingFrom(rs, 1) : n < from}
  <2>1. ASSUME NEW n \in Numbers
        PROVE  n \in PendingFrom(new, 1) <=> n \in PendingFrom(rs, 1) /\ n < from
    <3>1. CASE n \in PendingFrom(rs, from)
      BY <1>1, <1>5, <3>1, Given DEF PendingFrom, ActiveRows, Active
    <3>2. CASE n \notin PendingFrom(rs, from)
      <4>1. n >= 1 /\ (n < from \/ n >= from)
        BY Given
      <4>2. new[n] = rs[n]
        BY <1>2, <3>2
      <4> HIDE DEF new
      <4> QED
        BY <3>2, <4>1, <4>2 DEF PendingFrom, ActiveRows, Active
    <3> QED
      BY <3>1, <3>2
  <2> HIDE DEF new
  <2> QED
    BY <2>1 DEF PendingFrom, ActiveRows
<1>8. \A n \in Numbers : ~Untouched(rs[n]) => new[n] = rs[n]
  BY <1>1, <1>2
<1> QED
  BY <1>4, <1>6, <1>7, <1>8

LEMMA RearrangedTwice ==
  ASSUME NEW a \in Table, NEW b, Rearranged(a, b), NEW c, Rearranged(b, c)
  PROVE  Rearranged(a, c)
BY DEF Rearranged

\* The plan from which a schedule is rebuilt.
NextPlan(l, base, from) ==
  LET count == l.term - from + 1
  IN  Plan(l, base, count, Least(Max0(l.io - (from - 1)), count - 1), NoTotals)

LEMMA NextPlanIs ==
  ASSUME NEW l \in Loan, NEW base \in Nat, NEW from \in Numbers, from <= l.term
  PROVE  /\ IsPlan(NextPlan(l, base, from))
         /\ NextPlan(l, base, from).term = l.term - from + 1
         /\ NextPlan(l, base, from).principal = base
<1> DEFINE count == l.term - from + 1
           io == Least(Max0(l.io - (from - 1)), count - 1)
<1>1. /\ l.term \in Numbers /\ l.io \in Nat /\ l.style \in Styles
      /\ l.rate \in Nat /\ l.fixed \in Nat
  BY DEF Loan
<1>2. from \in Nat \ {0} /\ l.term \in Nat /\ l.term <= MaxTerm /\ MaxTerm \in Nat
  BY <1>1, Given DEF Numbers
<1>3. count \in Nat \ {0} /\ count <= MaxTerm
  BY <1>2
<1>4. io \in Nat /\ io < count
  BY <1>1, <1>2, <1>3 DEF Least, Max0
<1>5. \A k \in 1 .. count : k \in Numbers
  BY <1>2, <1>3 DEF Numbers
<1> HIDE DEF count, io
<1>6. LET plan == Plan(l, base, count, io, NoTotals) IN
      IsPlan(plan) /\ plan.term = count /\ plan.principal = base
  BY <1>1, <1>3, <1>4, <1>5 DEF Plan, IsPlan, NoTotals
<1> QED
  BY <1>6 DEF NextPlan, count, io

\* What is owed less what the rows before from still ask for.
Base(l, rs, extra, from) == Max0(LedgerBalance(l.principal, extra, rs) - Carried(rs, from))

LEMMA SumsOfRows ==
  ASSUME NEW rs \in Table, NEW l \in Loan, NEW extra \in Int, NEW from \in Nat
  PROVE  /\ LedgerBalance(l.principal, extra, rs) \in Nat
         /\ Carried(rs, from) \in Int
         /\ Base(l, rs, extra, from) \in Nat
<1>1. PaidPrincipal(rs) \in Nat /\ l.principal \in Nat
  BY PaidTypes DEF Loan
<1>2. LedgerBalance(l.principal, extra, rs) \in Nat
  BY <1>1 DEF LedgerBalance, Max0
<1> DEFINE ns == {n \in ActiveRows(rs) : n < from}
           f == [n \in Numbers |-> IF n \in ns THEN Unpaid(rs[n]) ELSE 0]
<1>3. f \in [Numbers -> Int]
  <2> SUFFICES ASSUME NEW n \in Numbers, n \in ns PROVE Unpaid(rs[n]) \in Int
    OBVIOUS
  <2>1. rs[n] \in Installment
    BY DEF ActiveRows, Active, Table
  <2> QED
    BY <2>1 DEF Unpaid, Installment
<1>4. Carried(rs, from) = SumFunction(f)
  BY DEF Carried, UnpaidPrincipal
<1>5. IsFiniteSet(Numbers)
  BY Given
<1> HIDE DEF f
<1>6. Carried(rs, from) \in Int
  BY <1>3, <1>4, <1>5, SumInt
<1> QED
  BY <1>2, <1>6 DEF Base, Max0

LEMMA RegeneratedRearranges ==
  ASSUME NEW l \in Loan, NEW rs \in Table, Tidy(rs), NEW extra \in Int,
         NEW from \in Numbers, ~Blocked(l, rs, from)
  PROVE  Rearranged(rs, Regenerated(l, rs, extra, from))
<1> DEFINE base == Base(l, rs, extra, from)
           plan == NextPlan(l, base, from)
           new == Regenerated(l, rs, extra, from)
<1>0. from \in Nat /\ base \in Nat
  BY Given, SumsOfRows
<1>1. CASE from > l.term
  <2>1. new = rs
    BY <1>1 DEF Regenerated
  <2> QED
    BY <2>1 DEF Rearranged
<1>2. CASE ~(from > l.term)
  <2>1. l.term \in Nat /\ from <= l.term
    <3>1. l.term \in Numbers
      BY DEF Loan
    <3>2. l.term \in Nat
      BY <3>1, Given
    <3> QED
      BY <1>0, <1>2, <3>2
  <2>2. IsPlan(plan) /\ plan.term = l.term - from + 1
    <3> HIDE DEF base
    <3> QED
      BY <1>0, <2>1, NextPlanIs
  <2>3. Rows(plan) \in [1 .. plan.term -> [principal : Nat, interest : Nat]]
    <3> HIDE DEF plan
    <3> QED
      BY <2>2, RowsAre
  <2>4. new = [n \in Numbers |-> IF base > 0 /\ n \in from .. l.term
                                THEN Rewritten(rs[n], Rows(plan)[n - from + 1])
                                ELSE Cleared(rs, from)[n]]
    BY <1>2 DEF Regenerated, Base, NextPlan
  <2>5. Rearranged(rs, Cleared(rs, from))
    BY <1>0, ClearedRearranges
  <2> HIDE DEF base, plan, new
  <2>6. ASSUME NEW n \in Numbers
        PROVE  /\ new[n] \in Installment \cup {NoRow}
               /\ IF Untouched(rs[n]) THEN Untouched(new[n]) ELSE new[n] = rs[n]
    <3>1. CASE base > 0 /\ n \in from .. l.term
      <4>1. Untouched(rs[n])
        <5>1. n \in Nat /\ n >= from
          BY <3>1, Given
        <5>2. ~(Active(rs, n) /\ rs[n].status # "PENDING")
          BY <2>1, <5>1 DEF Blocked, ActiveRows
        <5> QED
          BY <5>2 DEF Tidy, Active, Untouched
      <4>2. n - from + 1 \in 1 .. plan.term
        BY <1>0, <2>1, <2>2, <3>1
      <4>3. Rows(plan)[n - from + 1] \in [principal : Nat, interest : Nat]
        BY <2>3, <4>2
      <4>4. rs[n] \in Installment \cup {NoRow}
        BY DEF Table
      <4>5. new[n] = Rewritten(rs[n], Rows(plan)[n - from + 1])
        BY <2>4, <3>1
      <4> QED
        BY <4>1, <4>3, <4>4, <4>5, RewrittenTypes
    <3>2. CASE ~(base > 0 /\ n \in from .. l.term)
      <4>1. new[n] = Cleared(rs, from)[n]
        BY <2>4, <3>2
      <4> QED
        BY <2>5, <4>1 DEF Rearranged, Table
    <3> QED
      BY <3>1, <3>2
  <2>7. new \in Table
    BY <2>4, <2>6 DEF Table
  <2>8. Rearranged(rs, new)
    BY <2>6, <2>7 DEF Rearranged
  <2> QED
    BY <2>8 DEF new
<1> QED
  BY <1>1, <1>2

\* A schedule that is rebuilt from the first row without a payment asks for what is
\* owed: the rows before, and the rows that were made anew.
LEMMA RegeneratedCarriesDebt ==
  ASSUME NEW l \in Loan, NEW rs \in Table, Tidy(rs), NEW extra \in Int,
         NEW from \in Numbers, from <= l.term, ~Blocked(l, rs, from),
         \A n \in PendingFrom(rs, 1) : from <= n,
         NEW new, new = Regenerated(l, rs, extra, from), PendingFrom(new, 1) # {}
  PROVE  Scheduled(new) = LedgerBalance(l.principal, extra, rs)
<1> DEFINE base == Base(l, rs, extra, from)
           plan == NextPlan(l, base, from)
           count == l.term - from + 1
           f == [n \in Numbers |-> IF n \in ActiveRows(new) THEN Unpaid(new[n]) ELSE 0]
           c == [n \in Numbers |->
                   IF n \in {k \in ActiveRows(rs) : k < from} THEN Unpaid(rs[n]) ELSE 0]
           g == [n \in Numbers |->
                   IF n \in from .. l.term THEN Rows(plan)[n - from + 1].principal ELSE 0]
<1>0. /\ from \in Nat \ {0} /\ base \in Nat /\ l.term \in Nat
      /\ LedgerBalance(l.principal, extra, rs) \in Nat /\ Carried(rs, from) \in Int
      /\ IsFiniteSet(Numbers)
  <2>1. l.term \in Numbers
    BY DEF Loan
  <2>2. from \in Nat \ {0} /\ l.term \in Nat /\ IsFiniteSet(Numbers)
    BY <2>1, Given
  <2> QED
    BY <2>2, SumsOfRows
<1>1. IsPlan(plan) /\ plan.term = count /\ plan.principal = base /\ count \in Nat \ {0}
  <2>1. count \in Nat \ {0}
    BY <1>0
  <2> HIDE DEF base
  <2> QED
    BY <1>0, <2>1, NextPlanIs
<1>2. Rows(plan) \in [1 .. plan.term -> [principal : Nat, interest : Nat]]
  <2> HIDE DEF plan
  <2> QED
    BY <1>1, RowsAre
<1>3. new = [n \in Numbers |-> IF base > 0 /\ n \in from .. l.term
                              THEN Rewritten(rs[n], Rows(plan)[n - from + 1])
                              ELSE Cleared(rs, from)[n]]
  BY <1>0 DEF Regenerated, Base, NextPlan
<1>4. /\ Rearranged(rs, Cleared(rs, from))
      /\ \A n \in Numbers : n < from => Cleared(rs, from)[n] = rs[n]
      /\ PendingFrom(Cleared(rs, from), 1) = {n \in PendingFrom(rs, 1) : n < from}
  <2>1. from \in Nat
    BY <1>0
  <2> QED
    BY <2>1, ClearedRearranges
<1>5. \A n \in Numbers : n \in Nat
  BY Given
<1> HIDE DEF base, plan
<1>6. base > 0
  <2> SUFFICES ASSUME ~(base > 0) PROVE FALSE
    OBVIOUS
  <2>1. new = [n \in Numbers |-> Cleared(rs, from)[n]]
    BY <1>3
  <2>2. new = Cleared(rs, from)
    BY <2>1 DEF Cleared
  <2>3. PICK n \in PendingFrom(new, 1) : TRUE
    OBVIOUS
  <2>4. n \in PendingFrom(rs, 1) /\ n < from
    BY <1>4, <2>2, <2>3
  <2>5. n \in Numbers
    BY <2>4 DEF PendingFrom, ActiveRows
  <2> QED
    BY <1>0, <1>5, <2>4, <2>5
<1>7. LedgerBalance(l.principal, extra, rs) = Carried(rs, from) + base
  BY <1>0, <1>6 DEF Base, Max0, base
<1>8. ASSUME NEW n \in Numbers
      PROVE  f[n] = c[n] + g[n] /\ c[n] \in Int /\ g[n] \in Int
  <2>0. rs[n] \in Installment \cup {NoRow} /\ n \in Nat
    BY <1>5 DEF Table
  <2>1. CASE n < from
    <3>1. new[n] = rs[n]
      BY <1>0, <1>3, <1>4, <2>0, <2>1
    <3>2. g[n] = 0
      BY <1>0, <2>0, <2>1
    <3>3. f[n] = c[n]
      BY <2>1, <3>1 DEF ActiveRows, Active
    <3>4. c[n] \in Int
      <4> SUFFICES ASSUME Active(rs, n) PROVE Unpaid(rs[n]) \in Int
        BY DEF ActiveRows
      <4> QED
        BY <2>0 DEF Active, Unpaid, Installment
    <3> HIDE DEF f, c, g
    <3> QED
      BY <3>2, <3>3, <3>4
  <2>2. CASE n \in from .. l.term
    <3>1. Untouched(rs[n])
      <4>1. ~(Active(rs, n) /\ rs[n].status # "PENDING")
        BY <1>0, <2>0, <2>2 DEF Blocked, ActiveRows
      <4> QED
        BY <4>1 DEF Tidy, Active, Untouched
    <3>2. n - from + 1 \in 1 .. plan.term
      BY <1>0, <1>1, <2>2
    <3>3. Rows(plan)[n - from + 1] \in [principal : Nat, interest : Nat]
      BY <1>2, <3>2
    <3>4. new[n] = Rewritten(rs[n], Rows(plan)[n - from + 1])
      BY <1>3, <1>6, <2>2
    <3>5. /\ new[n] \in Installment /\ Untouched(new[n]) /\ new[n].active
          /\ new[n].principal = Rows(plan)[n - from + 1].principal
      BY <2>0, <3>1, <3>3, <3>4, RewrittenTypes
    <3>6. f[n] = Unpaid(new[n])
      BY <3>5, Given DEF ActiveRows, Active
    <3>7. Unpaid(new[n]) = new[n].principal
      BY <3>5, Given DEF Unpaid, Installment, Untouched
    <3>8. c[n] = 0
      BY <1>0, <2>0, <2>2
    <3>9. g[n] = Rows(plan)[n - from + 1].principal /\ g[n] \in Nat
      BY <2>2, <3>3
    <3> HIDE DEF f, c, g
    <3> QED
      BY <3>5, <3>6, <3>7, <3>8, <3>9
  <2>3. CASE n >= from /\ n \notin from .. l.term
    <3>1. new[n] = Cleared(rs, from)[n]
      BY <1>3, <2>3
    <3>2. ~Active(new, n)
      <4>1. CASE n \in PendingFrom(rs, from)
        <5>1. new[n] = [rs[n] EXCEPT !.active = FALSE] /\ rs[n] \in Installment
          BY <2>0, <3>1, <4>1 DEF Cleared, PendingFrom, ActiveRows, Active
        <5> QED
          BY <5>1 DEF Active, Installment
      <4>2. CASE n \notin PendingFrom(rs, from)
        <5>1. new[n] = rs[n]
          BY <3>1, <4>2 DEF Cleared
        <5>2. ~(Active(rs, n) /\ rs[n].status # "PENDING")
          BY <2>3 DEF Blocked, ActiveRows
        <5> QED
          BY <2>3, <4>2, <5>1, <5>2 DEF PendingFrom, ActiveRows, Active
      <4> QED
        BY <4>1, <4>2
    <3>3. f[n] = 0
      BY <3>2 DEF ActiveRows
    <3>4. c[n] = 0 /\ g[n] = 0
      BY <1>0, <2>0, <2>3
    <3> HIDE DEF f, c, g
    <3> QED
      BY <3>3, <3>4
  <2> QED
    BY <1>0, <2>0, <2>1, <2>2, <2>3
<1>9. SumFunction(f) = Scheduled(new)
  BY DEF Scheduled, UnpaidPrincipal
<1>10. SumFunction(c) = Carried(rs, from)
  BY DEF Carried, UnpaidPrincipal
<1>11. /\ SumFunction(f) = SumOn(f, Numbers)
       /\ SumFunction(c) = SumOn(c, Numbers)
  BY SumFunctionIs
<1>12. SumOn(f, Numbers) = SumOn(c, Numbers) + SumOn(g, Numbers)
  <2> HIDE DEF f, c, g
  <2> QED
    BY <1>0, <1>8, SumOfSums
<1>13. SumOn(g, from .. l.term) = base
  <2>1. \A n \in from .. l.term : n \in Numbers
    <3>1. l.term \in Numbers /\ MaxTerm \in Nat
      BY Given DEF Loan
    <3> QED
      BY <1>0, <3>1 DEF Numbers
  <2>2. \A n \in from .. l.term : g[n] = Rows(plan)[n - from + 1].principal
    BY <2>1
  <2>3. from + plan.term - 1 = l.term
    BY <1>0, <1>1
  <2>4. \A n \in from .. (from + plan.term - 1) : g[n] = Rows(plan)[n - from + 1].principal
    BY <2>2, <2>3
  <2> HIDE DEF g
  <2>5. SumOn(g, from .. (from + plan.term - 1)) = plan.principal
    BY <1>0, <1>1, <2>4, RowsCarryThePrincipal
  <2> QED
    BY <1>1, <2>3, <2>5
<1>14. SumOn(g, Numbers) = SumOn(g, from .. l.term)
  <2>1. from .. l.term \in SUBSET Numbers
    <3>1. l.term \in Numbers /\ MaxTerm \in Nat
      BY Given DEF Loan
    <3> QED
      BY <1>0, <3>1 DEF Numbers
  <2>2. \A n \in Numbers \ (from .. l.term) : g[n] = 0
    OBVIOUS
  <2>3. \A n \in Numbers : g[n] \in Int
    BY <1>8
  <2> HIDE DEF g
  <2> QED
    BY <1>0, <2>1, <2>2, <2>3, SumSupport
<1> HIDE DEF f, c, g
<1> QED
  BY <1>0, <1>7, <1>9, <1>10, <1>11, <1>12, <1>13, <1>14

\* The rows of a new loan carry no payment, and ask for what was lent.
LEMMA FirstRowsCarry ==
  ASSUME NEW c \in Contract, Accepted(c), NEW rs,
         rs = [n \in Numbers |-> IF n <= ResolvedTerm(c) THEN NewRow(FirstRows(c)[n]) ELSE NoRow]
  PROVE  /\ ResolvedTerm(c) \in Numbers
         /\ rs \in Table /\ \A n \in Numbers : Untouched(rs[n])
         /\ Scheduled(rs) = c.principal
<1> DEFINE term == ResolvedTerm(c)
           plan == Plan(c, c.principal, term, c.io, c.totals)
           f == [n \in Numbers |-> IF n \in ActiveRows(rs) THEN Unpaid(rs[n]) ELSE 0]
<1>1. term \in Numbers /\ c.io < term
  <2>1. CASE c.mode = "TERM"
    BY <2>1 DEF Accepted, ResolvedTerm, Contract
  <2>2. CASE c.mode # "TERM"
    <3>1. Min(TermsOf(c)) \in TermsOf(c)
      <4>1. TermsOf(c) \in SUBSET Nat
        BY Given DEF TermsOf
      <4>2. TermsOf(c) # {}
        BY <2>2 DEF Accepted
      <4> QED
        BY <4>1, <4>2, MinIs
    <3>2. Min(TermsOf(c)) \in Nat \ {0}
      BY <3>1, Given DEF TermsOf
    <3>3. ResolvedTerm(c) \in Numbers /\ ResolvedTerm(c) = c.io + Min(TermsOf(c))
      BY <2>2 DEF Accepted, ResolvedTerm
    <3>4. c.io \in Nat
      BY DEF Contract
    <3> QED
      BY <3>2, <3>3, <3>4
  <2> QED
    BY <2>1, <2>2
<1>2. term \in Nat \ {0} /\ term <= MaxTerm /\ \A n \in 1 .. term : n \in Numbers
  BY <1>1, Given DEF Numbers
<1> HIDE DEF term
<1>3. IsPlan(plan) /\ plan.term = term /\ plan.principal = c.principal
  BY <1>1, <1>2 DEF Contract, Plan, IsPlan
<1>4. Rows(plan) = FirstRows(c)
  BY DEF FirstRows, term
<1> HIDE DEF plan
<1>5. FirstRows(c) \in [1 .. term -> [principal : Nat, interest : Nat]]
  BY <1>3, <1>4, RowsAre
<1>6. rs = [n \in Numbers |-> IF n <= term THEN NewRow(FirstRows(c)[n]) ELSE NoRow]
  BY DEF term
<1>7. ASSUME NEW n \in Numbers
      PROVE  /\ rs[n] \in Installment \cup {NoRow} /\ Untouched(rs[n])
             /\ f[n] = IF n \in 1 .. term THEN FirstRows(c)[n].principal ELSE 0
             /\ f[n] \in Int
  <2>1. n \in Nat \ {0}
    BY Given
  <2>2. CASE n <= term
    <3>1. n \in 1 .. term
      BY <1>2, <2>1, <2>2
    <3>2. FirstRows(c)[n] \in [principal : Nat, interest : Nat]
      BY <1>5, <3>1
    <3>3. rs[n] = NewRow(FirstRows(c)[n])
      BY <1>6, <2>2
    <3>4. rs[n] \in Installment /\ Untouched(rs[n]) /\ rs[n].active
      BY <3>2, <3>3, NewRowTypes
    <3>5. n \in ActiveRows(rs)
      BY <3>4, Given DEF ActiveRows, Active
    <3>6. f[n] = Unpaid(rs[n])
      BY <3>5
    <3>7. Unpaid(rs[n]) = FirstRows(c)[n].principal /\ Unpaid(rs[n]) \in Int
      BY <3>2, <3>3 DEF Unpaid, NewRow
    <3> HIDE DEF f
    <3> QED
      BY <3>1, <3>4, <3>6, <3>7
  <2>3. CASE ~(n <= term)
    <3>1. rs[n] = NoRow /\ n \notin 1 .. term
      BY <1>2, <1>6, <2>1, <2>3
    <3>2. f[n] = 0
      BY <3>1 DEF ActiveRows, Active
    <3> HIDE DEF f
    <3> QED
      BY <3>1, <3>2 DEF Untouched
  <2> QED
    BY <2>2, <2>3
<1>8. rs \in Table
  BY <1>6, <1>7 DEF Table
<1>9. Scheduled(rs) = SumFunction(f)
  BY DEF Scheduled, UnpaidPrincipal
<1>10. SumFunction(f) = SumOn(f, Numbers)
  BY SumFunctionIs
<1> HIDE DEF f
<1>11. SumOn(f, Numbers) = SumOn(f, 1 .. term)
  <2>1. 1 .. term \in SUBSET Numbers
    BY <1>2
  <2>2. \A n \in Numbers \ (1 .. term) : f[n] = 0
    BY <1>7
  <2> QED
    BY <1>7, <2>1, <2>2, Given, SumSupport
<1>12. SumOn(f, 1 .. term) = c.principal
  <2>1. 1 + plan.term - 1 = term
    BY <1>2, <1>3
  <2>2. \A n \in 1 .. (1 + plan.term - 1) : f[n] = Rows(plan)[n - 1 + 1].principal
    <3> SUFFICES ASSUME NEW n \in 1 .. term PROVE f[n] = Rows(plan)[n - 1 + 1].principal
      BY <2>1
    <3>1. n \in Numbers /\ n - 1 + 1 = n
      BY <1>2
    <3> QED
      BY <1>4, <1>7, <3>1
  <2>3. SumOn(f, 1 .. (1 + plan.term - 1)) = plan.principal
    BY <1>3, <2>2, RowsCarryThePrincipal
  <2> QED
    BY <1>3, <2>1, <2>3
<1> QED
  BY <1>1, <1>7, <1>8, <1>9, <1>10, <1>11, <1>12 DEF term

\* Another total for a row without a payment.
LEMMA CustomRearranges ==
  ASSUME NEW rs \in Table, Tidy(rs), NEW n \in PendingFrom(rs, 1), NEW amt \in Nat, NEW new,
         new = [rs EXCEPT ![n] = IF @ = NoRow THEN @ ELSE [@ EXCEPT !.total = amt]]
  PROVE  Rearranged(rs, new) /\ PendingFrom(new, 1) = PendingFrom(rs, 1)
<1>1. n \in Numbers /\ rs[n] \in Installment /\ rs[n] # NoRow /\ rs[n].status = "PENDING"
  BY DEF PendingFrom, ActiveRows, Active, Table
<1>2. Untouched(rs[n])
  BY <1>1 DEF Tidy
<1>3. new[n] = [rs[n] EXCEPT !.total = amt] /\ \A k \in Numbers : k # n => new[k] = rs[k]
  BY <1>1 DEF Table
<1>4. new[n] \in Installment /\ Untouched(new[n]) /\ new[n].active = rs[n].active
      /\ new[n].status = rs[n].status
  BY <1>1, <1>2, <1>3 DEF Installment, Untouched
<1>5. new \in Table
  BY <1>1, <1>3, <1>4 DEF Table
<1>6. Rearranged(rs, new)
  BY <1>2, <1>3, <1>4, <1>5 DEF Rearranged
<1>7. \A k \in Numbers : Active(new, k) = Active(rs, k) /\ (Active(rs, k) => new[k].status = rs[k].status)
  BY <1>1, <1>3, <1>4, Given DEF Active
<1> QED
  BY <1>6, <1>7 DEF PendingFrom, ActiveRows

-----------------------------------------------------------------------------
(* The inductive invariant.                                                *)

Waiting == {"found", "account", "loan", "ready"}

\* What locks the loan before it is done.
LoanHolders == {"pay"} \cup Adjustments

\* The request a slot serves, and what it has found, fit the step it has come to.
Serves(p) ==
  /\ pc[p] \in Begun => req[p] \in RequestsOf[p]
  /\ pc[p] \in {"idle"} \cup Begun => made[p] = NoRow /\ entries[p] = NoRow
  /\ pc[p] \in {"cache", "paid", "differs"} => req[p].op = "reconcile" /\ seen[p].loan \in Loan
  /\ pc[p] = "differs" => seen[p].owed \in Nat
  /\ pc[p] \in Waiting => req[p].op \in {"create", "delete"} \cup LoanHolders
  /\ pc[p] \in Waiting /\ req[p].op \in Adjustments =>
       seen[p].loan \in Loan /\ seen[p].loan.status # "COMPLETED"
  /\ pc[p] = "loan" => req[p].op = "pay"
  /\ pc[p] \in Begun \ {"begun"} /\ req[p].op # "create" => loan # NoRow

\* Locks are taken in the order account, loan, installment.
Holds(p) ==
  /\ \A a \in Accounts : lock[a] = p => pc[p] = "account" \/ lock[LoanRow] = p
  /\ lock[LoanRow] = p <=> pc[p] \in {"loan", "ready"} /\ req[p].op \in LoanHolders
  /\ \A n \in Numbers : lock[n] = p => pc[p] = "ready" /\ req[p].op = "pay"

ControlTypes ==
  /\ lock \in [Locks -> Procs \cup {NoProc}]
  /\ pc \in [Procs -> {"idle"} \cup Begun \cup Finished]
  /\ req \in [Procs -> Request \cup {NoRequest}]
  /\ seen \in [Procs -> Seen]

Control == ControlTypes /\ \A p \in Procs : Serves(p) /\ Holds(p)

TableTypes ==
  /\ loan \in Loan \cup {NoRow}
  /\ rows \in Table
  /\ made \in Log
  /\ entries \in [Procs -> Entry \cup {NoRow}]

\* Rows and adjustments belong to a loan; a payment has a transaction with its key.
Tables ==
  /\ TableTypes
  /\ loan = NoRow => (\A n \in Numbers : rows[n] = NoRow) /\ (\A q \in Procs : made[q] = NoRow)
  /\ Tidy(rows)
  /\ \A q \in Procs : Made(q) /\ made[q].op = "pay" =>
       entries[q] # NoRow /\ entries[q].key = made[q].key
  /\ DeletedHasNoPending

LoanInv == Tables /\ Control

LEMMA RequestIs ==
  ASSUME NEW p \in Procs, NEW r \in RequestsOf[p]
  PROVE  /\ r \in Request /\ r.op \in Ops /\ r.n \in Numbers /\ r.amt \in Nat /\ r.to \in Nat
         /\ r.status \in Statuses /\ r.acct \in Accounts \cup {NoAccount} /\ r.key \in Keys
         /\ r.contract \in Contract
         /\ r.op = "pay" => r.acct # NoAccount
         /\ r.op \in Schedules \cup {"custom"} => r.acct = NoAccount
         /\ r.op = "create" => Accepted(r.contract)
         /\ r.op = "reschedule" => r.to \in Numbers
         /\ r.op \in Extras => r.amt > 0
<1>1. /\ r \in Request
      /\ r.op = "pay" => r.acct # NoAccount
      /\ r.op \in Schedules \cup {"custom"} => r.acct = NoAccount
      /\ r.op = "create" => Accepted(r.contract)
      /\ r.op = "reschedule" => r.to \in Numbers
      /\ r.op \in Extras => r.amt > 0
  BY LoansAssumption
<1> QED
  BY <1>1 DEF Request

LEMMA TypesFollow == ASSUME LoanInv PROVE TypeOK
<1>1. \A p \in Procs : pc[p] \in Begun => req[p] \in Request
  BY RequestIs DEF LoanInv, Control, Serves
<1> QED
  BY <1>1 DEF LoanInv, Control, ControlTypes, Tables, TableTypes, TypeOK, Table, Log

-----------------------------------------------------------------------------
(* The control of a request.                                               *)

\* Nothing changes for the other requests.
LEMMA OthersControlled ==
  ASSUME Control, NEW p \in Procs,
         \A q \in Procs \ {p} :
           /\ pc'[q] = pc[q] /\ req'[q] = req[q] /\ seen'[q] = seen[q]
           /\ made'[q] = made[q] /\ entries'[q] = entries[q]
           /\ \A x \in Locks : lock'[x] = q <=> lock[x] = q,
         loan # NoRow => loan' # NoRow,
         ControlTypes', Serves(p)', Holds(p)'
  PROVE  Control'
<1>1. ASSUME NEW q \in Procs, q # p PROVE Serves(q)' /\ Holds(q)'
  <2>1. /\ pc'[q] = pc[q] /\ req'[q] = req[q] /\ seen'[q] = seen[q]
        /\ made'[q] = made[q] /\ entries'[q] = entries[q]
        /\ \A x \in Locks : lock'[x] = q <=> lock[x] = q
    BY <1>1
  <2>2. Serves(q)'
    BY <2>1 DEF Control, Serves
  <2>3. Holds(q)'
    <3>1. \A x \in Accounts \cup Numbers \cup {LoanRow} : x \in Locks
      BY DEF Locks
    <3> QED
      BY <2>1, <3>1 DEF Control, Holds
  <2> QED
    BY <2>2, <2>3
<1> QED
  BY <1>1 DEF Control

Only(p) == \A q \in Procs \ {p} : pc'[q] = pc[q]

LEMMA MoveTypes ==
  ASSUME Control, NEW p \in Procs, NEW label, NEW found \in Seen,
         label \in {"idle"} \cup Begun \cup Finished,
         pc' = [pc EXCEPT ![p] = label], seen' = [seen EXCEPT ![p] = found], req' = req,
         lock' \in [Locks -> Procs \cup {NoProc}]
  PROVE  /\ ControlTypes'
         /\ pc'[p] = label /\ seen'[p] = found /\ req'[p] = req[p]
         /\ \A q \in Procs \ {p} : pc'[q] = pc[q] /\ req'[q] = req[q] /\ seen'[q] = seen[q]
BY DEF Control, ControlTypes

LEMMA LabelsDiffer ==
  /\ Begun \cap Finished = {} /\ "idle" \notin Begun /\ "idle" \notin Finished
  /\ {"cache", "paid", "differs"} \cup Waiting \subseteq Begun /\ "begun" \in Begun
BY DEF Begun, Finished, Waiting

\* A request that ends, and holds nothing any longer.
LEMMA EndControlled ==
  ASSUME Control, NEW p \in Procs, pc[p] \in Begun, NEW how \in Finished, Finish(p, how),
         Release(p) \/ (lock' = lock /\ pc[p] \in {"begun", "cache", "paid", "differs"}),
         \A q \in Procs \ {p} : made'[q] = made[q] /\ entries'[q] = entries[q],
         loan # NoRow => loan' # NoRow
  PROVE  Control' /\ Only(p) /\ pc'[p] = how
<1>1. NoProc \notin Procs
  BY Given
<1>2. lock \in [Locks -> Procs \cup {NoProc}]
  BY DEF Control, ControlTypes
<1>3. /\ lock' \in [Locks -> Procs \cup {NoProc}]
      /\ \A x \in Locks : lock'[x] # p
      /\ \A q \in Procs \ {p}, x \in Locks : lock'[x] = q <=> lock[x] = q
  <2>1. CASE Release(p)
    BY <1>1, <1>2, <2>1 DEF Release
  <2>2. CASE lock' = lock /\ pc[p] \in {"begun", "cache", "paid", "differs"}
    <3>1. Holds(p)
      BY DEF Control
    <3>2. \A x \in Accounts \cup Numbers \cup {LoanRow} : lock[x] # p
      BY <2>2, <3>1 DEF Holds
    <3> QED
      BY <1>2, <2>2, <3>2 DEF Locks
  <2> QED
    BY <2>1, <2>2
<1>4. Nothing \in Seen
  BY DEF Nothing, Seen
<1>5. /\ ControlTypes' /\ pc'[p] = how
      /\ \A q \in Procs \ {p} : pc'[q] = pc[q] /\ req'[q] = req[q] /\ seen'[q] = seen[q]
  BY <1>3, <1>4, MoveTypes DEF Finish
<1>6. Serves(p)'
  <2>1. how \notin Begun /\ how # "idle" /\ how \notin Waiting
    BY DEF Begun, Finished, Waiting
  <2>2. how \notin {"cache", "paid", "differs", "loan"}
    BY DEF Finished
  <2> QED
    BY <1>5, <2>1, <2>2 DEF Serves
<1>7. Holds(p)'
  <2>1. \A x \in Accounts \cup Numbers \cup {LoanRow} : lock'[x] # p
    BY <1>3 DEF Locks
  <2>2. how \notin {"loan", "ready"}
    BY DEF Finished
  <2> QED
    BY <1>5, <2>1, <2>2 DEF Holds
<1> QED
  BY <1>3, <1>5, <1>6, <1>7, OthersControlled DEF Only

\* A request that goes on without a lock.
LEMMA GotoControlled ==
  ASSUME Control, NEW p \in Procs, NEW label \in Begun, NEW found \in Seen, Goto(p, label, found),
         pc[p] \in {"begun", "cache", "paid"}, UNCHANGED <<data, lock>>,
         label \in {"loan", "ready"} => req[p].op \notin LoanHolders,
         label \in {"cache", "paid", "differs"} => req[p].op = "reconcile" /\ found.loan \in Loan,
         label = "differs" => found.owed \in Nat,
         label \in Waiting => req[p].op \in {"create", "delete"} \cup LoanHolders,
         label \in Waiting /\ req[p].op \in Adjustments =>
           found.loan \in Loan /\ found.loan.status # "COMPLETED",
         label = "loan" => req[p].op = "pay",
         label # "begun" /\ req[p].op # "create" => loan # NoRow
  PROVE  Control' /\ Only(p) /\ pc'[p] = label
<1>1. Serves(p) /\ Holds(p) /\ lock' = lock /\ lock' \in [Locks -> Procs \cup {NoProc}]
  BY DEF Control, ControlTypes
<1>2. /\ ControlTypes' /\ pc'[p] = label /\ seen'[p] = found /\ req'[p] = req[p]
      /\ \A q \in Procs \ {p} : pc'[q] = pc[q] /\ req'[q] = req[q] /\ seen'[q] = seen[q]
  BY <1>1, MoveTypes DEF Goto
<1>3. pc[p] \in Begun /\ loan' = loan /\ made' = made /\ entries' = entries
  BY DEF Begun, data
<1>4. Serves(p)'
  BY <1>1, <1>2, <1>3 DEF Serves
<1>5. Holds(p)'
  BY <1>1, <1>2 DEF Holds
<1> QED
  BY <1>1, <1>2, <1>3, <1>4, <1>5, OthersControlled DEF Only

\* A request that takes locks: an account, the loan or an installment.
LEMMA TakeControlled ==
  ASSUME Control, NEW p \in Procs, NEW label \in {"account", "loan", "ready"},
         Goto(p, label, seen[p]), Take(p), MayGoOn(p), UNCHANGED data,
         pc[p] \in Waiting \ {"ready"}, req[p].op \in {"create"} \cup LoanHolders,
         label = "loan" => req[p].op = "pay",
         req[p].op = "create" => label = "account",
         label \in {"loan", "ready"} /\ req[p].op \in LoanHolders =>
           LoanRow \in Wants(p) \/ lock[LoanRow] = p,
         ~(label \in {"loan", "ready"} /\ req[p].op \in LoanHolders) =>
           LoanRow \notin Wants(p) /\ lock[LoanRow] # p,
         label \in {"account"} \/ \A a \in Accounts : a \notin Wants(p),
         (label = "ready" /\ req[p].op = "pay") \/ \A n \in Numbers : n \notin Wants(p)
  PROVE  Control' /\ Only(p) /\ pc'[p] = label
<1>1. Serves(p) /\ Holds(p) /\ lock \in [Locks -> Procs \cup {NoProc}] /\ seen[p] \in Seen
  BY DEF Control, ControlTypes
<1>2. /\ lock' \in [Locks -> Procs \cup {NoProc}]
      /\ \A x \in Locks : lock'[x] = p <=> x \in Wants(p) \/ lock[x] = p
      /\ \A q \in Procs \ {p}, x \in Locks : lock'[x] = q <=> lock[x] = q
  <2>1. \A x \in Wants(p) : lock[x] \in {NoProc, p}
    BY DEF MayGoOn, Free
  <2> HIDE DEF Wants
  <2> QED
    BY <1>1, <2>1, Given DEF Take
<1>3. /\ ControlTypes' /\ pc'[p] = label /\ seen'[p] = seen[p] /\ req'[p] = req[p]
      /\ \A q \in Procs \ {p} : pc'[q] = pc[q] /\ req'[q] = req[q] /\ seen'[q] = seen[q]
  <2>1. label \in {"idle"} \cup Begun \cup Finished
    BY DEF Begun
  <2>2. pc' = [pc EXCEPT ![p] = label] /\ seen' = [seen EXCEPT ![p] = seen[p]] /\ req' = req
    BY DEF Goto
  <2>3. lock' \in [Locks -> Procs \cup {NoProc}]
    BY <1>2
  <2> QED
    BY <1>1, <2>1, <2>2, <2>3 DEF Control, ControlTypes
<1>4. pc[p] \in Begun \ {"begun"} /\ loan' = loan /\ made' = made /\ entries' = entries
  BY DEF Begun, Waiting, data
<1>5. Serves(p)'
  <2>1. label \in Waiting /\ label \in Begun
    BY DEF Waiting, Begun
  <2> QED
    BY <1>1, <1>3, <1>4, <2>1 DEF Serves
<1>6. Holds(p)'
  <2>1. \A x \in Accounts \cup Numbers \cup {LoanRow} : x \in Locks
    BY DEF Locks
  <2>2. lock'[LoanRow] = p <=> label \in {"loan", "ready"} /\ req[p].op \in LoanHolders
    BY <1>2, <2>1
  <2>3. ASSUME NEW a \in Accounts, lock'[a] = p PROVE label = "account" \/ lock'[LoanRow] = p
    <3>1. a \in Wants(p) \/ lock[a] = p
      BY <1>2, <2>1, <2>3
    <3>2. req[p].op = "create" => lock[LoanRow] # p
      BY <1>1 DEF Holds, LoanHolders, Adjustments, Extras, Schedules
    <3>3. CASE req[p].op \in LoanHolders
      BY <2>2, <3>3
    <3>4. CASE req[p].op = "create" /\ label # "account"
      <4>1. lock[a] = p
        BY <3>1, <3>4
      <4> QED
        BY <1>1, <3>4, <4>1 DEF Holds
    <3> QED
      BY <3>3, <3>4
  <2>4. ASSUME NEW n \in Numbers, lock'[n] = p PROVE label = "ready" /\ req[p].op = "pay"
    <3>1. n \in Wants(p) \/ lock[n] = p
      BY <1>2, <2>1, <2>4
    <3> QED
      BY <1>1, <3>1 DEF Holds
  <2> HIDE DEF Wants
  <2> QED
    BY <1>3, <2>2, <2>3, <2>4 DEF Holds
<1> QED
  BY <1>2, <1>3, <1>4, <1>5, <1>6, OthersControlled DEF Only

-----------------------------------------------------------------------------
(* What a step does to the tables: nothing, or what one kind of request    *)
(* does when it ends well.                                                 *)

Quiet(p) == UNCHANGED data /\ (pc'[p] = "done" => req[p].op = "reconcile")

\* The loan stays the same loan; what it says of its debt, schedule and status may change.
SameLoan ==
  loan \in Loan /\ loan' \in Loan /\ loan'.alive = loan.alive /\ loan'.principal = loan.principal

\* p adds x to what is made, and an entry that is not looked at.
Logged(p, x) ==
  /\ made' = [made EXCEPT ![p] = x]
  /\ entries' \in [Procs -> Entry \cup {NoRow}]
  /\ \A q \in Procs \ {p} : entries'[q] = entries[q]

Created(p) ==
  /\ req[p].op = "create" /\ loan = NoRow
  /\ loan' \in Loan /\ loan'.alive /\ loan'.balance = loan'.principal
  /\ rows' \in Table /\ \A n \in Numbers : Untouched(rows'[n])
  /\ Scheduled(rows') = loan'.principal
  /\ made[p] = NoRow /\ Logged(p, NoRow)

\* Installment n becomes row, and x is the payment that was made of it.
Pays(p, n, principal, interest, row, x) ==
  /\ req[p].op = "pay" /\ SameLoan /\ loan.alive /\ Active(rows, n)
  /\ row.active /\ row.status # "PENDING" /\ row.principal = rows[n].principal
  /\ row.paidPrincipal = rows[n].paidPrincipal + principal
  /\ row.paidInterest = rows[n].paidInterest + interest
  /\ rows' = [rows EXCEPT ![n] = row]
  /\ loan'.balance = Max0(loan.balance - principal)
  /\ loan'.status # loan.status => loan'.balance = 0 /\ AllSettled(rows')
  /\ made[p] = NoRow /\ ~KeyTaken(x.key) /\ Logged(p, x)
  /\ entries'[p] # NoRow /\ entries'[p].key = x.key

PaidOff(p) ==
  \E n \in Numbers, principal \in Nat, interest \in Nat, row \in Installment, x \in Payment :
    Pays(p, n, principal, interest, row, x)

\* What the adjustment x may make of the loan and its rows; m is what is then made.
Adjusts(x, l, rs, m) ==
  /\ l \in Loan /\ l.alive = loan.alive /\ l.principal = loan.principal
  /\ Rearranged(rows, rs)
  /\ PendingFrom(rows, 1) = {} => PendingFrom(rs, 1) = {}
  /\ x.op = "extra" => x.amt > 0 /\ x.amt <= Owed
  /\ IF x.op \in Extras THEN l.balance = LedgerBalance(loan.principal, ExtraOf(m), rows)
                        ELSE l.balance = loan.balance
  /\ l.status # "COMPLETED" \/ l.status = loan.status
       \/ (x.op \in Extras /\ l.balance = 0 /\ AllSettled(rs))
  /\ x.op \in Extras \cup Schedules /\ (\E n \in PendingFrom(rs, 1) : n <= l.term) =>
       Scheduled(rs) = LedgerBalance(loan.principal, ExtraOf(m), rows)

Adjusted(p) ==
  \E x \in Adjustment :
    /\ req[p].op = x.op /\ loan \in Loan
    /\ made[p] = NoRow /\ ~MadeWith(Adjustments, x.key) /\ Logged(p, x)
    /\ Adjusts(x, loan', rows', made')

Deleted(p) ==
  /\ req[p].op = "delete" /\ loan \in Loan /\ loan.alive
  /\ loan' \in Loan /\ ~loan'.alive /\ loan'.status = "CANCELLED"
  /\ loan'.principal = loan.principal /\ loan'.balance = loan.balance
  /\ Rearranged(rows, rows') /\ PendingFrom(rows', 1) = {}
  /\ made' = made /\ entries' = entries

Marked(p) ==
  /\ req[p].op = "update" /\ SameLoan /\ loan'.balance = loan.balance
  /\ UNCHANGED <<rows, made, entries>>

Reconciled(p) ==
  /\ pc[p] = "differs" /\ req[p].op = "reconcile" /\ SameLoan
  /\ UNCHANGED <<rows, made, entries>>

Effect(p) ==
  /\ pc[p] \in {"idle"} \cup Begun /\ Only(p)
  /\ \/ Quiet(p)
     \/ pc[p] # "idle" /\ pc'[p] = "done"
          /\ (Created(p) \/ PaidOff(p) \/ Adjusted(p) \/ Deleted(p) \/ Marked(p) \/ Reconciled(p))

\* The tables stay in order.
LEMMA EffectKeepsTables ==
  ASSUME LoanInv, NEW p \in Procs, Effect(p)
  PROVE  Tables'
<1>1. TableTypes /\ Tidy(rows) /\ DeletedHasNoPending
  BY DEF LoanInv, Tables
<1>2. CASE Quiet(p)
  BY <1>2 DEF Quiet, data, LoanInv, Tables, TableTypes, DeletedHasNoPending, Made
<1>3. CASE Created(p)
  <2>1. /\ loan' \in Loan /\ loan' # NoRow /\ loan'.alive /\ rows' \in Table
        /\ \A n \in Numbers : Untouched(rows'[n])
        /\ made' = [made EXCEPT ![p] = NoRow] /\ made[p] = NoRow /\ loan = NoRow
        /\ entries' \in [Procs -> Entry \cup {NoRow}]
    BY <1>3, Given DEF Created, Logged
  <2>2. made' \in Log /\ \A q \in Procs : ~ Made(q)'
    BY <1>1, <2>1 DEF TableTypes, Log, LoanInv, Tables, Made
  <2> QED
    BY <2>1, <2>2 DEF Tables, TableTypes, Tidy, DeletedHasNoPending
<1>4. CASE PaidOff(p)
  <2>1. PICK n \in Numbers, principal \in Nat, interest \in Nat, row \in Installment, x \in Payment :
          /\ SameLoan /\ loan.alive
          /\ row.active /\ row.status # "PENDING"
          /\ rows' = [rows EXCEPT ![n] = row]
          /\ Logged(p, x) /\ entries'[p] # NoRow /\ entries'[p].key = x.key
    BY <1>4 DEF PaidOff, Pays
  <2>2. rows' \in Table /\ Tidy(rows')
    BY <1>1, <2>1 DEF TableTypes, Table, Tidy
  <2>3. loan' \in Loan /\ loan' # NoRow /\ loan'.alive
    BY <2>1, Given DEF SameLoan
  <2>4. made' \in Log /\ made'[p] = x /\ \A q \in Procs \ {p} : made'[q] = made[q]
    BY <1>1, <2>1 DEF TableTypes, Log, Logged
  <2>5. \A q \in Procs : Made(q)' /\ made'[q].op = "pay" =>
          entries'[q] # NoRow /\ entries'[q].key = made'[q].key
    BY <2>1, <2>4 DEF Logged, LoanInv, Tables, Made
  <2> QED
    BY <2>1, <2>2, <2>3, <2>4, <2>5 DEF Tables, TableTypes, DeletedHasNoPending, Logged
<1>5. CASE Adjusted(p)
  <2>1. PICK x \in Adjustment :
          /\ SameLoan /\ Rearranged(rows, rows') /\ Logged(p, x)
          /\ PendingFrom(rows, 1) = {} => PendingFrom(rows', 1) = {}
    BY <1>5 DEF Adjusted, Adjusts, SameLoan
  <2>2. rows' \in Table /\ Tidy(rows')
    BY <1>1, <2>1, PaidStays DEF TableTypes, Rearranged
  <2>3. loan' \in Loan /\ loan' # NoRow /\ loan # NoRow /\ loan'.alive = loan.alive
    BY <2>1, Given DEF SameLoan
  <2>4. made' \in Log /\ made'[p] = x /\ \A q \in Procs \ {p} : made'[q] = made[q]
    BY <1>1, <2>1 DEF TableTypes, Log, Logged
  <2>5. x.op # "pay"
    BY DEF Adjustment, Adjustments, Extras, Schedules
  <2>6. \A q \in Procs : Made(q)' /\ made'[q].op = "pay" =>
          entries'[q] # NoRow /\ entries'[q].key = made'[q].key
    BY <2>1, <2>4, <2>5 DEF Logged, LoanInv, Tables, Made
  <2> QED
    BY <1>1, <2>1, <2>2, <2>3, <2>4, <2>6 DEF Tables, TableTypes, DeletedHasNoPending, Logged
<1>6. CASE Deleted(p)
  <2>1. rows' \in Table /\ Tidy(rows')
    BY <1>1, <1>6, PaidStays DEF TableTypes, Rearranged, Deleted
  <2> QED
    BY <1>6, <2>1, Given DEF Deleted, LoanInv, Tables, TableTypes, DeletedHasNoPending, Made
<1>7. CASE Marked(p) \/ Reconciled(p)
  BY <1>7, Given DEF Marked, Reconciled, SameLoan, LoanInv, Tables, TableTypes, DeletedHasNoPending, Made
<1> QED
  BY <1>2, <1>3, <1>4, <1>5, <1>6, <1>7 DEF Effect

-----------------------------------------------------------------------------
(* Each operation, one by one.                                             *)

Kept(p) == Control' /\ Effect(p)

LEMMA EndKept ==
  ASSUME Control, NEW p \in Procs, pc[p] \in Begun, NEW how \in Finished, Finish(p, how),
         how = "done" => req[p].op = "reconcile", UNCHANGED data,
         Release(p) \/ (lock' = lock /\ pc[p] \in {"begun", "cache", "paid", "differs"})
  PROVE  Kept(p)
<1>1. Control' /\ Only(p) /\ pc'[p] = how
  BY EndControlled DEF data
<1> QED
  BY <1>1 DEF Kept, Effect, Quiet

LEMMA RefuseKept ==
  ASSUME Control, NEW p \in Procs, pc[p] \in Begun, NEW how \in {"repeated", "rejected", "aborted"},
         Refuse(p, how)
  PROVE  Kept(p)
<1>1. Finish(p, how) /\ Release(p) /\ UNCHANGED data
  BY DEF Refuse
<1>2. how \in Finished /\ how # "done"
  BY DEF Finished
<1> QED
  BY <1>1, <1>2, EndKept

LEMMA GotoKept ==
  ASSUME Control, NEW p \in Procs, NEW label \in Begun, NEW found \in Seen, Goto(p, label, found),
         pc[p] \in {"begun", "cache", "paid"}, UNCHANGED <<data, lock>>,
         label \in {"loan", "ready"} => req[p].op \notin LoanHolders,
         label \in {"cache", "paid", "differs"} => req[p].op = "reconcile" /\ found.loan \in Loan,
         label = "differs" => found.owed \in Nat,
         label \in Waiting => req[p].op \in {"create", "delete"} \cup LoanHolders,
         label \in Waiting /\ req[p].op \in Adjustments =>
           found.loan \in Loan /\ found.loan.status # "COMPLETED",
         label = "loan" => req[p].op = "pay",
         label # "begun" /\ req[p].op # "create" => loan # NoRow
  PROVE  Kept(p)
<1>1. Control' /\ Only(p) /\ pc'[p] = label
  BY GotoControlled
<1>2. label # "done" /\ pc[p] \in Begun
  BY DEF Begun
<1> QED
  BY <1>1, <1>2 DEF Kept, Effect, Quiet

LEMMA CommitControlled ==
  ASSUME Control, NEW p \in Procs, pc[p] \in Begun, NEW l, NEW rs, NEW m, NEW e,
         Commit(p, l, rs, m, e), l # NoRow
  PROVE  /\ Control' /\ Only(p) /\ pc'[p] = "done"
         /\ loan' = l /\ rows' = rs
         /\ made' = [made EXCEPT ![p] = m] /\ entries' = [entries EXCEPT ![p] = e]
<1>1. /\ Finish(p, "done") /\ Release(p) /\ loan' = l /\ rows' = rs
      /\ made' = [made EXCEPT ![p] = m] /\ entries' = [entries EXCEPT ![p] = e]
  BY DEF Commit
<1>2. "done" \in Finished
  BY DEF Finished
<1>3. \A q \in Procs \ {p} : made'[q] = made[q] /\ entries'[q] = entries[q]
  BY <1>1
<1> QED
  BY <1>1, <1>2, <1>3, EndControlled

\* What is known of a request under way.
LEMMA Serving ==
  ASSUME LoanInv, NEW p \in Procs, pc[p] \in Begun
  PROVE  /\ req[p] \in RequestsOf[p] /\ made[p] = NoRow /\ entries[p] = NoRow
         /\ Control /\ Serves(p) /\ Holds(p) /\ seen[p] \in Seen
         /\ loan \in Loan \cup {NoRow} /\ rows \in Table /\ made \in Log
         /\ entries \in [Procs -> Entry \cup {NoRow}] /\ Tidy(rows)
BY DEF LoanInv, Control, ControlTypes, Serves, Tables, TableTypes

LEMMA LogEntry ==
  ASSUME LoanInv, NEW p \in Procs, NEW x, NEW e \in Entry \cup {NoRow},
         made' = [made EXCEPT ![p] = x], entries' = [entries EXCEPT ![p] = e]
  PROVE  Logged(p, x) /\ entries'[p] = e
BY DEF Logged, LoanInv, Tables, TableTypes

LEMMA NewEntryTypes ==
  ASSUME NEW p \in Procs, NEW r \in RequestsOf[p], r.acct # NoAccount, NEW amt \in Int
  PROVE  NewEntry(r, amt) \in Entry /\ NewEntry(r, amt) # NoRow /\ NewEntry(r, amt).key = r.key
<1>1. r.acct \in Accounts /\ r.key \in Keys
  BY RequestIs
<1>2. NewEntry(r, amt) \in Entry
  BY <1>1 DEF NewEntry, Entry
<1> QED
  BY <1>2, Given DEF NewEntry

LEMMA BeginKept ==
  ASSUME LoanInv, NEW p \in Procs, Begin(p)
  PROVE  Kept(p)
<1>1. PICK r \in RequestsOf[p] :
        /\ pc[p] = "idle" /\ req' = [req EXCEPT ![p] = r] /\ pc' = [pc EXCEPT ![p] = "begun"]
        /\ UNCHANGED <<data, lock, seen>>
  BY DEF Begin
<1>2. r \in Request
  BY RequestIs
<1>3. Control /\ Serves(p) /\ Holds(p)
  BY DEF LoanInv, Control
<1>4. /\ pc'[p] = "begun" /\ req'[p] = r /\ seen' = seen /\ lock' = lock
      /\ loan' = loan /\ made' = made /\ entries' = entries
      /\ \A q \in Procs \ {p} : pc'[q] = pc[q] /\ req'[q] = req[q]
  BY <1>1, <1>3 DEF Control, ControlTypes, data
<1>5. ControlTypes'
  BY <1>1, <1>2, <1>3, <1>4 DEF Control, ControlTypes, Begun
<1>6. Serves(p)'
  BY <1>1, <1>3, <1>4 DEF Serves, Begun, Waiting
<1>7. Holds(p)'
  BY <1>1, <1>3, <1>4 DEF Holds
<1>8. Control' /\ Only(p)
  BY <1>3, <1>4, <1>5, <1>6, <1>7, OthersControlled DEF Only
<1> QED
  BY <1>1, <1>4, <1>8 DEF Kept, Effect, Quiet

LEMMA LookupKept ==
  ASSUME LoanInv, NEW p \in Procs,
         LookupLoan(p) \/ LookupInstallment(p) \/ LookupAdjustment(p) \/ CountPayments(p) \/ ReadLoan(p)
  PROVE  Kept(p)
<1>1. pc[p] = "begun" /\ pc[p] \in Begun /\ UNCHANGED <<data, lock>> /\ UNCHANGED data /\ lock' = lock
  BY DEF LookupLoan, LookupInstallment, LookupAdjustment, CountPayments, ReadLoan, At, Begun
<1>2. Control /\ loan \in Loan \cup {NoRow}
  BY <1>1, Serving
<1>3. Nothing \in Seen /\ [Nothing EXCEPT !.loan = loan] \in Seen
  <2>1. Nothing \in Seen
    BY DEF Nothing, Seen
  <2> QED
    BY <1>2, <2>1 DEF Seen
<1>4. ASSUME NEW how \in Finished, Finish(p, how), how = "done" => req[p].op = "reconcile"
      PROVE  Kept(p)
  BY <1>1, <1>2, <1>4, EndKept
<1>5. {"repeated", "rejected", "done"} \subseteq Finished
  BY DEF Finished
<1>6. CASE LookupLoan(p) \/ LookupInstallment(p)
  <2>1. req[p].op = "create" \/ (req[p].op = "pay" /\ (Goto(p, "found", Nothing) => loan # NoRow)) \/ Finish(p, "rejected") \/ Finish(p, "repeated")
    BY <1>6 DEF LookupLoan, LookupInstallment, At, PayableRow, Alive
  <2>2. CASE Finish(p, "rejected") \/ Finish(p, "repeated")
    BY <1>4, <1>5, <2>2
  <2>3. CASE ~(Finish(p, "rejected") \/ Finish(p, "repeated"))
    <3>1. Goto(p, "found", Nothing) /\ req[p].op \in {"create", "pay"}
      BY <1>6, <2>3 DEF LookupLoan, LookupInstallment, At
    <3>2. "found" \in Begun /\ req[p].op \in LoanHolders \cup {"create"} /\ req[p].op \notin Adjustments
      BY <3>1 DEF Begun, LoanHolders, Adjustments, Extras, Schedules
    <3>3. req[p].op # "create" => loan # NoRow
      BY <2>1, <2>3, <3>1
    <3> QED
      BY <1>1, <1>2, <1>3, <3>1, <3>2, <3>3, GotoKept
  <2> QED
    BY <2>2, <2>3
<1>7. CASE LookupAdjustment(p)
  <2>1. CASE Finish(p, "rejected") \/ Finish(p, "repeated")
    BY <1>4, <1>5, <2>1
  <2>2. CASE ~(Finish(p, "rejected") \/ Finish(p, "repeated"))
    <3> DEFINE found == [Nothing EXCEPT !.loan = loan]
    <3>1. Goto(p, "found", found) /\ req[p].op \in Adjustments /\ Alive /\ loan.status # "COMPLETED"
      BY <1>7, <2>2 DEF LookupAdjustment, At
    <3>2. "found" \in Begun /\ req[p].op \in LoanHolders
      BY <3>1 DEF Begun, LoanHolders
    <3>3. found \in Seen /\ found.loan = loan /\ loan \in Loan /\ loan # NoRow
      BY <1>2, <1>3, <3>1 DEF Nothing, Alive
    <3> HIDE DEF found
    <3> QED
      BY <1>1, <1>2, <3>1, <3>2, <3>3, GotoKept
  <2> QED
    BY <2>1, <2>2
<1>8. CASE CountPayments(p)
  <2>1. CASE Finish(p, "rejected")
    BY <1>4, <1>5, <2>1
  <2>2. CASE ~Finish(p, "rejected")
    <3>1. Goto(p, "ready", Nothing) /\ req[p].op = "delete" /\ loan # NoRow
      BY <1>8, <2>2 DEF CountPayments, At, Alive
    <3>2. "ready" \in Begun /\ req[p].op \notin LoanHolders /\ req[p].op \notin Adjustments
      BY <3>1 DEF Begun, LoanHolders, Adjustments, Extras, Schedules
    <3> QED
      BY <1>1, <1>2, <1>3, <3>1, <3>2, GotoKept
  <2> QED
    BY <2>1, <2>2
<1>9. CASE ReadLoan(p)
  <2>1. req[p].op = "reconcile"
    BY <1>9 DEF ReadLoan, At
  <2>2. CASE Finish(p, "done")
    BY <1>4, <1>5, <2>1, <2>2
  <2>3. CASE ~Finish(p, "done")
    <3> DEFINE found == [Nothing EXCEPT !.loan = loan]
    <3>1. Goto(p, "cache", found) /\ Alive
      BY <1>9, <2>3 DEF ReadLoan
    <3>2. "cache" \in Begun /\ "cache" \notin Waiting
      BY DEF Begun, Waiting
    <3>3. found \in Seen /\ found.loan = loan /\ loan \in Loan /\ loan # NoRow
      BY <1>2, <1>3, <3>1 DEF Nothing, Alive
    <3> HIDE DEF found
    <3> QED
      BY <1>1, <1>2, <2>1, <3>1, <3>2, <3>3, GotoKept
  <2> QED
    BY <2>2, <2>3
<1> QED
  BY <1>6, <1>7, <1>8, <1>9

LEMMA ReconcileKept ==
  ASSUME LoanInv, NEW p \in Procs, ReadRows(p) \/ ReadAdjustments(p) \/ WriteCache(p)
  PROVE  Kept(p)
<1>1. pc[p] \in {"cache", "paid", "differs"} /\ pc[p] \in Begun /\ req[p].op = "reconcile"
  BY DEF ReadRows, ReadAdjustments, WriteCache, At, Begun
<1>2. /\ Control /\ Serves(p) /\ seen[p] \in Seen /\ rows \in Table /\ made \in Log
      /\ loan \in Loan /\ loan # NoRow /\ seen[p].loan \in Loan
  <2>1. /\ Control /\ Serves(p) /\ seen[p] \in Seen /\ rows \in Table /\ made \in Log
        /\ loan \in Loan \cup {NoRow}
    BY <1>1, Serving
  <2> QED
    BY <1>1, <2>1 DEF Serves
<1>3. {"paid", "differs"} \subseteq Begun \ Waiting /\ "done" \in Finished
  BY DEF Begun, Waiting, Finished
<1>4. CASE ReadRows(p)
  <2> DEFINE found == [seen[p] EXCEPT !.owed = seen[p].loan.principal - PaidPrincipal(rows),
                                      !.settled = ActiveRows(rows) # {} /\ AllSettled(rows)]
  <2>1. seen[p].loan.principal - PaidPrincipal(rows) \in Int
    <3>1. PaidPrincipal(rows) \in Nat
      BY <1>2, PaidTypes
    <3> QED
      BY <1>2, <3>1 DEF Loan
  <2>2. found \in Seen /\ found.loan = seen[p].loan
    BY <1>2, <2>1 DEF Seen
  <2>3. Goto(p, "paid", found) /\ UNCHANGED <<data, lock>>
    BY <1>4 DEF ReadRows
  <2> HIDE DEF found
  <2> QED
    BY <1>1, <1>2, <1>3, <1>4, <2>2, <2>3, GotoKept DEF ReadRows, At
<1>5. CASE ReadAdjustments(p)
  <2> DEFINE owed == Max0(seen[p].owed + Extra)
             found == [seen[p] EXCEPT !.owed = owed]
  <2>1. owed \in Nat
    <3>1. Extra \in Int
      BY <1>2, ExtraIs, ExtraTypes
    <3> QED
      BY <1>2, <3>1 DEF Max0, Seen
  <2>2. found \in Seen /\ found.loan = seen[p].loan /\ found.owed = owed
    BY <1>2, <2>1 DEF Seen
  <2>3. UNCHANGED <<data, lock>> /\ UNCHANGED data /\ lock' = lock
        /\ (Goto(p, "differs", found) \/ Finish(p, "done"))
    BY <1>5 DEF ReadAdjustments
  <2> HIDE DEF owed, found
  <2>4. CASE Finish(p, "done")
    BY <1>1, <1>2, <1>3, <2>3, <2>4, EndKept
  <2>5. CASE Goto(p, "differs", found)
    BY <1>1, <1>2, <1>3, <1>5, <2>1, <2>2, <2>3, <2>5, GotoKept DEF ReadAdjustments, At
  <2> QED
    BY <2>3, <2>4, <2>5
<1>6. CASE WriteCache(p)
  <2>1. /\ pc[p] = "differs" /\ Finish(p, "done") /\ UNCHANGED <<rows, made, entries, lock>>
        /\ lock' = lock
    BY <1>6 DEF WriteCache, At
  <2>2. loan' \in Loan /\ loan'.alive = loan.alive /\ loan'.principal = loan.principal
    <3>1. seen[p].owed \in Nat
      BY <1>2, <2>1 DEF Serves
    <3>2. CASE loan' = loan
      BY <1>2, <3>2
    <3>3. CASE loan' # loan
      <4>1. PICK s \in {"COMPLETED", loan.status} :
              loan' = [loan EXCEPT !.balance = seen[p].owed, !.status = s]
        BY <1>6, <3>3 DEF WriteCache
      <4> QED
        BY <1>2, <3>1, <4>1 DEF Loan, Statuses
    <3> QED
      BY <3>2, <3>3
  <2>3. SameLoan /\ loan' # NoRow
    BY <1>2, <2>2, Given DEF SameLoan
  <2>4. Control' /\ Only(p) /\ pc'[p] = "done"
    BY <1>1, <1>2, <1>3, <2>1, <2>3, EndControlled
  <2> QED
    BY <1>1, <2>1, <2>3, <2>4 DEF Kept, Effect, Reconciled
<1> QED
  BY <1>4, <1>5, <1>6

LEMMA LockKept ==
  ASSUME LoanInv, NEW p \in Procs, LockAccount(p) \/ LockLoan(p) \/ LockInstallment(p)
  PROVE  Kept(p)
<1>1. pc[p] \in Waiting \ {"ready"} /\ pc[p] \in Begun /\ pc[p] # "idle"
      /\ req[p].op \in {"create"} \cup LoanHolders
  BY DEF LockAccount, LockLoan, LockInstallment, At, Waiting, Begun, LoanHolders, Adjustments, Extras, Schedules
<1>2. Control /\ Serves(p) /\ Holds(p)
  BY <1>1, Serving
<1>3. /\ req[p].acct \in Accounts \cup {NoAccount} /\ req[p].n \in Numbers /\ NoAccount \notin Accounts
      /\ LoanRow \notin Accounts /\ LoanRow \notin Numbers /\ Accounts \cap Numbers = {}
  <2>1. req[p] \in RequestsOf[p]
    BY <1>1, <1>2 DEF Serves
  <2> QED
    BY <2>1, RequestIs, Given
<1>4. ASSUME NEW label \in {"account", "loan", "ready"}, Goto(p, label, seen[p]),
             Take(p), MayGoOn(p), UNCHANGED data, label = "loan" => req[p].op = "pay",
             req[p].op = "create" => label = "account",
             label \in {"loan", "ready"} /\ req[p].op \in LoanHolders =>
               LoanRow \in Wants(p) \/ lock[LoanRow] = p,
             ~(label \in {"loan", "ready"} /\ req[p].op \in LoanHolders) =>
               LoanRow \notin Wants(p) /\ lock[LoanRow] # p,
             label \in {"account"} \/ \A a \in Accounts : a \notin Wants(p),
             (label = "ready" /\ req[p].op = "pay") \/ \A n \in Numbers : n \notin Wants(p)
      PROVE  Kept(p)
  <2>1. Control' /\ Only(p) /\ pc'[p] = label
    BY <1>1, <1>2, <1>4, TakeControlled
  <2> QED
    BY <1>1, <1>4, <2>1 DEF Kept, Effect, Quiet
<1>5. CASE LockAccount(p)
  <2>1. /\ pc[p] = "found" /\ req[p].op \in {"create", "pay"} \cup Extras /\ req[p].acct \in Accounts
        /\ MayGoOn(p)
    BY <1>3, <1>5 DEF LockAccount, At
  <2>2. CASE Refuse(p, "rejected")
    BY <1>1, <1>2, <2>2, RefuseKept
  <2>3. CASE ~Refuse(p, "rejected")
    <3>1. Goto(p, "account", seen[p]) /\ Take(p) /\ UNCHANGED data
      BY <1>5, <2>3 DEF LockAccount
    <3>2. Wants(p) = {req[p].acct}
      BY <1>3, <2>1 DEF Wants, At, Ops, Adjustments, Extras
    <3>3. lock[LoanRow] # p
      BY <1>2, <2>1 DEF Holds
    <3> HIDE DEF Wants
    <3> QED
      BY <1>3, <1>4, <2>1, <3>1, <3>2, <3>3
  <2> QED
    BY <2>2, <2>3
<1>6. CASE LockLoan(p)
  <2> DEFINE label == IF req[p].op = "pay" THEN "loan" ELSE "ready"
  <2>1. /\ \/ pc[p] = "account" /\ req[p].op \in {"pay"} \cup Extras
           \/ pc[p] = "found" /\ req[p].op \in Adjustments /\ req[p].acct = NoAccount
        /\ MayGoOn(p) /\ Take(p) /\ Goto(p, label, seen[p]) /\ UNCHANGED data
    BY <1>6 DEF LockLoan, At
  <2>2. Wants(p) = {LoanRow}
    BY <2>1 DEF Wants, At, Ops, Adjustments, Extras, Schedules
  <2>3. req[p].op \in LoanHolders /\ req[p].op # "create"
    BY <2>1 DEF LoanHolders, Adjustments, Extras, Schedules
  <2>4. label \in {"account", "loan", "ready"} /\ (label = "loan" => req[p].op = "pay")
        /\ label \in {"loan", "ready"}
    OBVIOUS
  <2> HIDE DEF label
  <2> QED
    BY <1>3, <1>4, <2>1, <2>2, <2>3, <2>4
<1>7. CASE LockInstallment(p)
  <2>1. /\ pc[p] = "loan" /\ req[p].op = "pay"
        /\ MayGoOn(p) /\ Take(p) /\ Goto(p, "ready", seen[p]) /\ UNCHANGED data
    BY <1>7 DEF LockInstallment, At
  <2>2. Wants(p) = {req[p].n}
    BY <2>1 DEF Wants, At, Ops, Adjustments, Extras, Schedules
  <2>3. lock[LoanRow] = p
    BY <1>2, <2>1 DEF Holds, LoanHolders
  <2> QED
    BY <1>3, <1>4, <2>1, <2>2, <2>3 DEF LoanHolders
<1> QED
  BY <1>5, <1>6, <1>7

LEMMA AbortKept ==
  ASSUME LoanInv, NEW p \in Procs, Abort(p)
  PROVE  Kept(p)
<1>1. pc[p] \in Begun /\ Refuse(p, "aborted")
  BY DEF Abort
<1> QED
  BY <1>1, Serving, RefuseKept

LEMMA CreateKept ==
  ASSUME LoanInv, NEW p \in Procs, CommitCreate(p)
  PROVE  Kept(p)
<1> DEFINE r == req[p]
           c == r.contract
           l == [alive |-> TRUE, status |-> "ACTIVE", balance |-> c.principal,
                 payable |-> c.payable, principal |-> c.principal, style |-> c.style,
                 term |-> ResolvedTerm(c), io |-> c.io, rate |-> c.rate, fixed |-> c.fixed]
           rs == [n \in Numbers |-> IF n <= ResolvedTerm(c) THEN NewRow(FirstRows(c)[n]) ELSE NoRow]
           e == IF r.acct = NoAccount THEN NoRow
                ELSE NewEntry(r, Signed(c.payable, "create", c.principal))
<1>1. pc[p] \in Begun /\ pc[p] # "idle" /\ r.op = "create"
  BY DEF CommitCreate, At, Begun
<1>2. Control /\ r \in RequestsOf[p] /\ made[p] = NoRow
  BY <1>1, Serving
<1>3. c \in Contract /\ Accepted(c)
  BY <1>1, <1>2, RequestIs
<1>4. CASE \E how \in {"repeated", "rejected"} : Refuse(p, how)
  BY <1>1, <1>2, <1>4, RefuseKept
<1>5. CASE ~ \E how \in {"repeated", "rejected"} : Refuse(p, how)
  <2>1. loan = NoRow /\ Commit(p, l, rs, NoRow, e)
    BY <1>5 DEF CommitCreate
  <2>2. /\ ResolvedTerm(c) \in Numbers
        /\ rs \in Table /\ \A n \in Numbers : Untouched(rs[n])
        /\ Scheduled(rs) = c.principal
    BY <1>3, FirstRowsCarry
  <2>3. l \in Loan /\ l.alive /\ l.balance = l.principal /\ l.principal = c.principal
    BY <1>3, <2>2 DEF Loan, Contract, Statuses
  <2>4. e \in Entry \cup {NoRow}
    <3> SUFFICES ASSUME r.acct # NoAccount PROVE e \in Entry
      OBVIOUS
    <3>1. Signed(c.payable, "create", c.principal) \in Int
      BY <1>3 DEF Signed, Contract
    <3> QED
      BY <1>2, <3>1, NewEntryTypes
  <2> HIDE DEF l, rs, e
  <2>5. l # NoRow
    BY <2>3, Given
  <2>6. /\ Control' /\ Only(p) /\ pc'[p] = "done" /\ loan' = l /\ rows' = rs
        /\ made' = [made EXCEPT ![p] = NoRow] /\ entries' = [entries EXCEPT ![p] = e]
    BY <1>1, <1>2, <2>1, <2>5, CommitControlled
  <2>7. Logged(p, NoRow)
    BY <2>4, <2>6, LogEntry
  <2>8. Created(p)
    BY <1>1, <1>2, <2>1, <2>2, <2>3, <2>6, <2>7 DEF Created
  <2> QED
    BY <1>1, <2>6, <2>8 DEF Kept, Effect
<1> QED
  BY <1>4, <1>5

LEMMA PaymentKept ==
  ASSUME LoanInv, NEW p \in Procs, CommitPayment(p)
  PROVE  Kept(p)
<1> DEFINE r == req[p]
           n == r.n
           old == rows[n]
           left == old.total - Paid(old)
           a == IF r.amt = 0 THEN left ELSE r.amt
           i == InterestPart(old, a)
           row == PaidRow(old, a)
           paid == [rows EXCEPT ![n] = row]
           signed == Signed(loan.payable, "pay", a)
           owing == Owing(old, a)
           l == MaybeCompleted(owing, paid)
           x == [op |-> "pay", n |-> n, principal |-> a - i, interest |-> a - (a - i), key |-> r.key]
           e == NewEntry(r, signed)
<1>1. pc[p] \in Begun /\ pc[p] # "idle" /\ pc[p] = "ready" /\ r.op = "pay"
  BY DEF CommitPayment, At, Begun
<1>2. Control /\ r \in RequestsOf[p] /\ made[p] = NoRow /\ rows \in Table
      /\ loan \in Loan \cup {NoRow}
  BY <1>1, Serving
<1>3. n \in Numbers /\ r.amt \in Nat /\ r.acct # NoAccount /\ r.key \in Keys
  BY <1>1, <1>2, RequestIs
<1>4. CASE \E how \in {"repeated", "rejected"} : Refuse(p, how)
  BY <1>1, <1>2, <1>4, RefuseKept
<1>5. CASE ~ \E how \in {"repeated", "rejected"} : Refuse(p, how)
  <2>1. /\ PayableRow(n) /\ ~(a <= 0) /\ ~KeyTaken(r.key)
        /\ Commit(p, l, paid, x, e)
    BY <1>5 DEF CommitPayment
  <2>2. Active(rows, n) /\ old \in Installment /\ old.active /\ Alive /\ loan \in Loan /\ loan.alive
    BY <1>2, <1>3, <2>1, Given DEF PayableRow, Active, Alive, Table
  <2>3. /\ old.principal \in Nat /\ old.interest \in Nat /\ old.total \in Nat
        /\ old.paidPrincipal \in Nat /\ old.paidInterest \in Nat
    BY <2>2 DEF Installment
  <2>4. a \in Nat \ {0}
    <3>1. left \in Int
      BY <2>3 DEF Paid
    <3> QED
      BY <1>3, <2>1, <3>1
  <2>5. i \in Nat /\ i <= a
    <3> HIDE DEF a
    <3> QED
      BY <2>3, <2>4 DEF InterestPart, Least, Max0
  <2>6. a - i \in Nat /\ a - (a - i) \in Nat
    <3> HIDE DEF a, i
    <3> QED
      BY <2>4, <2>5
  <2>7. /\ row \in Installment /\ row.active /\ row.status # "PENDING"
        /\ row.principal = old.principal
        /\ row.paidPrincipal = old.paidPrincipal + (a - i)
        /\ row.paidInterest = old.paidInterest + i
    <3>1. \E s \in {"PAID", "PARTIAL"} :
            row = [old EXCEPT !.paidInterest = @ + i, !.paidPrincipal = @ + (a - i), !.status = s]
      BY DEF PaidRow
    <3>2. old.paidInterest + i \in Nat /\ old.paidPrincipal + (a - i) \in Nat
      <4> HIDE DEF a, i
      <4> QED
        BY <2>3, <2>5, <2>6
    <3> DEFINE ip == old.paidInterest + i
               pp == old.paidPrincipal + (a - i)
    <3>3. PICK s \in {"PAID", "PARTIAL"} :
            row = [old EXCEPT !.paidInterest = ip, !.paidPrincipal = pp, !.status = s]
      BY <3>1
    <3> HIDE DEF ip, pp, row, old
    <3>4. /\ row \in Installment /\ row.active /\ row.status # "PENDING"
          /\ row.principal = old.principal
          /\ row.paidPrincipal = pp /\ row.paidInterest = ip
      BY <2>2, <3>2, <3>3 DEF Installment, ip, pp
    <3> QED
      BY <3>4 DEF ip, pp
  <2>8. signed \in Int
    <3> HIDE DEF a
    <3> QED
      BY <2>4 DEF Signed
  <2>9. e \in Entry /\ e # NoRow /\ e.key = r.key
    <3> HIDE DEF signed
    <3> QED
      BY <1>2, <1>3, <2>8, NewEntryTypes
  <2>10. x \in Payment /\ x.key = r.key
    <3> HIDE DEF a, i
    <3> QED
      BY <1>3, <2>6 DEF Payment
  <2>11. /\ owing \in Loan /\ owing.balance = Max0(loan.balance - (a - i))
         /\ owing.alive /\ owing.principal = loan.principal /\ owing.status = loan.status
    <3>1. owing = [loan EXCEPT !.balance = Max0(@ - (a - i))]
      BY DEF Owing
    <3>2. Max0(loan.balance - (a - i)) \in Nat
      <4> HIDE DEF a, i
      <4> QED
        BY <2>2, <2>6 DEF Max0, Loan
    <3> HIDE DEF a, i, owing
    <3> QED
      BY <2>2, <3>1, <3>2 DEF Loan
  <2> HIDE DEF a, i, row, signed, e, x, owing
  <2>12. /\ l \in Loan /\ l.alive /\ l.principal = loan.principal
         /\ l.balance = Max0(loan.balance - (a - i))
         /\ l.status # loan.status => l.balance = 0 /\ AllSettled(paid)
    BY <2>11 DEF MaybeCompleted, Loan, Statuses
  <2> HIDE DEF l, paid
  <2>13. l # NoRow
    BY <2>12, Given
  <2>14. /\ Control' /\ Only(p) /\ pc'[p] = "done" /\ loan' = l /\ rows' = paid
         /\ made' = [made EXCEPT ![p] = x] /\ entries' = [entries EXCEPT ![p] = e]
    BY <1>1, <1>2, <2>1, <2>13, CommitControlled
  <2>15. Logged(p, x) /\ entries'[p] = e
    BY <2>9, <2>14, LogEntry
  <2>16. rows' = [rows EXCEPT ![n] = row]
    BY <2>14 DEF paid
  <2>17. SameLoan
    BY <2>2, <2>12, <2>14 DEF SameLoan
  <2>18. Pays(p, n, a - i, i, row, x)
    BY <1>1, <1>2, <2>1, <2>2, <2>7, <2>9, <2>10, <2>12, <2>14, <2>15, <2>16, <2>17 DEF Pays
  <2>19. PaidOff(p)
    BY <1>3, <2>5, <2>6, <2>7, <2>10, <2>18 DEF PaidOff
  <2> QED
    BY <1>1, <2>14, <2>19 DEF Kept, Effect
<1> QED
  BY <1>4, <1>5

LEMMA DeleteKept ==
  ASSUME LoanInv, NEW p \in Procs, CommitDelete(p)
  PROVE  Kept(p)
<1>1. pc[p] \in Begun /\ pc[p] # "idle" /\ req[p].op = "delete"
  BY DEF CommitDelete, At, Begun
<1>2. Control /\ rows \in Table /\ Tidy(rows) /\ loan \in Loan \cup {NoRow}
      /\ made \in Log /\ entries \in [Procs -> Entry \cup {NoRow}]
  BY <1>1, Serving
<1>3. CASE Refuse(p, "rejected")
  BY <1>1, <1>2, <1>3, RefuseKept
<1>4. CASE ~Refuse(p, "rejected")
  <2> DEFINE l == [loan EXCEPT !.alive = FALSE, !.status = "CANCELLED"]
  <2>1. Alive /\ Commit(p, l, Cleared(rows, 1), made[p], entries[p])
    BY <1>4 DEF CommitDelete
  <2>2. loan \in Loan /\ loan.alive
    BY <1>2, <2>1 DEF Alive
  <2>3. /\ l \in Loan /\ l.alive = FALSE /\ l.status = "CANCELLED"
        /\ l.principal = loan.principal /\ l.balance = loan.balance
    BY <2>2 DEF Loan, Statuses
  <2> HIDE DEF l
  <2>4. l # NoRow
    BY <2>3, Given
  <2>5. /\ Control' /\ Only(p) /\ pc'[p] = "done" /\ loan' = l /\ rows' = Cleared(rows, 1)
        /\ made' = [made EXCEPT ![p] = made[p]] /\ entries' = [entries EXCEPT ![p] = entries[p]]
    BY <1>1, <1>2, <2>1, <2>4, CommitControlled
  <2>6. made' = made /\ entries' = entries
    BY <1>2, <2>5 DEF Log
  <2>7. Rearranged(rows, rows') /\ PendingFrom(rows', 1) = {}
    <3>1. Rearranged(rows, rows') /\ PendingFrom(rows', 1) = {n \in PendingFrom(rows, 1) : n < 1}
      BY <1>2, <2>5, ClearedRearranges
    <3>2. \A n \in PendingFrom(rows, 1) : n >= 1 /\ n \in Nat
      BY Given DEF PendingFrom, ActiveRows
    <3> QED
      BY <3>1, <3>2
  <2>8. Deleted(p)
    BY <1>1, <2>2, <2>3, <2>5, <2>6, <2>7 DEF Deleted
  <2> QED
    BY <1>1, <2>5, <2>8 DEF Kept, Effect
<1> QED
  BY <1>3, <1>4

LEMMA UpdateKept ==
  ASSUME LoanInv, NEW p \in Procs, CommitUpdate(p)
  PROVE  Kept(p)
<1>1. pc[p] \in Begun /\ pc[p] # "idle" /\ req[p].op = "update"
  BY DEF CommitUpdate, At, Begun
<1>2. Control /\ rows \in Table /\ loan \in Loan \cup {NoRow} /\ req[p] \in RequestsOf[p]
      /\ made \in Log /\ entries \in [Procs -> Entry \cup {NoRow}]
  BY <1>1, Serving
<1>3. CASE Refuse(p, "rejected")
  BY <1>1, <1>2, <1>3, RefuseKept
<1>4. CASE ~Refuse(p, "rejected")
  <2> DEFINE l == [loan EXCEPT !.status = req[p].status]
  <2>1. Alive /\ Commit(p, l, rows, made[p], entries[p])
    BY <1>4 DEF CommitUpdate
  <2>2. loan \in Loan /\ req[p].status \in Statuses
    BY <1>2, <2>1, RequestIs DEF Alive
  <2>3. l \in Loan /\ l.alive = loan.alive /\ l.principal = loan.principal /\ l.balance = loan.balance
    BY <2>2 DEF Loan
  <2> HIDE DEF l
  <2>4. l # NoRow
    BY <2>3, Given
  <2>5. /\ Control' /\ Only(p) /\ pc'[p] = "done" /\ loan' = l /\ rows' = rows
        /\ made' = [made EXCEPT ![p] = made[p]] /\ entries' = [entries EXCEPT ![p] = entries[p]]
    BY <1>1, <1>2, <2>1, <2>4, CommitControlled
  <2>6. made' = made /\ entries' = entries
    BY <1>2, <2>5 DEF Log
  <2>7. Marked(p)
    BY <1>1, <2>2, <2>3, <2>5, <2>6 DEF Marked, SameLoan
  <2> QED
    BY <1>1, <2>5, <2>7 DEF Kept, Effect
<1> QED
  BY <1>3, <1>4

\* The adjustment a request makes.
NewAdjustment(r) == [op |-> r.op, amt |-> r.amt, key |-> r.key]

LEMMA AdjustKept ==
  ASSUME LoanInv, NEW p \in Procs, pc[p] \in Begun, req[p].op \in Adjustments, loan # NoRow,
         NEW refused \in BOOLEAN, NEW l, NEW rs, NEW e \in Entry \cup {NoRow},
         Adjust(p, refused, l, rs, e),
         ~refused =>
           Adjusts(NewAdjustment(req[p]), l, rs, [made EXCEPT ![p] = NewAdjustment(req[p])])
  PROVE  Kept(p)
<1> DEFINE x == NewAdjustment(req[p])
<1>1. Control /\ req[p] \in RequestsOf[p] /\ made[p] = NoRow /\ loan \in Loan
  BY Serving
<1>2. CASE \E how \in {"repeated", "rejected"} : Refuse(p, how)
  BY <1>1, <1>2, RefuseKept
<1>3. CASE ~ \E how \in {"repeated", "rejected"} : Refuse(p, how)
  <2>1. ~refused /\ ~MadeWith(Adjustments, req[p].key) /\ Commit(p, l, rs, x, e)
    BY <1>3 DEF Adjust, NewAdjustment
  <2>2. x \in Adjustment /\ x.key = req[p].key /\ x.op = req[p].op
    BY <1>1, RequestIs DEF NewAdjustment, Adjustment
  <2> HIDE DEF x
  <2>3. Adjusts(x, l, rs, [made EXCEPT ![p] = x])
    BY <2>1 DEF x
  <2>4. l # NoRow
    BY <2>3, Given DEF Adjusts
  <2>5. /\ Control' /\ Only(p) /\ pc'[p] = "done" /\ loan' = l /\ rows' = rs
        /\ made' = [made EXCEPT ![p] = x] /\ entries' = [entries EXCEPT ![p] = e]
    BY <1>1, <2>1, <2>4, CommitControlled
  <2>6. Logged(p, x)
    BY <2>5, LogEntry
  <2>7. Adjusts(x, loan', rows', made')
    BY <2>3, <2>5
  <2>8. Adjusted(p)
    BY <1>1, <2>1, <2>2, <2>6, <2>7 DEF Adjusted
  <2> QED
    BY <2>5, <2>8, LabelsDiffer DEF Kept, Effect
<1> QED
  BY <1>2, <1>3

\* A loan that stands and an adjustment that is about to be made of it.
LEMMA Adjusting ==
  ASSUME LoanInv, NEW p \in Procs, pc[p] = "ready", req[p].op \in Adjustments
  PROVE  /\ pc[p] \in Begun /\ Control /\ Serves(p)
         /\ req[p] \in RequestsOf[p] /\ loan \in Loan /\ loan # NoRow
         /\ rows \in Table /\ Tidy(rows) /\ made \in Log /\ made[p] = NoRow
         /\ seen[p].loan \in Loan /\ seen[p].loan.status # "COMPLETED"
         /\ NewAdjustment(req[p]) \in Adjustment
         /\ NewAdjustment(req[p]).op = req[p].op /\ NewAdjustment(req[p]).amt = req[p].amt
         /\ PendingFrom(rows, 1) \subseteq Numbers
<1>1. pc[p] \in Begun /\ pc[p] \in Begun \ {"begun"} /\ pc[p] \in Waiting /\ req[p].op # "create"
  BY DEF Begun, Waiting, Adjustments, Extras, Schedules
<1>2. /\ req[p] \in RequestsOf[p] /\ made[p] = NoRow /\ Control /\ Serves(p)
      /\ loan \in Loan \cup {NoRow} /\ rows \in Table /\ made \in Log /\ Tidy(rows)
  BY <1>1, Serving
<1>3. NewAdjustment(req[p]) \in Adjustment
  BY <1>2, RequestIs DEF NewAdjustment, Adjustment
<1> QED
  BY <1>1, <1>2, <1>3 DEF Serves, NewAdjustment, PendingFrom, ActiveRows

\* What becomes of rows when the schedule is rebuilt from the first one without a payment.
LEMMA RebuiltIs ==
  ASSUME NEW l \in Loan, NEW rs \in Table, Tidy(rs), NEW extra \in Int, NEW pending,
         pending = PendingFrom(rs, 1), pending = {} \/ ~Blocked(l, rs, Min(pending)),
         NEW new, new = IF pending = {} THEN rs ELSE Regenerated(l, rs, extra, Min(pending))
  PROVE  /\ Rearranged(rs, new)
         /\ pending = {} => PendingFrom(new, 1) = {}
         /\ (\E n \in PendingFrom(new, 1) : n <= l.term) =>
              Scheduled(new) = LedgerBalance(l.principal, extra, rs)
<1>1. CASE pending = {}
  BY <1>1 DEF Rearranged
<1>2. CASE pending # {}
  <2> DEFINE from == Min(pending)
  <2>1. pending \in SUBSET Numbers /\ pending \in SUBSET Nat
    BY Given DEF PendingFrom, ActiveRows
  <2>2. from \in pending /\ \A n \in pending : from <= n
    BY <1>2, <2>1, MinIs
  <2> HIDE DEF from
  <2>3. from \in Numbers /\ ~Blocked(l, rs, from) /\ new = Regenerated(l, rs, extra, from)
    BY <1>2, <2>1, <2>2 DEF from
  <2>4. Rearranged(rs, new)
    BY <2>3, RegeneratedRearranges
  <2>5. ASSUME NEW n \in PendingFrom(new, 1), n <= l.term
        PROVE  Scheduled(new) = LedgerBalance(l.principal, extra, rs)
    <3>1. CASE from <= l.term
      <4>1. PendingFrom(new, 1) # {} /\ \A k \in PendingFrom(rs, 1) : from <= k
        BY <2>2, <2>5
      <4> QED
        BY <2>3, <3>1, <4>1, RegeneratedCarriesDebt
    <3>2. CASE ~(from <= l.term)
      <4>1. from \in Nat /\ l.term \in Nat
        BY <2>3, Given DEF Loan
      <4>2. from > l.term
        BY <3>2, <4>1
      <4>3. new = rs
        BY <2>3, <4>2 DEF Regenerated
      <4>4. n \in pending /\ n \in Nat
        BY <2>1, <2>5, <4>3
      <4> QED
        BY <2>2, <2>5, <4>1, <4>2, <4>4
    <3> QED
      BY <3>1, <3>2
  <2> QED
    BY <1>2, <2>4, <2>5
<1> QED
  BY <1>1, <1>2

LEMMA NothingPending ==
  ASSUME NEW rs \in Table, Tidy(rs)
  PROVE  PendingFrom(Cleared(rs, 1), 1) = {}
<1>1. PendingFrom(Cleared(rs, 1), 1) = {n \in PendingFrom(rs, 1) : n < 1}
  BY ClearedRearranges
<1>2. \A n \in PendingFrom(rs, 1) : n >= 1 /\ n \in Nat
  BY Given DEF PendingFrom, ActiveRows
<1> QED
  BY <1>1, <1>2

LEMMA CustomKept ==
  ASSUME LoanInv, NEW p \in Procs, CommitCustom(p)
  PROVE  Kept(p)
<1> DEFINE n == req[p].n
           rs == [rows EXCEPT ![n] = IF @ = NoRow THEN @ ELSE [@ EXCEPT !.total = req[p].amt]]
           x == NewAdjustment(req[p])
           refused == n \notin PendingFrom(rows, 1)
<1>1. /\ pc[p] = "ready" /\ req[p].op = "custom" /\ req[p].op \in Adjustments
      /\ Adjust(p, refused, loan, rs, NoRow)
  BY DEF CommitCustom, At, Adjustments
<1>2. /\ pc[p] \in Begun /\ req[p] \in RequestsOf[p] /\ loan \in Loan /\ loan # NoRow
      /\ rows \in Table /\ Tidy(rows) /\ x.op = req[p].op
  BY <1>1, Adjusting
<1>3. req[p].amt \in Nat
  BY <1>2, RequestIs
<1>4. x.op \notin Extras /\ x.op \notin Extras \cup Schedules
  BY <1>1, <1>2 DEF Extras, Schedules
<1> HIDE DEF x
<1>5. ASSUME ~refused PROVE Adjusts(x, loan, rs, [made EXCEPT ![p] = x])
  <2>1. Rearranged(rows, rs) /\ PendingFrom(rs, 1) = PendingFrom(rows, 1)
    BY <1>2, <1>3, <1>5, CustomRearranges
  <2> HIDE DEF rs
  <2> QED
    BY <1>1, <1>2, <1>4, <2>1 DEF Adjusts
<1> HIDE DEF rs, refused
<1>6. refused \in BOOLEAN
  BY DEF refused
<1> QED
  BY <1>1, <1>2, <1>5, <1>6, AdjustKept DEF x

LEMMA ScheduleKept ==
  ASSUME LoanInv, NEW p \in Procs, CommitSchedule(p)
  PROVE  Kept(p)
<1> DEFINE r == req[p]
           l == CASE r.op = "rate" -> [loan EXCEPT !.rate = r.to]
                  [] r.op = "reschedule" -> [loan EXCEPT !.term = r.to]
                  [] OTHER -> [loan EXCEPT !.io = r.to]
           kept == IF r.op = "reschedule" /\ r.to < seen[p].loan.term
                   THEN Cleared(rows, r.to + 1) ELSE rows
           pending == PendingFrom(kept, 1)
           rs == IF pending = {} THEN kept ELSE Regenerated(l, kept, Extra, Min(pending))
           refused == pending # {} /\ Blocked(l, kept, Min(pending))
           x == NewAdjustment(r)
           m == [made EXCEPT ![p] = x]
<1>1. /\ pc[p] = "ready" /\ r.op \in Schedules /\ r.op \in Adjustments /\ r.op \notin Extras
      /\ Adjust(p, refused, l, rs, NoRow)
  BY DEF CommitSchedule, At, Adjustments, Extras, Schedules
<1>2. /\ pc[p] \in Begun /\ r \in RequestsOf[p] /\ loan \in Loan /\ loan # NoRow
      /\ rows \in Table /\ Tidy(rows) /\ made \in Log /\ made[p] = NoRow
      /\ x \in Adjustment /\ x.op = r.op
  BY <1>1, Adjusting
<1>3. r.to \in Nat /\ (r.op = "reschedule" => r.to \in Numbers)
  BY <1>2, RequestIs
<1> HIDE DEF x
<1>4. /\ l \in Loan /\ l.alive = loan.alive /\ l.principal = loan.principal
      /\ l.balance = loan.balance /\ l.status = loan.status
  BY <1>2, <1>3 DEF Loan
<1>5. /\ Rearranged(rows, kept) /\ kept \in Table /\ Tidy(kept)
      /\ PaidPrincipal(kept) = PaidPrincipal(rows)
      /\ PendingFrom(rows, 1) = {} => pending = {}
  <2>1. CASE kept = rows
    BY <1>2, <2>1 DEF Rearranged
  <2>2. CASE kept = Cleared(rows, r.to + 1)
    <3>1. r.to + 1 \in Nat
      BY <1>3
    <3>2. Rearranged(rows, kept) /\ (PendingFrom(rows, 1) = {} => pending = {})
      BY <1>2, <2>2, <3>1, ClearedRearranges
    <3> HIDE DEF kept
    <3> QED
      BY <1>2, <3>2, PaidStays DEF Rearranged
  <2> QED
    BY <2>1, <2>2
<1>6. Extra \in Int /\ ExtraOf(m) = Extra
  <2>1. Extra = ExtraOf(made)
    BY ExtraIs
  <2>2. ExtraOf(made) \in Int
    BY <1>2, ExtraTypes
  <2>3. ExtraOf(m) = ExtraOf(made)
    <3>1. x \in Payment \cup Adjustment \cup {NoRow} /\ x.op \notin Extras
      BY <1>1, <1>2
    <3> QED
      BY <1>2, <3>1, ExtraChanges
  <2> QED
    BY <2>1, <2>2, <2>3
<1>7. ASSUME ~refused PROVE Adjusts(x, l, rs, m)
  <2>1. /\ Rearranged(kept, rs)
        /\ pending = {} => PendingFrom(rs, 1) = {}
        /\ (\E n \in PendingFrom(rs, 1) : n <= l.term) =>
             Scheduled(rs) = LedgerBalance(l.principal, Extra, kept)
    <3>1. pending = {} \/ ~Blocked(l, kept, Min(pending))
      BY <1>7
    <3>2. pending = PendingFrom(kept, 1)
      OBVIOUS
    <3>3. rs = IF pending = {} THEN kept ELSE Regenerated(l, kept, Extra, Min(pending))
      OBVIOUS
    <3> HIDE DEF l, kept, pending, rs
    <3> QED
      BY <1>4, <1>5, <1>6, <3>1, <3>2, <3>3, RebuiltIs
  <2>2. LedgerBalance(l.principal, Extra, kept) = LedgerBalance(loan.principal, ExtraOf(m), rows)
    <3> HIDE DEF l, kept, m
    <3> QED
      BY <1>4, <1>5, <1>6 DEF LedgerBalance
  <2> HIDE DEF l, kept, pending, rs, m
  <2>3. Rearranged(rows, rs)
    BY <1>2, <1>5, <2>1, RearrangedTwice
  <2> QED
    BY <1>1, <1>2, <1>4, <1>5, <2>1, <2>2, <2>3 DEF Adjusts, Extras, Schedules
<1> HIDE DEF l, rs, refused
<1>8. refused \in BOOLEAN
  BY DEF refused
<1> QED
  BY <1>1, <1>2, <1>7, <1>8, AdjustKept DEF x, m

LEMMA ExtraMoneyKept ==
  ASSUME LoanInv, NEW p \in Procs, CommitExtraMoney(p)
  PROVE  Kept(p)
<1> DEFINE r == req[p]
           extra == IF r.op = "disburse" THEN Extra + r.amt ELSE Extra - r.amt
           remaining == LedgerBalance(loan.principal, extra, rows)
           pending == PendingFrom(rows, 1)
           e == IF r.acct = NoAccount THEN NoRow
                ELSE NewEntry(r, Signed(loan.payable, r.op, r.amt))
           x == NewAdjustment(r)
           m == [made EXCEPT ![p] = x]
<1>1. /\ pc[p] = "ready" /\ r.op \in Extras /\ r.op \in Adjustments
      /\ IF remaining = 0
         THEN Adjust(p, TooMuch(r), Discharged(p), Cleared(rows, 1), e)
         ELSE Adjust(p, TooMuch(r) \/ (pending # {} /\ Blocked(loan, rows, Min(pending))),
                     [loan EXCEPT !.balance = remaining],
                     IF pending = {} THEN rows ELSE Regenerated(loan, rows, extra, Min(pending)), e)
  BY DEF CommitExtraMoney, At, Adjustments
<1>2. /\ pc[p] \in Begun /\ r \in RequestsOf[p] /\ loan \in Loan /\ loan # NoRow
      /\ rows \in Table /\ Tidy(rows) /\ made \in Log /\ made[p] = NoRow
      /\ x \in Adjustment /\ x.op = r.op /\ x.amt = r.amt
      /\ seen[p].loan \in Loan /\ seen[p].loan.status # "COMPLETED"
  BY <1>1, Adjusting
<1>3. r.amt \in Nat /\ r.amt > 0
  BY <1>1, <1>2, RequestIs
<1> HIDE DEF x
<1>4. extra \in Int /\ ExtraOf(m) = extra
  <2>1. Extra = ExtraOf(made)
    BY ExtraIs
  <2>2. ExtraOf(made) \in Int
    BY <1>2, ExtraTypes
  <2>3. x \in Payment \cup Adjustment \cup {NoRow} /\ x # NoRow
    BY <1>2, Given
  <2>4. ExtraOf(m) = IF r.op = "disburse" THEN ExtraOf(made) + r.amt ELSE ExtraOf(made) - r.amt
    BY <1>1, <1>2, <2>3, ExtraChanges DEF Extras
  <2> QED
    BY <1>3, <2>1, <2>2, <2>4
<1>5. e \in Entry \cup {NoRow}
  <2> SUFFICES ASSUME r.acct # NoAccount PROVE e \in Entry
    OBVIOUS
  <2>1. Signed(loan.payable, r.op, r.amt) \in Int
    BY <1>3 DEF Signed
  <2> QED
    BY <1>2, <2>1, NewEntryTypes
<1>6. ASSUME ~TooMuch(r) PROVE x.op = "extra" => x.amt > 0 /\ x.amt <= Owed
  <2>1. Owed \in Nat
    <3>1. Extra \in Int
      BY <1>2, ExtraIs, ExtraTypes
    <3>2. 0 \in Nat
      OBVIOUS
    <3> QED
      BY <1>2, <3>1, <3>2, SumsOfRows DEF Owed
  <2> QED
    BY <1>2, <1>3, <1>6, <2>1 DEF TooMuch
<1>7. remaining \in Nat
  <2>1. 0 \in Nat
    OBVIOUS
  <2> HIDE DEF extra
  <2> QED
    BY <1>2, <1>4, <2>1, SumsOfRows
<1>8. x.op \in Extras
  BY <1>1, <1>2
<1> HIDE DEF extra, remaining, e, m
<1>9. CASE remaining = 0
  <2> DEFINE l == Discharged(p)
             rs == Cleared(rows, 1)
             refused == TooMuch(r)
  <2>1. Adjust(p, refused, l, rs, e) /\ refused \in BOOLEAN
    BY <1>1, <1>9 DEF TooMuch
  <2>2. /\ l \in Loan /\ l.alive = loan.alive /\ l.principal = loan.principal /\ l.balance = 0
        /\ l.status = "COMPLETED" => AllSettled(rs)
    BY <1>2 DEF Discharged, Loan, Statuses
  <2>3. Rearranged(rows, rs)
    BY <1>2, ClearedRearranges
  <2>4. PendingFrom(rs, 1) = {}
    BY <1>2, NothingPending
  <2> HIDE DEF l, rs
  <2>5. ~refused => Adjusts(x, l, rs, m)
    BY <1>4, <1>6, <1>8, <1>9, <2>2, <2>3, <2>4 DEF Adjusts, remaining
  <2> HIDE DEF refused
  <2> QED
    BY <1>1, <1>2, <1>5, <2>1, <2>5, AdjustKept DEF x, m
<1>10. CASE remaining # 0
  <2> DEFINE l == [loan EXCEPT !.balance = remaining]
             rs == IF pending = {} THEN rows ELSE Regenerated(loan, rows, extra, Min(pending))
             refused == TooMuch(r) \/ (pending # {} /\ Blocked(loan, rows, Min(pending)))
  <2>1. Adjust(p, refused, l, rs, e) /\ refused \in BOOLEAN
    BY <1>1, <1>10 DEF TooMuch
  <2>2. /\ l \in Loan /\ l.alive = loan.alive /\ l.principal = loan.principal
        /\ l.balance = remaining /\ l.status = loan.status /\ l.term = loan.term
    BY <1>2, <1>7 DEF Loan
  <2>3. ASSUME ~refused
        PROVE  /\ Rearranged(rows, rs)
               /\ pending = {} => PendingFrom(rs, 1) = {}
               /\ (\E n \in PendingFrom(rs, 1) : n <= loan.term) =>
                    Scheduled(rs) = LedgerBalance(loan.principal, extra, rows)
    <3>1. pending = {} \/ ~Blocked(loan, rows, Min(pending))
      BY <2>3
    <3>2. pending = PendingFrom(rows, 1)
      OBVIOUS
    <3>3. rs = IF pending = {} THEN rows ELSE Regenerated(loan, rows, extra, Min(pending))
      OBVIOUS
    <3> HIDE DEF pending, rs
    <3> QED
      BY <1>2, <1>4, <3>1, <3>2, <3>3, RebuiltIs
  <2>4. ASSUME ~refused PROVE Adjusts(x, l, rs, m)
    <3>1. ~TooMuch(r)
      BY <2>4
    <3>2. /\ Rearranged(rows, rs)
          /\ pending = {} => PendingFrom(rs, 1) = {}
          /\ (\E n \in PendingFrom(rs, 1) : n <= loan.term) =>
               Scheduled(rs) = LedgerBalance(loan.principal, extra, rows)
      BY <2>3, <2>4
    <3> HIDE DEF l, rs
    <3> QED
      BY <1>4, <1>6, <1>8, <2>2, <3>1, <3>2 DEF Adjusts, remaining
  <2> HIDE DEF l, rs, refused
  <2> QED
    BY <1>1, <1>2, <1>5, <2>1, <2>4, AdjustKept DEF x, m
<1> QED
  BY <1>9, <1>10

-----------------------------------------------------------------------------
(* The invariant holds, and so every step is one of the effects.           *)

LEMMA StepKept ==
  ASSUME LoanInv, Next
  PROVE  \E p \in Procs : Kept(p)
<1>1. PICK p \in Procs :
        \/ Begin(p) \/ Abort(p)
        \/ LookupLoan(p) \/ LookupInstallment(p) \/ LookupAdjustment(p) \/ CountPayments(p)
        \/ LockAccount(p) \/ LockLoan(p) \/ LockInstallment(p)
        \/ CommitCreate(p) \/ CommitPayment(p)
        \/ CommitExtraMoney(p) \/ CommitSchedule(p) \/ CommitCustom(p)
        \/ CommitDelete(p) \/ CommitUpdate(p)
        \/ ReadLoan(p) \/ ReadRows(p) \/ ReadAdjustments(p) \/ WriteCache(p)
  BY DEF Next
<1> QED
  BY <1>1, BeginKept, AbortKept, LookupKept, LockKept, CreateKept, PaymentKept, ExtraMoneyKept,
     ScheduleKept, CustomKept, DeleteKept, UpdateKept, ReconcileKept

LEMMA LoanInvInit == Init => LoanInv
<1> SUFFICES ASSUME Init PROVE LoanInv
  OBVIOUS
<1>1. Tables
  <2>1. TableTypes
    BY DEF Init, TableTypes, Table, Log
  <2>2. /\ \A n \in Numbers : rows[n] = NoRow
        /\ \A q \in Procs : made[q] = NoRow
        /\ loan = NoRow
    BY DEF Init
  <2> QED
    BY <2>1, <2>2 DEF Tables, Tidy, Untouched, Made, DeletedHasNoPending
<1>2. Control
  <2>1. ControlTypes
    BY DEF Init, ControlTypes, Nothing, Seen
  <2>2. ASSUME NEW p \in Procs PROVE Serves(p) /\ Holds(p)
    <3>1. pc[p] = "idle" /\ made[p] = NoRow /\ entries[p] = NoRow /\ NoProc # p
      BY Given DEF Init
    <3>2. Serves(p)
      BY <3>1 DEF Serves, Begun, Waiting
    <3>3. \A x \in Locks : lock[x] # p
      BY <3>1 DEF Init
    <3>4. Holds(p)
      BY <3>1, <3>3 DEF Holds, Locks
    <3> QED
      BY <3>2, <3>4
  <2> QED
    BY <2>1, <2>2 DEF Control
<1> QED
  BY <1>1, <1>2 DEF LoanInv

LEMMA LoanInvKept ==
  ASSUME LoanInv, [Next]_vars
  PROVE  LoanInv'
<1>1. CASE Next
  <2>1. PICK p \in Procs : Kept(p)
    BY <1>1, StepKept
  <2> QED
    BY <2>1, EffectKeepsTables DEF Kept, LoanInv
<1>2. CASE UNCHANGED vars
  BY <1>2 DEF vars, data, LoanInv, Tables, TableTypes, Made, DeletedHasNoPending, Control,
     ControlTypes, Serves, Holds
<1> QED
  BY <1>1, <1>2

\* The inductive invariant of loans.
THEOREM LoansInvariant == Spec => []LoanInv
BY LoanInvInit, LoanInvKept, PTL DEF Spec

\* Money that is owed or paid is never negative, every variable keeps its type, and a
\* request under way is one that its client may ask.
THEOREM LoansTypeCorrect == Spec => []TypeOK
<1>1. LoanInv => TypeOK
  BY TypesFollow
<1> QED
  BY <1>1, LoansInvariant, PTL

\* deleteLoan deactivates the installments, and none of the adjustments that are under way
\* when a loan is deleted brings one back.
THEOREM LoansDeletedHasNoPending == Spec => []DeletedHasNoPending
<1>1. LoanInv => DeletedHasNoPending
  BY DEF LoanInv, Tables
<1> QED
  BY <1>1, LoansInvariant, PTL

\* Account, loan, installment: locks are taken in this order by every request, so however
\* many wait for one another, one of them can go on.
LEMMA SomeoneGoesOn == LoanInv => NoDeadlock
<1> SUFFICES ASSUME LoanInv, NEW S \in SUBSET Procs, S # {}
             PROVE  \E p \in S : \A x \in Wants(p) : lock[x] \notin S \ {p}
  BY DEF NoDeadlock
<1>1. ASSUME NEW p \in Procs
      PROVE  /\ Serves(p) /\ Holds(p)
             /\ req[p] \in RequestsOf[p] \/ pc[p] \notin Begun
  BY DEF LoanInv, Control, Serves
<1>2. /\ LoanRow \notin Accounts /\ LoanRow \notin Numbers /\ Accounts \cap Numbers = {}
      /\ \A n : PendingFrom(rows, n) \subseteq Numbers
  BY Given DEF PendingFrom, ActiveRows
\* Whoever holds an installment has everything it needs.
<1>3. ASSUME NEW p \in S, NEW n \in Numbers, lock[n] = p
      PROVE  Wants(p) = {}
  <2>1. pc[p] = "ready" /\ req[p].op = "pay"
    BY <1>1, <1>3 DEF Holds
  <2> QED
    BY <2>1 DEF Wants, At, Adjustments, Extras, Schedules
\* Whoever holds the loan wants installments only.
<1>4. ASSUME NEW p \in S, lock[LoanRow] = p
      PROVE  Wants(p) \subseteq Numbers
  <2>1. pc[p] \in {"loan", "ready"} /\ req[p].op \in LoanHolders /\ (pc[p] = "loan" => req[p].op = "pay")
        /\ req[p].op # "delete"
    BY <1>1, <1>4 DEF Holds, Serves, LoanHolders, Adjustments, Extras, Schedules
  <2>2. req[p].n \in Numbers
    <3>1. req[p] \in RequestsOf[p]
      BY <1>1, <2>1 DEF Begun
    <3> QED
      BY <3>1, RequestIs
  <2> QED
    BY <1>2, <2>1, <2>2 DEF Wants, At
\* Whoever holds an account wants nothing of an account.
<1>5. ASSUME NEW p \in S, NEW a \in Accounts, lock[a] = p
      PROVE  Wants(p) \subseteq Numbers \cup {LoanRow}
  <2>1. CASE lock[LoanRow] = p
    BY <1>4, <2>1
  <2>2. CASE lock[LoanRow] # p
    <3>1. pc[p] = "account"
      BY <1>1, <1>5, <2>2 DEF Holds
    <3> QED
      BY <3>1 DEF Wants, At
  <2> QED
    BY <2>1, <2>2
<1>6. ASSUME NEW p \in S, NEW x \in Wants(p)
      PROVE  x \in Accounts \cup Numbers \cup {LoanRow}
  <2>1. req[p] \in RequestsOf[p] => req[p].n \in Numbers /\ req[p].acct \in Accounts \cup {NoAccount}
    BY RequestIs
  <2>2. req[p] \in RequestsOf[p] \/ Wants(p) = {}
    BY <1>1 DEF Wants, At, Begun
  <2> QED
    BY <1>2, <2>1, <2>2 DEF Wants
<1>7. CASE \E p \in S, n \in Numbers : lock[n] = p
  BY <1>3, <1>7
<1>8. CASE ~(\E p \in S, n \in Numbers : lock[n] = p) /\ lock[LoanRow] \in S
  BY <1>4, <1>8
<1>9. CASE ~(\E p \in S, n \in Numbers : lock[n] = p) /\ lock[LoanRow] \notin S
           /\ \E p \in S, a \in Accounts : lock[a] = p
  BY <1>5, <1>9
<1>10. CASE /\ ~(\E p \in S, n \in Numbers : lock[n] = p) /\ lock[LoanRow] \notin S
            /\ ~(\E p \in S, a \in Accounts : lock[a] = p)
  BY <1>6, <1>10
<1> QED
  BY <1>7, <1>8, <1>9, <1>10

\* No set of requests waits for one another.
THEOREM LoansNoDeadlock == Spec => []NoDeadlock
BY SomeoneGoesOn, LoansInvariant, PTL

-----------------------------------------------------------------------------
(* What a step may never do.                                               *)

LEMMA OwedIs ==
  /\ Owed = LedgerBalance(loan.principal, ExtraOf(made), rows)
  /\ Owed' = LedgerBalance(loan'.principal, ExtraOf(made'), rows')
  /\ Scheduled(rows)' = Scheduled(rows')
BY ExtraIs DEF Owed, LedgerBalance, PaidPrincipal, Active, Scheduled, UnpaidPrincipal, ActiveRows

LEMMA NoneLent ==
  ASSUME NEW m, \A q \in Procs : m[q] = NoRow, NEW op
  PROVE  LentBy(m, op) = 0
<1> DEFINE f == [q \in Procs |-> IF m[q] # NoRow /\ m[q].op = op THEN m[q].amt ELSE 0]
<1>1. f \in [Procs -> Int] /\ \A q \in Procs : f[q] = 0
  OBVIOUS
<1>2. LentBy(m, op) = SumFunction(f)
  BY DEF LentBy
<1> HIDE DEF f
<1> QED
  BY <1>1, <1>2, Given, SumZero

LEMMA NonePaid ==
  ASSUME NEW rs, \A n \in Numbers : Untouched(rs[n])
  PROVE  PaidPrincipal(rs) = 0
<1> DEFINE f == [n \in Numbers |-> IF Active(rs, n) THEN rs[n].paidPrincipal ELSE 0]
<1>1. f \in [Numbers -> Int] /\ \A n \in Numbers : f[n] = 0
  BY DEF Active, Untouched
<1>2. PaidPrincipal(rs) = SumFunction(f)
  BY DEF PaidPrincipal
<1> HIDE DEF f
<1> QED
  BY <1>1, <1>2, Given, SumZero

\* How what is owed changes.
LEMMA OwedChanges ==
  ASSUME LoanInv, NEW p \in Procs, Effect(p)
  PROVE  /\ UNCHANGED data => Owed' = Owed
         /\ Created(p) => Owed' = loan'.principal
         /\ PaidOff(p) /\ loan.balance = Owed => Owed' = loan'.balance
         /\ Adjusted(p) => Owed' = LedgerBalance(loan.principal, ExtraOf(made'), rows)
         /\ Adjusted(p) /\ req[p].op \notin Extras => Owed' = Owed
         /\ Deleted(p) \/ Marked(p) => Owed' = Owed
<1>1. /\ rows \in Table /\ Tidy(rows) /\ made \in Log /\ loan \in Loan \cup {NoRow}
      /\ loan = NoRow => \A q \in Procs : made[q] = NoRow
  BY DEF LoanInv, Tables, TableTypes
<1>2. ASSUME UNCHANGED data PROVE Owed' = Owed
  <2>1. loan' = loan /\ made' = made /\ rows' = rows
    BY <1>2 DEF data
  <2> QED
    BY <2>1, OwedIs
<1>3. ASSUME Created(p) PROVE Owed' = loan'.principal
  <2>1. /\ loan' \in Loan /\ rows' \in Table /\ \A n \in Numbers : Untouched(rows'[n])
        /\ made' = [made EXCEPT ![p] = NoRow] /\ made[p] = NoRow /\ loan = NoRow
    BY <1>3 DEF Created, Logged
  <2>2. made' \in Log /\ \A q \in Procs : made'[q] = NoRow
    BY <1>1, <2>1 DEF Log
  <2>3. LentBy(made', "disburse") = 0 /\ LentBy(made', "extra") = 0
    BY <2>2, NoneLent
  <2>4. PaidPrincipal(rows') = 0
    BY <2>1, NonePaid
  <2>5. loan'.principal \in Nat \ {0}
    BY <2>1 DEF Loan
  <2> QED
    BY <2>3, <2>4, <2>5, OwedIs DEF LedgerBalance, Max0, ExtraOf
<1>4. ASSUME PaidOff(p), loan.balance = Owed PROVE Owed' = loan'.balance
  <2>1. PICK n \in Numbers, principal \in Nat, interest \in Nat, row \in Installment, x \in Payment :
          Pays(p, n, principal, interest, row, x)
    BY <1>4 DEF PaidOff
  <2>2. /\ SameLoan /\ Active(rows, n) /\ row.active
        /\ row.paidPrincipal = rows[n].paidPrincipal + principal
        /\ rows' = [rows EXCEPT ![n] = row]
        /\ loan'.balance = Max0(loan.balance - principal)
        /\ made[p] = NoRow /\ made' = [made EXCEPT ![p] = x]
    BY <2>1 DEF Pays, Logged
  <2>3. rows[n].paidPrincipal \in Nat
    BY <1>1, <2>2 DEF Active, Table, Installment
  <2>4. PaidPrincipal(rows') = PaidPrincipal(rows) + principal
    <3>1. PaidPrincipal(rows) \in Nat
      BY <1>1, PaidTypes
    <3>2. PaidPrincipal(rows') = PaidPrincipal(rows) + (row.paidPrincipal - rows[n].paidPrincipal)
      BY <1>1, <2>2, PaidMore
    <3> QED
      BY <2>2, <2>3, <3>1, <3>2
  <2>5. ExtraOf(made') = ExtraOf(made) /\ ExtraOf(made) \in Int
    <3>1. x.op \notin Extras
      BY DEF Payment, Extras
    <3> QED
      BY <1>1, <2>2, <3>1, ExtraChanges, ExtraTypes
  <2>6. PaidPrincipal(rows) \in Nat /\ loan.principal \in Nat
    BY <1>1, <2>2, PaidTypes DEF SameLoan, Loan
  <2>7. loan.principal = loan'.principal
    BY <2>2 DEF SameLoan
  <2> QED
    BY <1>4, <2>2, <2>4, <2>5, <2>6, <2>7, OwedIs DEF LedgerBalance, Max0
<1>5. ASSUME Adjusted(p)
      PROVE  /\ Owed' = LedgerBalance(loan.principal, ExtraOf(made'), rows)
             /\ req[p].op \notin Extras => Owed' = Owed
  <2>1. PICK x \in Adjustment :
          /\ req[p].op = x.op
          /\ Rearranged(rows, rows') /\ loan'.principal = loan.principal
          /\ made[p] = NoRow /\ made' = [made EXCEPT ![p] = x]
    BY <1>5 DEF Adjusted, Adjusts, Logged
  <2>2. PaidPrincipal(rows') = PaidPrincipal(rows)
    BY <1>1, <2>1, PaidStays
  <2>3. x.op \notin Extras => ExtraOf(made') = ExtraOf(made)
    BY <1>1, <2>1, ExtraChanges
  <2> QED
    BY <2>1, <2>2, <2>3, OwedIs DEF LedgerBalance
<1>6. ASSUME Deleted(p) \/ Marked(p) PROVE Owed' = Owed
  <2>1. Rearranged(rows, rows') /\ made' = made /\ loan'.principal = loan.principal
    BY <1>1, <1>6 DEF Deleted, Marked, SameLoan, Rearranged
  <2>2. PaidPrincipal(rows') = PaidPrincipal(rows)
    BY <1>1, <2>1, PaidStays
  <2> QED
    BY <2>1, <2>2, OwedIs DEF LedgerBalance
<1> QED
  BY <1>2, <1>3, <1>4, <1>5, <1>6

LEMMA SomeEffect ==
  ASSUME LoanInv, Next
  PROVE  \E p \in Procs : Effect(p)
BY StepKept DEF Kept

LEMMA HistoryStep ==
  ASSUME LoanInv, NEW p \in Procs, Effect(p), NEW n \in ActiveRows(rows), rows[n].status # "PENDING"
  PROVE  /\ Active(rows', n) /\ rows'[n].status # "PENDING"
         /\ rows'[n].paidPrincipal >= rows[n].paidPrincipal
         /\ rows'[n].paidInterest >= rows[n].paidInterest
         /\ rows'[n].principal = rows[n].principal
<1>1. n \in Numbers /\ rows[n] \in Installment /\ rows[n] # NoRow /\ rows[n].active /\ rows \in Table
  BY DEF ActiveRows, Active, LoanInv, Tables, TableTypes, Table
<1>2. rows[n].paidPrincipal \in Nat /\ rows[n].paidInterest \in Nat /\ ~Untouched(rows[n])
  BY <1>1 DEF Installment, Untouched
<1>3. CASE rows'[n] = rows[n]
  BY <1>1, <1>2, <1>3 DEF Active
<1>4. CASE PaidOff(p)
  <2>1. PICK k \in Numbers, principal \in Nat, interest \in Nat, row \in Installment, x \in Payment :
          Pays(p, k, principal, interest, row, x)
    BY <1>4 DEF PaidOff
  <2>2. /\ row.active /\ row.status # "PENDING" /\ row.principal = rows[k].principal
        /\ row.paidPrincipal = rows[k].paidPrincipal + principal
        /\ row.paidInterest = rows[k].paidInterest + interest
        /\ rows' = [rows EXCEPT ![k] = row]
    BY <2>1 DEF Pays
  <2>3. CASE k = n
    <3>1. rows'[n] = row /\ row # NoRow
      BY <1>1, <2>2, <2>3, Given DEF Table
    <3> QED
      BY <1>2, <2>2, <2>3, <3>1 DEF Active
  <2>4. CASE k # n
    BY <1>1, <1>3, <2>2, <2>4 DEF Table
  <2> QED
    BY <2>3, <2>4
<1>5. CASE Quiet(p) \/ Marked(p) \/ Reconciled(p)
  BY <1>3, <1>5 DEF Quiet, data, Marked, Reconciled
<1>6. CASE Adjusted(p) \/ Deleted(p)
  BY <1>1, <1>2, <1>3, <1>6 DEF Adjusted, Adjusts, Deleted, Rearranged
<1>7. CASE Created(p)
  BY <1>1, <1>7 DEF Created, LoanInv, Tables
<1> QED
  BY <1>4, <1>5, <1>6, <1>7 DEF Effect

\* registerLoanPayment writes what was paid on the installment; regenerateFutureSchedule
\* and deleteLoan touch only rows without a payment.
THEOREM LoansHistoryKept == Spec => HistoryKept
<1>1. ASSUME LoanInv, [Next]_vars
      PROVE  [\A n \in ActiveRows(rows) : rows[n].status # "PENDING" =>
                /\ Active(rows', n) /\ rows'[n].status # "PENDING"
                /\ rows'[n].paidPrincipal >= rows[n].paidPrincipal
                /\ rows'[n].paidInterest >= rows[n].paidInterest
                /\ rows'[n].principal = rows[n].principal]_vars
  BY <1>1, SomeEffect, HistoryStep
<1> QED
  BY <1>1, LoansInvariant, PTL DEF Spec, HistoryKept

\* Only the request that takes the step ends, if any does.
LEMMA EndsAlone ==
  ASSUME NEW p \in Procs, Effect(p), NEW q \in Procs, pc[q] \in Begun, pc'[q] = "done"
  PROVE  q = p
<1>1. pc[q] # "done"
  BY DEF Begun
<1> QED
  BY <1>1 DEF Effect, Only

LEMMA CacheStep ==
  ASSUME LoanInv, NEW p \in Procs, Effect(p), loan # NoRow, loan.balance = Owed
  PROVE  loan'.balance = Owed' \/ \E q \in Procs : pc[q] = "differs" /\ pc'[q] = "done"
<1>1. CASE Reconciled(p) /\ pc'[p] = "done"
  BY <1>1 DEF Reconciled
<1>2. CASE Quiet(p) \/ Deleted(p) \/ Marked(p)
  BY <1>2, OwedChanges DEF Quiet, data, Deleted, Marked
<1>3. CASE PaidOff(p) \/ Adjusted(p)
  <2>1. Adjusted(p) =>
          IF req[p].op \in Extras THEN loan'.balance = LedgerBalance(loan.principal, ExtraOf(made'), rows)
          ELSE loan'.balance = loan.balance
    BY DEF Adjusted, Adjusts
  <2> QED
    BY <1>3, <2>1, OwedChanges
<1> QED
  BY <1>1, <1>2, <1>3 DEF Effect, Created

\* recalculateLoanBalance and the updates of balanceCents in registerLoanPayment and
\* addLoanAdjustment keep a cache exact that was exact.
THEOREM LoansCacheFollows == Spec => CacheFollows
<1>1. ASSUME LoanInv, [Next]_vars
      PROVE  [loan # NoRow /\ loan.balance = Owed => loan'.balance = Owed'
                \/ \E p \in Procs : pc[p] = "differs" /\ pc'[p] = "done"]_vars
  BY <1>1, SomeEffect, CacheStep
<1> QED
  BY <1>1, LoansInvariant, PTL DEF Spec, CacheFollows

LEMMA CompletesStep ==
  ASSUME LoanInv, NEW p \in Procs, Effect(p), pc[p] \in Begun, pc'[p] = "done",
         req[p].op \notin {"update", "reconcile"}, loan # NoRow, loan.balance = Owed,
         loan.status # "COMPLETED", loan'.status = "COMPLETED"
  PROVE  Owed' = 0 /\ AllSettled(rows')
<1>1. CASE PaidOff(p)
  <2>1. loan'.balance = 0 /\ AllSettled(rows')
    BY <1>1 DEF PaidOff, Pays
  <2> QED
    BY <1>1, <2>1, OwedChanges
<1>2. CASE Adjusted(p)
  <2>1. loan'.balance = 0 /\ AllSettled(rows') /\ req[p].op \in Extras
        /\ loan'.balance = LedgerBalance(loan.principal, ExtraOf(made'), rows)
    BY <1>2 DEF Adjusted, Adjusts
  <2> QED
    BY <1>2, <2>1, OwedChanges
<1> QED
  BY <1>1, <1>2 DEF Effect, Quiet, data, Created, Deleted, Marked, Reconciled

\* maybeCompleteLoan and regenerateScheduleAfterExtraPayment close a loan only when
\* nothing is owed and no installment asks for anything.
THEOREM LoansCompleteWhenSettled == Spec => CompletesOnlyWhenSettled
<1>1. ASSUME LoanInv, [Next]_vars
      PROVE  [\A p \in Procs :
                /\ pc[p] \in Begun /\ pc'[p] = "done" /\ req[p].op \notin {"update", "reconcile"}
                /\ loan # NoRow /\ loan.balance = Owed
                /\ loan.status # "COMPLETED" /\ loan'.status = "COMPLETED"
                => Owed' = 0 /\ AllSettled(rows')]_vars
  BY <1>1, SomeEffect, EndsAlone, CompletesStep
<1> QED
  BY <1>1, LoansInvariant, PTL DEF Spec, CompletesOnlyWhenSettled

LEMMA RebuildStep ==
  ASSUME LoanInv, NEW p \in Procs, Effect(p), pc[p] \in Begun, pc'[p] = "done",
         req[p].op \in {"create"} \cup Extras \cup Schedules,
         \E n \in PendingFrom(rows', 1) : n <= loan'.term
  PROVE  Scheduled(rows') = Owed'
<1>1. CASE Created(p)
  BY <1>1, OwedChanges DEF Created
<1>2. CASE Adjusted(p)
  <2>1. PICK x \in Adjustment : req[p].op = x.op /\ Adjusts(x, loan', rows', made')
    BY <1>2 DEF Adjusted
  <2>2. x.op # "create"
    BY DEF Adjustment, Adjustments, Extras, Schedules
  <2>3. Scheduled(rows') = LedgerBalance(loan.principal, ExtraOf(made'), rows)
    BY <2>1, <2>2 DEF Adjusts
  <2> QED
    BY <1>2, <2>3, OwedChanges
<1>3. req[p].op \notin {"pay", "delete", "update", "reconcile"}
  BY DEF Extras, Schedules
<1> QED
  BY <1>1, <1>2, <1>3 DEF Effect, Quiet, PaidOff, Pays, Deleted, Marked, Reconciled

\* The invariant regenerateFutureSchedule states of itself: the pending rows it makes ask,
\* with what the rows before them still ask for, for what is owed; createLoan as well.
THEOREM LoansRebuildCarriesDebt == Spec => RebuildCarriesDebt
<1>1. ASSUME LoanInv, [Next]_vars
      PROVE  [\A p \in Procs :
                /\ pc[p] \in Begun /\ pc'[p] = "done"
                /\ req[p].op \in {"create"} \cup Extras \cup Schedules
                /\ \E n \in PendingFrom(rows', 1) : n <= loan'.term
                => Scheduled(rows') = Owed']_vars
  BY <1>1, SomeEffect, EndsAlone, RebuildStep
<1> QED
  BY <1>1, LoansInvariant, PTL DEF Spec, RebuildCarriesDebt

-----------------------------------------------------------------------------
(* A loan is a debt.                                                       *)

Kind(x) == IF x.op = "pay" THEN "payment" ELSE "adjustment"
UsedBy(m) == {<<Kind(m[p]), m[p].key>> : p \in {q \in Procs : m[q] # NoRow}}

\* What the debt is told, and what becomes of it.
LEMMA Told ==
  /\ DebtState' = IF loan' = NoRow THEN "none" ELSE IF loan'.alive THEN "open" ELSE "closed"
  /\ DebtLent = (IF loan = NoRow THEN 0 ELSE loan.principal) + LentBy(made, "disburse")
  /\ DebtLent' = (IF loan' = NoRow THEN 0 ELSE loan'.principal) + LentBy(made', "disburse")
  /\ DebtRepaid = PaidPrincipal(rows) + LentBy(made, "extra")
  /\ DebtRepaid' = PaidPrincipal(rows') + LentBy(made', "extra")
  /\ DebtUsed = UsedBy(made) /\ DebtUsed' = UsedBy(made')
BY ExtraIs DEF DebtState, DebtLent, DebtRepaid, DebtUsed, UsedBy, Kind, Made, PaidPrincipal, Active

LEMMA UsedGrows ==
  ASSUME NEW m \in Log, NEW p \in Procs, m[p] = NoRow, NEW x, x # NoRow
  PROVE  UsedBy([m EXCEPT ![p] = x]) = UsedBy(m) \cup {<<Kind(x), x.key>>}
<1> DEFINE k == [m EXCEPT ![p] = x]
<1>1. k[p] = x /\ \A q \in Procs : q # p => k[q] = m[q]
  BY DEF Log
<1> HIDE DEF k
<1>2. UsedBy(k) = UsedBy(m) \cup {<<Kind(x), x.key>>}
  BY <1>1 DEF UsedBy
<1> QED
  BY <1>2 DEF k

\* Nothing that a debt knows of changes.
Unnoticed == UNCHANGED <<DebtState, DebtLent, DebtRepaid, DebtUsed>>

\* What is repaid and lent, in numbers.
LEMMA TotalsAre ==
  ASSUME LoanInv
  PROVE  /\ LentBy(made, "disburse") \in Nat /\ LentBy(made, "extra") \in Nat
         /\ PaidPrincipal(rows) \in Nat
         /\ loan # NoRow => /\ loan.principal \in Nat /\ loan \in Loan
                            /\ Owed = Max0(DebtLent - DebtRepaid)
<1>1. rows \in Table /\ made \in Log /\ loan \in Loan \cup {NoRow}
  BY DEF LoanInv, Tables, TableTypes
<1>2. LentBy(made, "disburse") \in Nat /\ LentBy(made, "extra") \in Nat /\ PaidPrincipal(rows) \in Nat
  BY <1>1, LentTypes, PaidTypes DEF Adjustments, Extras
<1>3. loan # NoRow => loan.principal \in Nat /\ loan \in Loan
  BY <1>1 DEF Loan
<1>4. ASSUME loan # NoRow PROVE Owed = Max0(DebtLent - DebtRepaid)
  <2>1. DebtLent - DebtRepaid = loan.principal + ExtraOf(made) - PaidPrincipal(rows)
    BY <1>2, <1>3, <1>4, Told DEF ExtraOf
  <2> QED
    BY <2>1, OwedIs DEF LedgerBalance
<1> QED
  BY <1>2, <1>3, <1>4

LEMMA DebtCreated ==
  ASSUME LoanInv, Amounts = Nat, NEW p \in Procs, Created(p)
  PROVE  \E a \in Nat : /\ DebtState = "none" /\ DebtState' = "open" /\ DebtLent' = a
                        /\ DebtRepaid' = DebtRepaid /\ DebtUsed' = DebtUsed
<1>1. /\ loan = NoRow /\ loan' \in Loan /\ loan'.alive /\ made[p] = NoRow
      /\ \A n \in Numbers : Untouched(rows'[n])
      /\ made' = [made EXCEPT ![p] = NoRow]
      /\ \A q \in Procs : made[q] = NoRow
      /\ \A n \in Numbers : rows[n] = NoRow
      /\ made \in Log
  BY DEF Created, Logged, LoanInv, Tables, TableTypes
<1>2. loan' # NoRow /\ loan'.principal \in Nat /\ made' = made
  BY <1>1, Given DEF Loan, Log
<1>3. /\ LentBy(made, "disburse") = 0 /\ LentBy(made, "extra") = 0
      /\ PaidPrincipal(rows) = 0 /\ PaidPrincipal(rows') = 0
  BY <1>1, NoneLent, NonePaid DEF Untouched
<1>4. DebtState = "none" /\ DebtState' = "open"
  BY <1>1, <1>2, Told DEF DebtState
<1>5. DebtLent' = loan'.principal /\ DebtRepaid' = DebtRepaid
  BY <1>2, <1>3, Told DEF DebtRepaid
<1>6. DebtUsed' = DebtUsed
  BY <1>2, Told
<1> QED
  BY <1>2, <1>4, <1>5, <1>6

LEMMA DebtRepays ==
  ASSUME LoanInv, NEW p \in Procs, PaidOff(p)
  PROVE  \E a \in Nat, k \in Keys :
           /\ DebtState = "open" /\ <<"payment", k>> \notin DebtUsed
           /\ DebtUsed' = DebtUsed \cup {<<"payment", k>>}
           /\ DebtRepaid' = DebtRepaid + a
           /\ DebtState' = DebtState /\ DebtLent' = DebtLent
<1>1. PICK n \in Numbers, principal \in Nat, interest \in Nat, row \in Installment, x \in Payment :
        Pays(p, n, principal, interest, row, x)
  BY DEF PaidOff
<1>2. /\ SameLoan /\ loan.alive /\ Active(rows, n) /\ row.active
      /\ row.paidPrincipal = rows[n].paidPrincipal + principal
      /\ rows' = [rows EXCEPT ![n] = row]
      /\ made[p] = NoRow /\ made' = [made EXCEPT ![p] = x] /\ ~KeyTaken(x.key)
  BY <1>1 DEF Pays, Logged
<1>3. /\ rows \in Table /\ made \in Log
      /\ \A q \in Procs : Made(q) /\ made[q].op = "pay" =>
           entries[q] # NoRow /\ entries[q].key = made[q].key
  BY DEF LoanInv, Tables, TableTypes
<1>4. x # NoRow /\ x.op = "pay" /\ x.key \in Keys /\ x.op \notin Extras
  BY Given DEF Payment, Extras
<1>5. /\ LentBy(made', "disburse") = LentBy(made, "disburse")
      /\ LentBy(made', "extra") = LentBy(made, "extra")
  <2>1. x \in Payment \cup Adjustment \cup {NoRow}
    OBVIOUS
  <2> QED
    BY <1>2, <1>3, <1>4, <2>1, ExtraChanges
<1>6. PaidPrincipal(rows') = PaidPrincipal(rows) + principal
  <2>1. PaidPrincipal(rows') = PaidPrincipal(rows) + (row.paidPrincipal - rows[n].paidPrincipal)
    BY <1>2, <1>3, PaidMore
  <2>2. rows[n].paidPrincipal \in Nat
    BY <1>2, <1>3 DEF Active, Table, Installment
  <2>3. PaidPrincipal(rows) \in Nat
    BY <1>3, PaidTypes
  <2> QED
    BY <1>2, <2>1, <2>2, <2>3
<1>7. loan # NoRow /\ loan' # NoRow /\ loan'.alive = loan.alive /\ loan'.principal = loan.principal
  BY <1>2, Given DEF SameLoan
<1>8. DebtState = "open" /\ DebtState' = DebtState
  BY <1>2, <1>7, Told DEF DebtState
<1>9. DebtLent' = DebtLent
  BY <1>5, <1>7, Told DEF DebtLent
<1>10. DebtRepaid' = DebtRepaid + principal
  BY <1>5, <1>6, Told, TotalsAre DEF DebtRepaid
<1>11. DebtUsed' = DebtUsed \cup {<<"payment", x.key>>}
  BY <1>2, <1>3, <1>4, UsedGrows, Told DEF Kind
<1>12. <<"payment", x.key>> \notin DebtUsed
  <2> SUFFICES ASSUME NEW q \in Procs, made[q] # NoRow, Kind(made[q]) = "payment",
                      made[q].key = x.key
               PROVE  FALSE
    BY Told DEF UsedBy
  <2>1. made[q].op = "pay"
    BY DEF Kind
  <2> QED
    BY <1>2, <1>3, <2>1 DEF Made, KeyTaken
<1> QED
  BY <1>4, <1>8, <1>9, <1>10, <1>11, <1>12

LEMMA DebtAdjusted ==
  ASSUME LoanInv, NEW p \in Procs, Adjusted(p)
  PROVE  \E a \in Nat, k \in Keys :
           /\ DebtState # "none" /\ <<"adjustment", k>> \notin DebtUsed
           /\ DebtUsed' = DebtUsed \cup {<<"adjustment", k>>}
           /\ DebtState' = DebtState
           /\ \/ DebtLent' = DebtLent + a /\ DebtRepaid' = DebtRepaid
              \/ /\ a <= DebtLent - DebtRepaid
                 /\ DebtRepaid' = DebtRepaid + a /\ DebtLent' = DebtLent
              \/ DebtLent' = DebtLent /\ DebtRepaid' = DebtRepaid
<1>1. PICK x \in Adjustment :
        /\ loan \in Loan /\ loan' \in Loan
        /\ loan'.alive = loan.alive /\ loan'.principal = loan.principal
        /\ Rearranged(rows, rows')
        /\ made[p] = NoRow /\ made' = [made EXCEPT ![p] = x] /\ ~MadeWith(Adjustments, x.key)
        /\ x.op = "extra" => x.amt > 0 /\ x.amt <= Owed
  BY DEF Adjusted, Adjusts, Logged
<1>2. rows \in Table /\ made \in Log /\ Tidy(rows)
  BY DEF LoanInv, Tables, TableTypes
<1>3. x # NoRow /\ x.op \in Adjustments /\ x.op # "pay" /\ x.key \in Keys /\ x.amt \in Nat
  BY Given DEF Adjustment, Adjustments, Extras, Schedules
<1>4. PaidPrincipal(rows') = PaidPrincipal(rows)
  BY <1>1, <1>2, PaidStays
<1>5. loan # NoRow /\ loan' # NoRow
  BY <1>1, Given
<1>6. DebtState # "none" /\ DebtState' = DebtState
  BY <1>1, <1>5, Told DEF DebtState
<1>7. DebtUsed' = DebtUsed \cup {<<"adjustment", x.key>>}
  BY <1>1, <1>2, <1>3, UsedGrows, Told DEF Kind
<1>8. <<"adjustment", x.key>> \notin DebtUsed
  <2> SUFFICES ASSUME NEW q \in Procs, made[q] # NoRow, Kind(made[q]) = "adjustment",
                      made[q].key = x.key
               PROVE  FALSE
    BY Told DEF UsedBy
  <2>1. made[q].op \in Adjustments
    BY <1>2 DEF Log, Kind, Payment, Adjustment
  <2> QED
    BY <1>1, <2>1 DEF Made, MadeWith
<1>9. /\ DebtLent = loan.principal + LentBy(made, "disburse")
      /\ DebtLent' = loan.principal + LentBy(made', "disburse")
      /\ DebtRepaid = PaidPrincipal(rows) + LentBy(made, "extra")
      /\ DebtRepaid' = PaidPrincipal(rows) + LentBy(made', "extra")
  BY <1>1, <1>4, <1>5, Told DEF DebtLent, DebtRepaid
<1>10. /\ x.op \notin Extras => /\ LentBy(made', "disburse") = LentBy(made, "disburse")
                                /\ LentBy(made', "extra") = LentBy(made, "extra")
       /\ x.op = "disburse" => /\ LentBy(made', "disburse") = LentBy(made, "disburse") + x.amt
                               /\ LentBy(made', "extra") = LentBy(made, "extra")
       /\ x.op = "extra" => /\ LentBy(made', "disburse") = LentBy(made, "disburse")
                            /\ LentBy(made', "extra") = LentBy(made, "extra") + x.amt
  BY <1>1, <1>2, <1>3, ExtraChanges
<1>11. /\ LentBy(made, "disburse") \in Nat /\ LentBy(made, "extra") \in Nat
       /\ PaidPrincipal(rows) \in Nat /\ loan.principal \in Nat
       /\ Owed = Max0(DebtLent - DebtRepaid)
  BY <1>5, TotalsAre
<1>12. \/ DebtLent' = DebtLent + x.amt /\ DebtRepaid' = DebtRepaid
       \/ /\ x.amt <= DebtLent - DebtRepaid
          /\ DebtRepaid' = DebtRepaid + x.amt /\ DebtLent' = DebtLent
       \/ DebtLent' = DebtLent /\ DebtRepaid' = DebtRepaid
  <2>1. CASE x.op \notin Extras
    BY <1>9, <1>10, <2>1
  <2>2. CASE x.op = "disburse"
    BY <1>3, <1>9, <1>10, <1>11, <2>2
  <2>3. CASE x.op = "extra"
    <3>1. x.amt <= DebtLent - DebtRepaid
      BY <1>1, <1>3, <1>9, <1>11, <2>3 DEF Max0
    <3> QED
      BY <1>3, <1>9, <1>10, <1>11, <2>3, <3>1
  <2> QED
    BY <2>1, <2>2, <2>3 DEF Extras
<1> QED
  BY <1>3, <1>6, <1>7, <1>8, <1>12

LEMMA DebtUnnoticed ==
  ASSUME LoanInv, NEW p \in Procs, Quiet(p) \/ Marked(p) \/ Reconciled(p)
  PROVE  Unnoticed
<1>1. rows' = rows /\ made' = made
  BY DEF Quiet, data, Marked, Reconciled
<1>2. loan' = loan \/ (loan # NoRow /\ loan' # NoRow /\ loan'.alive = loan.alive
                        /\ loan'.principal = loan.principal)
  BY Given DEF Quiet, data, Marked, Reconciled, SameLoan
<1> QED
  BY <1>1, <1>2, Told DEF Unnoticed, DebtState, DebtLent, DebtRepaid

LEMMA DebtClosed ==
  ASSUME LoanInv, NEW p \in Procs, Deleted(p)
  PROVE  /\ DebtState = "open" /\ DebtState' = "closed"
         /\ DebtLent' = DebtLent /\ DebtRepaid' = DebtRepaid /\ DebtUsed' = DebtUsed
<1>1. /\ loan \in Loan /\ loan.alive /\ loan' \in Loan /\ ~loan'.alive
      /\ loan'.principal = loan.principal /\ Rearranged(rows, rows') /\ made' = made
  BY DEF Deleted
<1>2. rows \in Table /\ Tidy(rows) /\ loan # NoRow /\ loan' # NoRow
  BY <1>1, Given DEF LoanInv, Tables, TableTypes
<1>3. PaidPrincipal(rows') = PaidPrincipal(rows)
  BY <1>1, <1>2, PaidStays
<1> QED
  BY <1>1, <1>2, <1>3, Told DEF DebtState, DebtLent, DebtRepaid

\* Every step is an operation of the debt, or none.
LEMMA DebtStep ==
  ASSUME LoanInv, Amounts = Nat, [Next]_vars
  PROVE  Abstract!Next \/ Unnoticed
<1>1. CASE UNCHANGED vars
  BY <1>1, Told DEF vars, data, Unnoticed, DebtState
<1>2. ASSUME NEW p \in Procs, Effect(p)
      PROVE  Abstract!Next \/ Unnoticed
  <2>1. CASE Quiet(p) \/ Marked(p) \/ Reconciled(p)
    BY <2>1, DebtUnnoticed
  <2>2. CASE Created(p)
    <3>1. PICK a \in Nat : /\ DebtState = "none" /\ DebtState' = "open" /\ DebtLent' = a
                           /\ DebtRepaid' = DebtRepaid /\ DebtUsed' = DebtUsed
      BY <2>2, DebtCreated
    <3>2. Abstract!Open(a)
      BY <3>1 DEF Abstract!Open
    <3> QED
      BY <3>2 DEF Abstract!Next
  <2>3. CASE PaidOff(p)
    <3>1. PICK a \in Nat, k \in Keys :
            /\ DebtState = "open" /\ <<"payment", k>> \notin DebtUsed
            /\ DebtUsed' = DebtUsed \cup {<<"payment", k>>}
            /\ DebtRepaid' = DebtRepaid + a
            /\ DebtState' = DebtState /\ DebtLent' = DebtLent
      BY <2>3, DebtRepays
    <3>2. Abstract!Repay(a, k)
      BY <3>1 DEF Abstract!Repay, Abstract!Once
    <3> QED
      BY <3>2 DEF Abstract!Next
  <2>4. CASE Adjusted(p)
    <3>1. PICK a \in Nat, k \in Keys :
            /\ DebtState # "none" /\ <<"adjustment", k>> \notin DebtUsed
            /\ DebtUsed' = DebtUsed \cup {<<"adjustment", k>>}
            /\ DebtState' = DebtState
            /\ \/ DebtLent' = DebtLent + a /\ DebtRepaid' = DebtRepaid
               \/ /\ a <= DebtLent - DebtRepaid
                  /\ DebtRepaid' = DebtRepaid + a /\ DebtLent' = DebtLent
               \/ DebtLent' = DebtLent /\ DebtRepaid' = DebtRepaid
      BY <2>4, DebtAdjusted
    <3>2. Abstract!Once("adjustment", k)
      BY <3>1 DEF Abstract!Once
    <3>3. Abstract!LendMore(a, k) \/ Abstract!Prepay(a, k) \/ Abstract!Rearrange(k)
      BY <3>1, <3>2 DEF Abstract!LendMore, Abstract!Prepay, Abstract!Rearrange
    <3> QED
      BY <3>3 DEF Abstract!Next
  <2>5. CASE Deleted(p)
    <3>1. Abstract!Close
      BY <2>5, DebtClosed DEF Abstract!Close
    <3> QED
      BY <3>1 DEF Abstract!Next
  <2> QED
    BY <1>2, <2>1, <2>2, <2>3, <2>4, <2>5 DEF Effect
<1> QED
  BY <1>1, <1>2, SomeEffect

LEMMA DebtInit == Init => Abstract!Init
<1> SUFFICES ASSUME Init PROVE Abstract!Init
  OBVIOUS
<1>1. loan = NoRow /\ (\A n \in Numbers : rows[n] = NoRow) /\ (\A q \in Procs : made[q] = NoRow)
  BY DEF Init
<1>2. /\ LentBy(made, "disburse") = 0 /\ LentBy(made, "extra") = 0 /\ PaidPrincipal(rows) = 0
      /\ UsedBy(made) = {}
  BY <1>1, NoneLent, NonePaid DEF Untouched, UsedBy
<1> QED
  BY <1>1, <1>2, Told DEF Abstract!Init, DebtState

\* A loan, with its schedule, its cache and the locks of its requests, is a debt: every
\* step lends, repays or rearranges once for its key, or is not noticed at all, whatever
\* overlaps; nothing is repaid ahead of time beyond what is owed.
THEOREM LoansAreADebt ==
  ASSUME Amounts = Nat
  PROVE  Spec => ImplementsDebt
<1>1. Init => LoanInv /\ Abstract!Init
  BY LoanInvInit, DebtInit
<1>2. LoanInv /\ [Next]_vars => LoanInv'
  BY LoanInvKept
<1>3. LoanInv /\ [Next]_vars =>
        [Abstract!Next]_<<DebtState, DebtLent, DebtRepaid, DebtUsed>>
  BY DebtStep DEF Unnoticed
<1> QED
  BY <1>1, <1>2, <1>3, PTL DEF Spec, ImplementsDebt, Abstract!Spec
=============================================================================
