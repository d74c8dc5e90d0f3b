--------------------------- MODULE ProjectionProofs ---------------------------
(***************************************************************************)
(* Theorems about the projection and the schedules, for every calendar and *)
(* every set of templates, bills and installments: the window a page looks *)
(* through does not decide what is due; a day that passes takes nothing    *)
(* away from what is owed; bills, installments and deposits that are paid  *)
(* do not change how a period ends.                                        *)
(***************************************************************************)
EXTENDS Projection, SumsProofs, SequenceTheorems

-----------------------------------------------------------------------------
(* The calendar.                                                           *)

LEMMA LengthsTypes ==
  /\ Len(Lengths) \in Nat /\ Len(Lengths) >= 1 /\ Months = 1 .. Len(Lengths)
  /\ \A m \in Months : Lengths[m] \in Int /\ 1 <= Lengths[m] /\ Lengths[m] <= 31
<1> DEFINE T == 1 .. 31
<1>1. Lengths \in Seq(T) /\ Lengths # <<>>
  BY SchedulesAssumption
<1>2. \A k \in T : k \in Int /\ 1 <= k /\ k <= 31
  OBVIOUS
<1> HIDE DEF T
<1>3. Len(Lengths) \in Nat /\ DOMAIN Lengths = 1 .. Len(Lengths) /\ Len(Lengths) # 0
  BY <1>1, LenProperties, EmptySeq
<1>4. \A m \in 1 .. Len(Lengths) : Lengths[m] \in T
  BY <1>1, ElementOfSeq
<1> QED
  BY <1>2, <1>3, <1>4 DEF Months

LEMMA MonthsBefore ==
  ASSUME NEW m \in Months
  PROVE  /\ m \in Nat /\ m >= 1
         /\ \A k \in 1 .. m : k \in Months
<1>1. Len(Lengths) \in Nat /\ Months = 1 .. Len(Lengths)
  BY LengthsTypes
<1> QED
  BY <1>1

LEMMA FirstOfTypes == \A m \in Months : FirstOf[m] \in Int
<1> SUFFICES ASSUME NEW m \in Months PROVE FirstOf[m] \in Int
  OBVIOUS
<1> DEFINE S == 1 .. m - 1
           f == [k \in S |-> Lengths[k]]
<1>1. m \in Nat /\ IsFiniteSet(S)
  BY MonthsBefore, FS_Interval
<1>2. f \in [S -> Int]
  <2>1. \A k \in S : k \in 1 .. m
    BY <1>1
  <2>2. \A k \in S : Lengths[k] \in Int
    BY <2>1, MonthsBefore, LengthsTypes
  <2> QED
    BY <2>2
<1>3. FirstOf[m] = 1 + SumFunction(f)
  BY DEF FirstOf
<1> HIDE DEF S, f
<1> QED
  BY <1>1, <1>2, <1>3, SumInt

\* The first month begins on day 1, every other one after the month before.
LEMMA FirstFirst == FirstOf[1] = 1
<1> DEFINE S == 1 .. 0
           f == [k \in S |-> Lengths[k]]
<1>1. S = {} /\ IsFiniteSet(S)
  BY FS_EmptySet
<1>2. f \in [S -> Int]
  BY <1>1
<1>3. FirstOf[1] = 1 + SumFunction(f)
  BY LengthsTypes DEF FirstOf
<1> HIDE DEF S, f
<1>4. SumFunction(f) = 0
  BY <1>1, <1>2, SumZero
<1> QED
  BY <1>3, <1>4

LEMMA NextFirst ==
  ASSUME NEW m \in Months, m + 1 \in Months
  PROVE  FirstOf[m + 1] = LastOf(m) + 1
<1> DEFINE S == 1 .. m - 1
           T == 1 .. m
           f == [k \in S |-> Lengths[k]]
           g == [k \in T |-> Lengths[k]]
<1>0. m \in Nat /\ m >= 1
  BY MonthsBefore
<1>1. IsFiniteSet(T) /\ IsFiniteSet(S) /\ m \in T /\ T \ {m} = S
  <2>1. IsFiniteSet(T) /\ IsFiniteSet(S)
    BY <1>0, FS_Interval
  <2>2. m \in T /\ T \ {m} = S
    BY <1>0
  <2> QED
    BY <2>1, <2>2
<1>2. /\ \A k \in T : g[k] = Lengths[k] /\ g[k] \in Int /\ g[k] >= 1
      /\ \A k \in S : f[k] = g[k] /\ g[k] \in Int
      /\ DOMAIN f = S /\ DOMAIN g = T
  <2>1. \A k \in T : Lengths[k] \in Int /\ Lengths[k] >= 1
    BY MonthsBefore, LengthsTypes
  <2>2. \A k \in S : k \in T
    BY <1>0
  <2> QED
    BY <2>1, <2>2
<1>3. FirstOf[m] = 1 + SumFunction(f) /\ FirstOf[m + 1] = 1 + SumFunction(g)
  BY <1>0 DEF FirstOf
<1> HIDE DEF S, T, f, g
<1>4. SumOn(g, T) = g[m] + SumOn(g, S)
  BY <1>1, <1>2, SumWithout
<1>5. SumOn(f, S) = SumOn(g, S)
  BY <1>1, <1>2, SumSame
<1>6. SumFunction(f) = SumOn(f, S) /\ SumFunction(g) = SumOn(g, T)
  BY <1>2, SumFunctionIs
<1>7. SumOn(g, S) \in Int
  BY <1>1, <1>2, SumIsInt
<1> QED
  BY <1>1, <1>2, <1>3, <1>4, <1>5, <1>6, <1>7 DEF LastOf

LEMMA MonthTypes ==
  ASSUME NEW m \in Months
  PROVE  /\ FirstOf[m] \in Int /\ LastOf(m) \in Int /\ Lengths[m] >= 1 /\ Lengths[m] \in Int /\ m \in Nat /\ m >= 1
         /\ LastOf(m) = FirstOf[m] + Lengths[m] - 1 /\ FirstOf[m] <= LastOf(m)
<1>1. Lengths[m] >= 1 /\ Lengths[m] \in Int /\ m \in Nat /\ m >= 1 /\ FirstOf[m] \in Int
  BY LengthsTypes, FirstOfTypes, MonthsBefore
<1> QED
  BY <1>1 DEF LastOf

\* A later month begins after an earlier one has ended.
LEMMA MonthsInOrder ==
  ASSUME NEW m \in Months, NEW n \in Months, m < n
  PROVE  LastOf(m) < FirstOf[n]
<1> DEFINE Bad == {k \in Nat : k \in Months /\ m < k /\ ~(LastOf(m) < FirstOf[k])}
<1> SUFFICES ASSUME n \in Bad PROVE FALSE
  BY MonthTypes
<1>1. PICK k \in Bad : \A j \in Bad : k <= j
  <2>1. Bad \in SUBSET Nat /\ Bad # {}
    OBVIOUS
  <2> HIDE DEF Bad
  <2> QED
    BY <2>1, LeastNumber
<1>2. k \in Months /\ k - 1 \in Months /\ m <= k - 1 /\ m \in Nat /\ k \in Nat
  BY LengthsTypes
<1>3. FirstOf[k] = LastOf(k - 1) + 1
  BY <1>2, NextFirst
<1>4. CASE m = k - 1
  BY <1>2, <1>3, <1>4, MonthTypes
<1>5. CASE m < k - 1
  <2>1. LastOf(m) < FirstOf[k - 1]
    BY <1>1, <1>2, <1>5
  <2>2. FirstOf[k - 1] <= LastOf(k - 1) /\ LastOf(k - 1) \in Int /\ FirstOf[k - 1] \in Int
    BY <1>2, MonthTypes
  <2> QED
    BY <1>2, <1>3, <2>1, <2>2, MonthTypes
<1> QED
  BY <1>2, <1>4, <1>5

\* Every day lies in one month, and MonthOf finds it.
LEMMA DayIsInMonth ==
  ASSUME NEW d \in Days
  PROVE  MonthOf(d) \in Months /\ FirstOf[MonthOf(d)] <= d /\ d <= LastOf(MonthOf(d)) /\ d \in Int
<1> DEFINE late == {m \in Nat : m \in Months /\ d <= LastOf(m)}
<1>1. Len(Lengths) \in late
  BY LengthsTypes DEF Days
<1>2. PICK m \in late : \A n \in late : m <= n
  <2>1. late \in SUBSET Nat /\ late # {}
    BY <1>1
  <2> HIDE DEF late
  <2> QED
    BY <2>1, LeastNumber
<1>3. d \in Int /\ d >= 1
  BY LengthsTypes, MonthTypes DEF Days
<1>4. m \in Months /\ FirstOf[m] <= d /\ d <= LastOf(m)
  <2>1. CASE m = 1
    BY <1>3, <2>1, FirstFirst
  <2>2. CASE m # 1
    <3>1. m - 1 \in Months /\ m - 1 \in Nat /\ m - 1 \notin late
      BY <1>2, <2>2, LengthsTypes
    <3>2. LastOf(m - 1) < d
      BY <1>3, <3>1, MonthTypes
    <3>3. FirstOf[m] = LastOf(m - 1) + 1
      BY <3>1, NextFirst
    <3> QED
      BY <1>3, <3>1, <3>2, <3>3, MonthTypes
  <2> QED
    BY <2>1, <2>2
<1> QED
  BY <1>3, <1>4 DEF MonthOf

LEMMA MonthIsThatOfDay ==
  ASSUME NEW d \in Days, NEW m \in Months, FirstOf[m] <= d, d <= LastOf(m)
  PROVE  MonthOf(d) = m
<1> DEFINE n == MonthOf(d)
<1>1. n \in Months /\ FirstOf[n] <= d /\ d <= LastOf(n) /\ d \in Int
  BY DayIsInMonth
<1> HIDE DEF n
<1>2. ~(m < n) /\ ~(n < m)
  BY <1>1, MonthsInOrder, MonthTypes
<1> QED
  BY <1>1, <1>2, LengthsTypes DEF n

LEMMA MonthsOfDays ==
  ASSUME NEW d \in Days, NEW e \in Days, d <= e
  PROVE  MonthOf(d) <= MonthOf(e)
<1> DEFINE m == MonthOf(d)
           n == MonthOf(e)
<1>1. m \in Months /\ FirstOf[m] <= d /\ n \in Months /\ e <= LastOf(n) /\ d \in Int /\ e \in Int
  BY DayIsInMonth
<1> HIDE DEF m, n
<1>2. ~(n < m)
  BY <1>1, MonthsInOrder, MonthTypes
<1> QED
  BY <1>1, <1>2, LengthsTypes DEF m, n

LEMMA LastsInOrder ==
  ASSUME NEW m \in Months, NEW n \in Months, m <= n
  PROVE  LastOf(m) <= LastOf(n)
BY MonthsInOrder, MonthTypes
-----------------------------------------------------------------------------
(* Sums of money.                                                          *)

\* What each element of an amount is worth.
Worths(f) == [x \in DOMAIN f |-> Converted(f[x], x.cur)]

LEMMA ConvertedTypes ==
  ASSUME NEW n \in Int, NEW c \in Currencies
  PROVE  Converted(n, c) \in Int /\ (n >= 0 => Converted(n, c) >= 0)
<1>1. Rate[c] \in Nat
  BY ProjectionAssumption
<1> QED
  BY <1>1 DEF Converted

LEMMA ConvertedLess ==
  ASSUME NEW a \in Int, NEW b \in Int, NEW c \in Currencies
  PROVE  /\ Converted(b, c) - Converted(a, c) = Converted(b - a, c)
         /\ Converted(-a, c) = -Converted(a, c)
<1>1. Rate[c] \in Nat
  BY ProjectionAssumption
<1> QED
  BY <1>1 DEF Converted

LEMMA WorthTypes ==
  ASSUME NEW S, IsFiniteSet(S), NEW f \in [S -> Int], \A x \in S : x.cur \in Currencies
  PROVE  /\ Worths(f) \in [S -> Int] /\ Worth(f) = SumFunction(Worths(f)) /\ Worth(f) \in Int
<1>1. Worths(f) \in [S -> Int]
  BY ConvertedTypes DEF Worths
<1>2. Worth(f) = SumFunction(Worths(f))
  BY DEF Worth, Worths
<1> QED
  BY <1>1, <1>2, SumInt

\* What is zero can be left out.
LEMMA WorthExtends ==
  ASSUME NEW S, IsFiniteSet(S), NEW f \in [S -> Int], \A x \in S : x.cur \in Currencies,
         NEW T \in SUBSET S, NEW g, DOMAIN g = T, \A x \in T : g[x] = f[x],
         \A x \in S \ T : f[x] = 0
  PROVE  Worth(g) = Worth(f)
<1> DEFINE F == Worths(f)
           G == Worths(g)
<1>1. /\ F \in [S -> Int] /\ DOMAIN F = S /\ DOMAIN G = T /\ \A x \in T : G[x] = F[x]
      /\ \A x \in S : F[x] \in Int
  <2>1. F \in [S -> Int]
    BY WorthTypes
  <2>2. DOMAIN F = S /\ DOMAIN G = T /\ \A x \in T : G[x] = F[x]
    BY DEF Worths
  <2> QED
    BY <2>1, <2>2
<1>2. \A x \in S \ T : F[x] = 0
  <2> SUFFICES ASSUME NEW x \in S \ T PROVE F[x] = 0
    OBVIOUS
  <2>1. F[x] = Converted(0, x.cur) /\ Rate[x.cur] \in Nat
    BY ProjectionAssumption DEF Worths
  <2> QED
    BY <2>1 DEF Converted
<1>3. Worth(f) = SumFunction(F) /\ Worth(g) = SumFunction(G)
  BY DEF Worth, Worths
<1> HIDE DEF F, G
<1>4. SumFunction(F) = SumOn(F, S) /\ SumFunction(G) = SumOn(G, T)
  BY <1>1, SumFunctionIs
<1>5. SumOn(F, S) = SumOn(F, T)
  BY <1>1, <1>2, SumSupport
<1>6. SumOn(G, T) = SumOn(F, T)
  <2>1. IsFiniteSet(T)
    BY FS_Subset
  <2>2. \A x \in T : F[x] \in Int /\ G[x] = F[x]
    BY <1>1
  <2> QED
    BY <2>1, <2>2, SumSame
<1> QED
  BY <1>3, <1>4, <1>5, <1>6

\* A sum of money moves with the one amount that changes.
LEMMA WorthChangesAt ==
  ASSUME NEW S, IsFiniteSet(S), NEW f \in [S -> Int], NEW g \in [S -> Int],
         \A x \in S : x.cur \in Currencies,
         NEW x \in S, \A y \in S : y # x => g[y] = f[y]
  PROVE  Worth(g) = Worth(f) + Converted(g[x] - f[x], x.cur)
<1> DEFINE F == Worths(f)
           G == Worths(g)
<1>1. /\ F \in [S -> Int] /\ G \in [S -> Int]
      /\ Worth(f) = SumFunction(F) /\ Worth(g) = SumFunction(G)
  BY WorthTypes
<1>2. /\ \A y \in S : y # x => G[y] = F[y]
      /\ F[x] = Converted(f[x], x.cur) /\ G[x] = Converted(g[x], x.cur)
  BY DEF Worths
<1> HIDE DEF F, G
<1>3. SumFunction(G) = SumFunction(F) + (G[x] - F[x])
  BY <1>1, <1>2, SumChangesAt
<1>4. G[x] - F[x] = Converted(g[x] - f[x], x.cur)
  BY <1>2, ConvertedLess
<1> QED
  BY <1>1, <1>3, <1>4

\* More is worth more.
LEMMA WorthAtMost ==
  ASSUME NEW S, IsFiniteSet(S), NEW f \in [S -> Int], NEW g \in [S -> Int],
         \A x \in S : x.cur \in Currencies, \A x \in S : f[x] <= g[x]
  PROVE  Worth(f) <= Worth(g)
<1> DEFINE F == Worths(f)
           G == Worths(g)
<1>1. /\ F \in [S -> Int] /\ G \in [S -> Int]
      /\ Worth(f) = SumFunction(F) /\ Worth(g) = SumFunction(G)
  BY WorthTypes
<1>2. \A x \in S : F[x] <= G[x]
  <2> SUFFICES ASSUME NEW x \in S PROVE F[x] <= G[x]
    OBVIOUS
  <2>1. g[x] - f[x] \in Int /\ g[x] - f[x] >= 0 /\ g[x] \in Int /\ f[x] \in Int
    OBVIOUS
  <2>2. Converted(g[x] - f[x], x.cur) >= 0
    BY <2>1, ConvertedTypes
  <2>3. Converted(g[x], x.cur) - Converted(f[x], x.cur) >= 0
    BY <2>1, <2>2, ConvertedLess
  <2>4. F[x] = Converted(f[x], x.cur) /\ G[x] = Converted(g[x], x.cur)
    BY DEF Worths
  <2>5. F[x] \in Int /\ G[x] \in Int
    BY <1>1
  <2> HIDE DEF F, G
  <2> QED
    BY <2>3, <2>4, <2>5
<1> HIDE DEF F, G
<1>3. SumFunction(F) = SumOn(F, S) /\ SumFunction(G) = SumOn(G, S)
  BY <1>1, SumFunctionIs
<1>4. \A x \in S : F[x] \in Int /\ G[x] \in Int /\ F[x] <= G[x]
  BY <1>1, <1>2
<1>5. SumOn(F, S) <= SumOn(G, S)
  BY <1>4, SumAtMost
<1> QED
  BY <1>1, <1>3, <1>5

-----------------------------------------------------------------------------
(* What is owed and what is to be collected, over all rows.                *)

Typed ==
  /\ today \in Days
  /\ cash \in [Currencies -> Int]
  /\ invested \in Int
  /\ settled \subseteq Bills
  /\ paid \in [Dues -> Nat]
  /\ \A i \in Dues : paid[i] <= i.principal + i.interest

\* Each bill, as far as it is part of the plan of the period.
Owed(per) ==
  [b \in Bills |-> IF b \notin settled /\ b.due <= PeriodEnd(per) THEN b.amt ELSE 0]

\* Each installment, as far as it is.
InPlan(per, direction, i) ==
  /\ i.direction = direction /\ i.due <= PeriodEnd(per)
  /\ direction = "RECEIVABLE" => i.due >= today

Remains(per, direction) ==
  [i \in Dues |-> IF InPlan(per, direction, i) THEN RemainingOf(i) ELSE 0]

LEMMA RowTypes ==
  /\ IsFiniteSet(Bills) /\ IsFiniteSet(Dues) /\ IsFiniteSet(Currencies) /\ IsFiniteSet(Bonuses)
  /\ \A b \in Bills : b.amt \in Nat /\ b.cur \in Currencies /\ b.due \in Int
  /\ \A i \in Dues : /\ i.principal \in Nat /\ i.interest \in Nat /\ i.cur \in Currencies
                     /\ i.due \in Int /\ i.direction \in Directions
<1>1. \A d \in Days : d \in Int
  BY DayIsInMonth
<1> QED
  BY <1>1, ProjectionAssumption DEF Due

LEMMA FixedIs ==
  ASSUME Typed, NEW per
  PROVE  Owed(per) \in [Bills -> Nat] /\ Fixed(per) = Worth(Owed(per)) /\ Fixed(per) \in Int
<1>1. Owed(per) \in [Bills -> Nat] /\ Owed(per) \in [Bills -> Int]
  BY RowTypes DEF Owed
<1> DEFINE T == PendingBills(per)
           g == [b \in T |-> b.amt]
<1>2. T \in SUBSET Bills /\ DOMAIN g = T
  BY DEF PendingBills
<1>3. \A b \in T : g[b] = Owed(per)[b]
  BY DEF PendingBills, Owed
<1>4. \A b \in Bills \ T : Owed(per)[b] = 0
  BY DEF PendingBills, Owed
<1>5. Fixed(per) = Worth(g)
  BY DEF Fixed
<1> HIDE DEF T, g
<1>6. Worth(g) = Worth(Owed(per))
  <2>1. IsFiniteSet(Bills) /\ \A b \in Bills : b.cur \in Currencies
    BY RowTypes
  <2> QED
    BY <1>1, <1>2, <1>3, <1>4, <2>1, WorthExtends
<1> QED
  BY <1>1, <1>5, <1>6, RowTypes, WorthTypes

LEMMA InstallmentsAre ==
  ASSUME Typed, NEW per, NEW direction \in Directions
  PROVE  LET g == [i \in OpenInstallments(per, direction) |-> RemainingOf(i)] IN
         /\ Remains(per, direction) \in [Dues -> Nat]
         /\ Worth(g) = Worth(Remains(per, direction)) /\ Worth(g) \in Int
<1> DEFINE T == OpenInstallments(per, direction)
           g == [i \in T |-> RemainingOf(i)]
           f == Remains(per, direction)
<1>1. \A i \in Dues : RemainingOf(i) \in Nat
  BY RowTypes DEF Typed, RemainingOf
<1>2. f \in [Dues -> Nat] /\ f \in [Dues -> Int]
  BY <1>1 DEF Remains
<1>3. T \in SUBSET Dues /\ DOMAIN g = T
  BY DEF OpenInstallments
<1>4. \A i \in T : g[i] = f[i]
  BY DEF OpenInstallments, Remains, InPlan
<1>5. \A i \in Dues \ T : f[i] = 0
  <2> SUFFICES ASSUME NEW i \in Dues \ T, InPlan(per, direction, i) PROVE RemainingOf(i) = 0
    BY DEF Remains
  <2>1. ~(paid[i] < i.principal + i.interest)
    BY DEF OpenInstallments, InPlan
  <2> QED
    BY <2>1, <1>1, RowTypes DEF Typed, RemainingOf
<1> HIDE DEF T, g, f
<1>6. Worth(g) = Worth(f)
  <2>1. IsFiniteSet(Dues) /\ \A i \in Dues : i.cur \in Currencies
    BY RowTypes
  <2> QED
    BY <1>2, <1>3, <1>4, <1>5, <2>1, WorthExtends
<1>7. Worth(f) \in Int
  BY <1>2, RowTypes, WorthTypes
<1> QED
  BY <1>2, <1>6, <1>7 DEF f, g, T

LEMMA LoanPaymentsAre ==
  ASSUME Typed, NEW per
  PROVE  LoanPayments(per) = Worth(Remains(per, "PAYABLE")) /\ LoanPayments(per) \in Int
BY InstallmentsAre DEF LoanPayments, Directions
-----------------------------------------------------------------------------
(* The ends of the periods.                                                *)

LEMMA MinOfTwo ==
  ASSUME NEW a \in Int, NEW b \in Int
  PROVE  Min({a, b}) = IF a <= b THEN a ELSE b
<1> DEFINE m == IF a <= b THEN a ELSE b
<1>1. m \in {a, b} /\ \A y \in {a, b} : m <= y
  OBVIOUS
<1>2. \A x \in {a, b} : (\A y \in {a, b} : x <= y) => x = m
  OBVIOUS
<1> HIDE DEF m
<1>3. Min({a, b}) = m
  BY <1>1, <1>2 DEF Min
<1> QED
  BY <1>3 DEF m

\* The last month of the year of a month.
YearEnd(m) == Min({Len(Lengths), 12 * (((m - 1) \div 12) + 1)})

LEMMA YearEndTypes ==
  ASSUME NEW m \in Months
  PROVE  YearEnd(m) \in Months /\ m <= YearEnd(m) /\ m \in Int /\ YearEnd(m) \in Int
<1>1. m \in Int /\ m >= 1 /\ m <= Len(Lengths) /\ Len(Lengths) \in Int /\ Months = 1 .. Len(Lengths)
  BY LengthsTypes
<1>2. 12 * (((m - 1) \div 12) + 1) \in Int /\ 12 * (((m - 1) \div 12) + 1) >= m
  BY <1>1
<1> QED
  BY <1>1, <1>2, MinOfTwo DEF YearEnd

LEMMA YearEndsInOrder ==
  ASSUME NEW m \in Months, NEW n \in Months, m <= n
  PROVE  YearEnd(m) <= YearEnd(n)
<1>1. m \in Int /\ n \in Int /\ m >= 1 /\ Len(Lengths) \in Int
  BY LengthsTypes
<1>2. (m - 1) \div 12 <= (n - 1) \div 12
  BY <1>1
<1> DEFINE a == 12 * (((m - 1) \div 12) + 1)
           b == 12 * (((n - 1) \div 12) + 1)
<1>3. a \in Int /\ b \in Int /\ a <= b
  BY <1>1, <1>2
<1>4. YearEnd(m) = Min({Len(Lengths), a}) /\ YearEnd(n) = Min({Len(Lengths), b})
  BY DEF YearEnd
<1> HIDE DEF a, b
<1>5. YearEnd(m) = IF Len(Lengths) <= a THEN Len(Lengths) ELSE a
  BY <1>1, <1>3, <1>4, MinOfTwo
<1>6. YearEnd(n) = IF Len(Lengths) <= b THEN Len(Lengths) ELSE b
  BY <1>1, <1>3, <1>4, MinOfTwo
<1> QED
  BY <1>1, <1>3, <1>5, <1>6

LEMMA PeriodEndIs ==
  ASSUME today \in Days, NEW per
  PROVE  LET m == MonthOf(today) IN
         /\ m \in Months /\ LastMonth = YearEnd(m) /\ LastMonth \in Months
         /\ PeriodEnd(per) = LastOf(IF per = "month" THEN m ELSE YearEnd(m))
         /\ PeriodEnd(per) \in Int /\ today <= PeriodEnd(per) /\ today \in Int
<1> DEFINE m == MonthOf(today)
<1>1. m \in Months /\ today <= LastOf(m) /\ today \in Int
  BY DayIsInMonth
<1>2. LastMonth = YearEnd(m) /\ PeriodEnd(per) = LastOf(IF per = "month" THEN m ELSE YearEnd(m))
  BY DEF LastMonth, YearEnd, PeriodEnd
<1> HIDE DEF m
<1>3. YearEnd(m) \in Months /\ m <= YearEnd(m)
  BY <1>1, YearEndTypes
<1>4. LastOf(m) <= LastOf(YearEnd(m)) /\ LastOf(m) \in Int /\ LastOf(YearEnd(m)) \in Int
  BY <1>1, <1>3, LastsInOrder, MonthTypes
<1> QED
  BY <1>1, <1>2, <1>3, <1>4 DEF m

LEMMA PeriodsGrow ==
  ASSUME today \in Days, today' \in Days, today <= today', NEW per
  PROVE  PeriodEnd(per) <= PeriodEnd(per)' /\ PeriodEnd(per) \in Int /\ PeriodEnd(per)' \in Int
<1> DEFINE m == MonthOf(today)
           n == MonthOf(today')
<1>1. m \in Months /\ n \in Months /\ m <= n
  BY DayIsInMonth, MonthsOfDays
<1>2. /\ PeriodEnd(per) = LastOf(IF per = "month" THEN m ELSE YearEnd(m))
      /\ PeriodEnd(per)' = LastOf(IF per = "month" THEN n ELSE YearEnd(n))
  BY DEF LastMonth, YearEnd, PeriodEnd
<1> HIDE DEF m, n
<1>3. YearEnd(m) \in Months /\ YearEnd(n) \in Months /\ YearEnd(m) <= YearEnd(n)
  BY <1>1, YearEndTypes, YearEndsInOrder
<1>4. LastOf(m) <= LastOf(n) /\ LastOf(YearEnd(m)) <= LastOf(YearEnd(n))
  BY <1>1, <1>3, LastsInOrder
<1>5. /\ LastOf(m) \in Int /\ LastOf(n) \in Int
      /\ LastOf(YearEnd(m)) \in Int /\ LastOf(YearEnd(n)) \in Int
  BY <1>1, <1>3, MonthTypes
<1> QED
  BY <1>2, <1>4, <1>5

-----------------------------------------------------------------------------
(* Types.                                                                  *)

LEMMA GainTypes ==
  ASSUME cash \in [Currencies -> Int], NEW amt \in Int, NEW cur \in Currencies, Gain(amt, cur)
  PROVE  /\ cash' \in [Currencies -> Int] /\ cash'[cur] = cash[cur] + amt
         /\ \A c \in Currencies : c # cur => cash'[c] = cash[c]
BY DEF Gain

LEMMA TypedAtFirst == Init => Typed
<1> SUFFICES ASSUME Init PROVE Typed
  OBVIOUS
<1>1. cash \in [Currencies -> Int]
  BY ProjectionAssumption DEF Init
<1>2. \A i \in Dues : 0 <= i.principal + i.interest
  BY RowTypes
<1> QED
  BY <1>1, <1>2, ProjectionAssumption DEF Init, Typed

LEMMA DaysBetween ==
  ASSUME NEW d \in Days, NEW e \in Days, NEW n \in Int, d <= n, n <= e
  PROVE  n \in Days
<1>1. LastOf(Len(Lengths)) \in Int
  BY LengthsTypes, MonthTypes
<1> QED
  BY <1>1 DEF Days

LEMMA StaysTyped == Typed /\ [Next]_vars => Typed'
<1> SUFFICES ASSUME Typed, [Next]_vars PROVE Typed'
  OBVIOUS
<1>1. CASE NextDay
  <2>1. today \in Days /\ LastDay \in Days /\ today < LastDay /\ today' = today + 1
    BY <1>1, ProjectionAssumption DEF NextDay, Typed
  <2>2. today \in Int /\ LastDay \in Int
    BY <2>1, DayIsInMonth
  <2>3. today' \in Days
    BY <2>1, <2>2, DaysBetween
  <2> QED
    BY <1>1, <2>3 DEF NextDay, Typed
<1>2. ASSUME NEW d \in Int, ReceiveSalary(d) PROVE Typed'
  <2>1. cash' \in [Currencies -> Int]
    BY <1>2, ProjectionAssumption, GainTypes DEF ReceiveSalary, Typed
  <2> QED
    BY <1>2, <2>1 DEF ReceiveSalary, Typed
<1>3. ASSUME NEW b \in Bills, PayBill(b) PROVE Typed'
  <2>1. cash' \in [Currencies -> Int]
    <3>1. -b.amt \in Int /\ b.cur \in Currencies
      BY RowTypes
    <3> QED
      BY <1>3, <3>1, GainTypes DEF PayBill, Typed
  <2> QED
    BY <1>3, <2>1 DEF PayBill, Typed
<1>4. ASSUME NEW i \in Dues, NEW amt \in 1 .. i.principal + i.interest, PayInstallment(i, amt)
      PROVE  Typed'
  <2>1. amt \in Int /\ amt > 0 /\ i.cur \in Currencies
    BY RowTypes
  <2>2. cash' \in [Currencies -> Int]
    <3>1. (IF i.direction = "PAYABLE" THEN -amt ELSE amt) \in Int
      BY <2>1
    <3> QED
      BY <1>4, <2>1, <3>1, GainTypes DEF PayInstallment, Typed
  <2>3. paid' \in [Dues -> Nat] /\ \A j \in Dues : paid'[j] <= j.principal + j.interest
    BY <1>4, <2>1 DEF PayInstallment, Typed
  <2> QED
    BY <1>4, <2>2, <2>3 DEF PayInstallment, Typed
<1>5. ASSUME NEW amt \in 1 .. MaxInvested, Invest(amt) PROVE Typed'
  <2>1. amt \in Int /\ Home \in Currencies
    BY ProjectionAssumption
  <2>2. cash' \in [Currencies -> Int]
    BY <1>5, <2>1, GainTypes DEF Invest, Typed
  <2> QED
    BY <1>5, <2>1, <2>2 DEF Invest, Typed
<1>6. CASE UNCHANGED vars
  BY <1>6 DEF vars, Typed
<1>7. ASSUME NEW d \in today .. today + Early, ReceiveSalary(d) PROVE Typed'
  BY <1>2, <1>7
<1> QED
  BY <1>1, <1>3, <1>4, <1>5, <1>6, <1>7 DEF Next

-----------------------------------------------------------------------------
(* A day passes.                                                           *)

\* The sums of the plan, as sums over all rows, ...
PlanIsSummed ==
  \A per \in Periods :
    /\ Fixed(per) = Worth(Owed(per)) /\ Fixed(per) \in Int
    /\ LoanPayments(per) = Worth(Remains(per, "PAYABLE")) /\ LoanPayments(per) \in Int
    /\ Owed(per) \in [Bills -> Int] /\ Remains(per, "PAYABLE") \in [Dues -> Int]
    /\ Remains(per, "RECEIVABLE") \in [Dues -> Int]

LEMMA PlanSums == Typed => PlanIsSummed
<1> SUFFICES ASSUME Typed, NEW per \in Periods
             PROVE  /\ Fixed(per) = Worth(Owed(per)) /\ Fixed(per) \in Int
                    /\ LoanPayments(per) = Worth(Remains(per, "PAYABLE"))
                    /\ LoanPayments(per) \in Int
                    /\ Owed(per) \in [Bills -> Int] /\ Remains(per, "PAYABLE") \in [Dues -> Int]
                    /\ Remains(per, "RECEIVABLE") \in [Dues -> Int]
  BY DEF PlanIsSummed
<1>1. /\ Owed(per) \in [Bills -> Nat] /\ Remains(per, "PAYABLE") \in [Dues -> Nat]
      /\ Remains(per, "RECEIVABLE") \in [Dues -> Nat]
  BY FixedIs, InstallmentsAre DEF Directions
<1> QED
  BY <1>1, FixedIs, LoanPaymentsAre

\* ... before and after a step.
LEMMA NextPlanSums == Typed' => PlanIsSummed'
BY PlanSums, PTL

LEMMA OwedGrows ==
  ASSUME Typed, Typed', NextDay, NEW per \in Periods
  PROVE  Fixed(per)' + LoanPayments(per)' >= Fixed(per) + LoanPayments(per)
<1>1. today' = today + 1 /\ settled' = settled /\ paid' = paid
  BY DEF NextDay
<1>2. today \in Int /\ today' \in Int
  BY DayIsInMonth DEF Typed
<1>3. PeriodEnd(per) <= PeriodEnd(per)' /\ PeriodEnd(per) \in Int /\ PeriodEnd(per)' \in Int
  BY <1>1, <1>2, PeriodsGrow DEF Typed
<1>4. /\ Fixed(per) = Worth(Owed(per)) /\ Fixed(per) \in Int
      /\ LoanPayments(per) = Worth(Remains(per, "PAYABLE")) /\ LoanPayments(per) \in Int
      /\ Owed(per) \in [Bills -> Int] /\ Remains(per, "PAYABLE") \in [Dues -> Int]
  BY PlanSums DEF PlanIsSummed
<1>5. /\ Fixed(per)' = Worth(Owed(per)') /\ Fixed(per)' \in Int
      /\ LoanPayments(per)' = Worth(Remains(per, "PAYABLE")') /\ LoanPayments(per)' \in Int
      /\ Owed(per)' \in [Bills -> Int] /\ Remains(per, "PAYABLE")' \in [Dues -> Int]
  BY NextPlanSums DEF PlanIsSummed, Worth
<1>6. Worth(Owed(per)) <= Worth(Owed(per)')
  <2>1. \A b \in Bills : Owed(per)[b] <= Owed(per)'[b]
    <3> SUFFICES ASSUME NEW b \in Bills PROVE Owed(per)[b] <= Owed(per)'[b]
      OBVIOUS
    <3>1. b.amt \in Nat /\ b.due \in Int
      BY RowTypes
    <3> QED
      BY <1>1, <1>3, <3>1 DEF Owed
  <2>2. IsFiniteSet(Bills) /\ \A b \in Bills : b.cur \in Currencies
    BY RowTypes
  <2> QED
    BY <1>4, <1>5, <2>1, <2>2, WorthAtMost
<1>7. Worth(Remains(per, "PAYABLE")) <= Worth(Remains(per, "PAYABLE")')
  <2>1. \A i \in Dues : Remains(per, "PAYABLE")[i] <= Remains(per, "PAYABLE")'[i]
    <3> SUFFICES ASSUME NEW i \in Dues
                 PROVE  Remains(per, "PAYABLE")[i] <= Remains(per, "PAYABLE")'[i]
      OBVIOUS
    <3>1. i.due \in Int /\ RemainingOf(i) \in Nat
      BY RowTypes DEF Typed, RemainingOf
    <3> QED
      BY <1>1, <1>3, <3>1 DEF Remains, InPlan, RemainingOf
  <2>2. IsFiniteSet(Dues) /\ \A i \in Dues : i.cur \in Currencies
    BY RowTypes
  <2> QED
    BY <1>4, <1>5, <2>1, <2>2, WorthAtMost
<1> QED
  BY <1>4, <1>5, <1>6, <1>7
-----------------------------------------------------------------------------
(* What is planned is done.                                                *)

\* What is still to be collected, ...
Collects(per) == Worth([i \in OpenInstallments(per, "RECEIVABLE") |-> RemainingOf(i)])

\* ... and what no payment moves: the salaries and bonuses to come, what is saved and
\* what is spent from day to day.
Earnings(per) ==
  Converted(Salary.amt, Salary.cur) * Cardinality(PendingPayDates(per))
  + Worth([b \in Bonuses |-> b.amt * PendingBonus(b, per)])

LEMMA PayDatesWithin ==
  ASSUME NEW salary, NEW from \in Int, NEW to \in Int
  PROVE  PayDates(salary, from, to) \subseteq from .. to
BY DEF PayDates

LEMMA EarningsTypes ==
  ASSUME Typed, NEW per
  PROVE  Earnings(per) \in Int
<1>1. today \in Int /\ PeriodEnd(per) \in Int
  BY PeriodEndIs DEF Typed
<1> DEFINE D == today .. PeriodEnd(per)
<1>2. IsFiniteSet(D)
  BY <1>1, FS_Interval
<1>3. Cardinality(PendingPayDates(per)) \in Int
  <2>1. PendingPayDates(per) \subseteq D
    BY <1>1, PayDatesWithin DEF PendingPayDates
  <2> HIDE DEF D
  <2>2. IsFiniteSet(PendingPayDates(per))
    BY <1>2, <2>1, FS_Subset
  <2> QED
    BY <2>2, FS_CardinalityType
<1>4. \A b \in Bonuses : PendingBonus(b, per) \in Nat
  <2> SUFFICES ASSUME NEW b \in Bonuses PROVE PendingBonus(b, per) \in Nat
    OBVIOUS
  <2> DEFINE B == BonusDates(b, today, PeriodEnd(per))
  <2>1. B \subseteq D
    BY DEF BonusDates
  <2>2. PendingBonus(b, per) = Cardinality(B)
    BY DEF PendingBonus
  <2> HIDE DEF B, D
  <2>3. IsFiniteSet(B)
    BY <1>2, <2>1, FS_Subset
  <2> QED
    BY <2>2, <2>3, FS_CardinalityType
<1> DEFINE f == [b \in Bonuses |-> b.amt * PendingBonus(b, per)]
<1>5. f \in [Bonuses -> Int]
  <2>1. \A b \in Bonuses : b.amt \in Nat
    BY ProjectionAssumption
  <2>2. \A m, n \in Nat : m * n \in Int
    OBVIOUS
  <2> QED
    BY <1>4, <2>1, <2>2
<1> HIDE DEF f
<1>6. Worth(f) \in Int
  <2>1. IsFiniteSet(Bonuses) /\ \A b \in Bonuses : b.cur \in Currencies
    BY ProjectionAssumption
  <2> QED
    BY <1>5, <2>1, WorthTypes
<1>7. Converted(Salary.amt, Salary.cur) \in Int
  BY ProjectionAssumption, ConvertedTypes
<1>8. Earnings(per) = Converted(Salary.amt, Salary.cur) * Cardinality(PendingPayDates(per)) + Worth(f)
  BY DEF Earnings, f
<1> QED
  BY <1>3, <1>6, <1>7, <1>8

LEMMA TargetTypes ==
  ASSUME Typed, NEW per
  PROVE  SavingsTarget(per) \in Int /\ MonthsLeft(per) \in Int
<1>1. /\ MonthOf(today) \in Months /\ MonthOf(today) \in Int /\ LastMonth \in Int /\ today \in Int
      /\ FirstOf[MonthOf(today)] \in Int /\ Lengths[MonthOf(today)] \in Nat \ {0}
  BY PeriodEndIs, MonthTypes DEF Typed
<1>2. SavingsTarget(per) \in Int
  <2>1. Target \in Int
    BY ProjectionAssumption
  <2> QED
    BY <1>1, <2>1 DEF SavingsTarget
<1>3. MonthsLeft(per) \in Int
  <2> DEFINE m == MonthOf(today)
             a == (Lengths[m] - DayOfMonth(today) + 1) * Million
             r == RoundDiv(a, Lengths[m])
  <2>1. a \in Int
    BY <1>1 DEF DayOfMonth, Million
  <2>2. MonthsLeft(per) = r + (IF per = "year" THEN (LastMonth - m) * Million ELSE 0)
    BY DEF MonthsLeft
  <2> HIDE DEF a
  <2>3. r \in Int
    BY <1>1, <2>1, RoundDivInt
  <2> HIDE DEF r
  <2> QED
    BY <1>1, <2>2, <2>3 DEF Million
<1> QED
  BY <1>2, <1>3

LEMMA CashTypes == Typed => Cash \in Int
<1> SUFFICES ASSUME Typed PROVE Cash \in Int
  OBVIOUS
<1> DEFINE f == [c \in Currencies |-> Converted(cash[c], c)]
<1>1. f \in [Currencies -> Int]
  BY ConvertedTypes DEF Typed
<1>2. Cash = SumFunction(f)
  BY DEF Cash
<1> HIDE DEF f
<1> QED
  BY <1>1, <1>2, RowTypes, SumInt

LEMMA VariableTypes ==
  ASSUME Typed, NEW per
  PROVE  VariableBudget(per) \in Int
<1> DEFINE f == [c \in Currencies |-> Converted(RoundDiv(Estimate[c] * MonthsLeft(per), Million), c)]
<1>1. \A c \in Currencies : RoundDiv(Estimate[c] * MonthsLeft(per), Million) \in Int
  <2>1. MonthsLeft(per) \in Int /\ \A c \in Currencies : Estimate[c] \in Int
    BY TargetTypes, ProjectionAssumption
  <2>2. \A c \in Currencies : Estimate[c] * MonthsLeft(per) \in Int
    BY <2>1
  <2>3. Million \in Nat \ {0}
    BY DEF Million
  <2> QED
    BY <2>2, <2>3, RoundDivInt
<1>2. f \in [Currencies -> Int]
  BY <1>1, ConvertedTypes
<1>3. VariableBudget(per) = SumFunction(f)
  BY DEF VariableBudget
<1> HIDE DEF f
<1> QED
  BY <1>2, <1>3, RowTypes, SumInt

\* The end of a period, as a sum of what payments move and of what they do not.
Steady(per) == Earnings(per) - SavingsTarget(per) - VariableBudget(per)

EndIsSum ==
  /\ Cash \in Int /\ invested \in Int
  /\ \A per \in Periods :
       /\ Steady(per) \in Int
       /\ Collects(per) \in Int /\ Collects(per) = Worth(Remains(per, "RECEIVABLE"))
       /\ ProjectedEnd(per) = Steady(per) + Cash + invested + Collects(per)
                                - Fixed(per) - LoanPayments(per)

LEMMA EndSum == Typed => EndIsSum
<1> SUFFICES ASSUME Typed, NEW per \in Periods
             PROVE  /\ Cash \in Int /\ invested \in Int
                    /\ Steady(per) \in Int
                    /\ Collects(per) \in Int /\ Collects(per) = Worth(Remains(per, "RECEIVABLE"))
                    /\ ProjectedEnd(per) = Steady(per) + Cash + invested + Collects(per)
                                             - Fixed(per) - LoanPayments(per)
  BY DEF EndIsSum, Periods
<1>1. Cash \in Int /\ invested \in Int
  BY CashTypes DEF Typed
<1>2. Earnings(per) \in Int /\ SavingsTarget(per) \in Int /\ VariableBudget(per) \in Int
  BY EarningsTypes, TargetTypes, VariableTypes
<1>3. Steady(per) \in Int
  BY <1>2 DEF Steady
<1>4. Collects(per) \in Int /\ Collects(per) = Worth(Remains(per, "RECEIVABLE"))
  BY InstallmentsAre DEF Collects, Directions
<1>5. Fixed(per) \in Int /\ LoanPayments(per) \in Int
  BY PlanSums DEF PlanIsSummed
<1>6. Income(per) = Earnings(per) + Collects(per)
  BY DEF Income, Earnings, Collects
<1>7. ProjectedEnd(per) =
        Cash + invested + ((Income(per) - Fixed(per) - LoanPayments(per) - SavingsTarget(per))
                             - VariableBudget(per))
  BY DEF ProjectedEnd, Surplus, RemainingToSpend
<1>8. ProjectedEnd(per) = Steady(per) + Cash + invested + Collects(per)
                            - Fixed(per) - LoanPayments(per)
  BY <1>1, <1>2, <1>4, <1>5, <1>6, <1>7 DEF Steady
<1> QED
  BY <1>1, <1>3, <1>4, <1>8

LEMMA NextEndSum == Typed' => EndIsSum'
BY EndSum, PTL

LEMMA CashMoves ==
  ASSUME Typed, Typed', NEW amt \in Int, NEW cur \in Currencies, Gain(amt, cur)
  PROVE  Cash' = Cash + Converted(amt, cur)
<1> DEFINE f == [c \in Currencies |-> Converted(cash[c], c)]
           g == [c \in Currencies |-> Converted(cash'[c], c)]
<1>1. /\ cash \in [Currencies -> Int] /\ cash' \in [Currencies -> Int]
      /\ cash'[cur] = cash[cur] + amt /\ \A c \in Currencies : c # cur => cash'[c] = cash[c]
  BY GainTypes DEF Typed
<1>2. f \in [Currencies -> Int] /\ g \in [Currencies -> Int]
  BY <1>1, ConvertedTypes
<1>3. Cash = SumFunction(f) /\ Cash' = SumFunction(g)
  BY DEF Cash
<1>4. /\ f[cur] = Converted(cash[cur], cur) /\ g[cur] = Converted(cash'[cur], cur)
      /\ \A c \in Currencies : c # cur => g[c] = f[c]
  BY <1>1
<1> HIDE DEF f, g
<1>5. SumFunction(g) = SumFunction(f) + (g[cur] - f[cur])
  BY <1>2, <1>4, RowTypes, SumChangesAt
<1>6. cash[cur] \in Int /\ cash'[cur] \in Int /\ cash'[cur] - cash[cur] = amt
  BY <1>1
<1>7. g[cur] - f[cur] = Converted(amt, cur)
  <2>1. \A a, b \in Int : Converted(b, cur) - Converted(a, cur) = Converted(b - a, cur)
    BY ConvertedLess
  <2>2. Converted(cash'[cur], cur) - Converted(cash[cur], cur) = Converted(cash'[cur] - cash[cur], cur)
    BY <1>6, <2>1
  <2> QED
    BY <1>4, <1>6, <2>2
<1> QED
  BY <1>3, <1>5, <1>7
\* What neither the day nor a salary moves stays.
LEMMA SteadyStays ==
  ASSUME today' = today, salaries' = salaries, NEW per
  PROVE  Steady(per)' = Steady(per) /\ PeriodEnd(per)' = PeriodEnd(per)
<1>1. PeriodEnd(per)' = PeriodEnd(per) /\ PeriodStart(per)' = PeriodStart(per) /\ LastMonth' = LastMonth
  BY DEF PeriodEnd, PeriodStart, LastMonth
<1>2. PendingPayDates(per)' = PendingPayDates(per)
  BY <1>1 DEF PendingPayDates, Received
<1>3. \A b \in Bonuses : PendingBonus(b, per)' = PendingBonus(b, per)
  BY <1>1 DEF PendingBonus
<1>4. Earnings(per)' = Earnings(per)
  BY <1>2, <1>3 DEF Earnings, Worth
<1>5. MonthsLeft(per)' = MonthsLeft(per)
  BY <1>1 DEF MonthsLeft
<1>6. VariableBudget(per)' = VariableBudget(per)
  BY <1>5 DEF VariableBudget
<1>7. SavingsTarget(per)' = SavingsTarget(per)
  BY <1>1 DEF SavingsTarget
<1> QED
  BY <1>1, <1>4, <1>6, <1>7 DEF Steady

\* The parts of the end of a period, before and after a step.
LEMMA Ends ==
  ASSUME Typed, Typed', NEW per \in Periods
  PROVE  /\ Steady(per) \in Int /\ Steady(per)' \in Int /\ Cash \in Int /\ Cash' \in Int
         /\ invested \in Int /\ invested' \in Int
         /\ Collects(per) \in Int /\ Collects(per)' \in Int
         /\ Fixed(per) \in Int /\ Fixed(per)' \in Int
         /\ LoanPayments(per) \in Int /\ LoanPayments(per)' \in Int
         /\ ProjectedEnd(per) = Steady(per) + Cash + invested + Collects(per)
                                  - Fixed(per) - LoanPayments(per)
         /\ ProjectedEnd(per)' = Steady(per)' + Cash' + invested' + Collects(per)'
                                  - Fixed(per)' - LoanPayments(per)'
         /\ Collects(per) = Worth(Remains(per, "RECEIVABLE"))
         /\ Collects(per)' = Worth(Remains(per, "RECEIVABLE")')
         /\ LoanPayments(per) = Worth(Remains(per, "PAYABLE"))
         /\ LoanPayments(per)' = Worth(Remains(per, "PAYABLE")')
         /\ Fixed(per) = Worth(Owed(per)) /\ Fixed(per)' = Worth(Owed(per)')
<1>1. EndIsSum /\ EndIsSum' /\ PlanIsSummed /\ PlanIsSummed'
  BY EndSum, NextEndSum, PlanSums, NextPlanSums
<1> QED
  BY <1>1 DEF EndIsSum, PlanIsSummed, Worth

LEMMA BillKeepsEnd ==
  ASSUME Typed, Typed', NEW b \in Bills, PayBill(b), NEW per \in Periods, b.due <= PeriodEnd(per)
  PROVE  ProjectedEnd(per)' = ProjectedEnd(per)
<1>0. b.amt \in Nat /\ b.cur \in Currencies /\ -b.amt \in Int
  BY RowTypes
<1>1. /\ b \notin settled /\ settled' = settled \cup {b} /\ Gain(-b.amt, b.cur)
      /\ UNCHANGED <<today, invested, salaries, paid>>
  BY DEF PayBill
<1>2. Steady(per)' = Steady(per) /\ PeriodEnd(per)' = PeriodEnd(per)
  BY <1>1, SteadyStays
<1>3. Cash' = Cash + Converted(-b.amt, b.cur)
  BY <1>0, <1>1, CashMoves
<1>4. Collects(per)' = Collects(per) /\ LoanPayments(per)' = LoanPayments(per)
  BY <1>1, <1>2 DEF Collects, LoanPayments, OpenInstallments, RemainingOf, Worth
<1>5. Fixed(per)' = Fixed(per) + Converted(-b.amt, b.cur)
  <2>1. Owed(per) \in [Bills -> Int] /\ Owed(per)' \in [Bills -> Int]
    BY PlanSums, NextPlanSums DEF PlanIsSummed
  <2>2. \A x \in Bills : x # b => Owed(per)'[x] = Owed(per)[x]
    BY <1>1, <1>2 DEF Owed
  <2>3. Owed(per)[b] = b.amt /\ Owed(per)'[b] = 0
    BY <1>1, <1>2 DEF Owed
  <2>4. Owed(per)'[b] - Owed(per)[b] = -b.amt
    BY <1>0, <2>3
  <2>5. IsFiniteSet(Bills) /\ \A x \in Bills : x.cur \in Currencies
    BY RowTypes
  <2>6. Worth(Owed(per)') = Worth(Owed(per)) + Converted(Owed(per)'[b] - Owed(per)[b], b.cur)
    BY <2>1, <2>2, <2>5, WorthChangesAt
  <2> QED
    BY <2>4, <2>6, Ends
<1>6. Converted(-b.amt, b.cur) \in Int
  BY <1>0, ConvertedTypes
<1> QED
  BY <1>1, <1>2, <1>3, <1>4, <1>5, <1>6, Ends

\* A payment of an installment of the plan moves the remainder as it moves the cash.
LEMMA InstallmentMoves ==
  ASSUME Typed, Typed', NEW i \in Dues, NEW amt \in 1 .. i.principal + i.interest,
         PayInstallment(i, amt), NEW per \in Periods, i.due <= PeriodEnd(per),
         i.direction = "RECEIVABLE" => i.due >= today,
         NEW direction \in Directions
  PROVE  Worth(Remains(per, direction)') =
           IF i.direction = direction
           THEN Worth(Remains(per, direction)) + Converted(-amt, i.cur)
           ELSE Worth(Remains(per, direction))
<1> DEFINE f == Remains(per, direction)
           g == Remains(per, direction)'
<1>0. /\ amt \in Int /\ i.cur \in Currencies /\ IsFiniteSet(Dues)
      /\ \A j \in Dues : j.cur \in Currencies /\ j.principal \in Nat /\ j.interest \in Nat
  BY RowTypes
<1>1. /\ paid' = [paid EXCEPT ![i] = @ + amt] /\ today' = today /\ salaries' = salaries
  BY DEF PayInstallment
<1>2. PeriodEnd(per)' = PeriodEnd(per)
  BY <1>1, SteadyStays
<1>3. f \in [Dues -> Int] /\ g \in [Dues -> Int]
  BY PlanSums, NextPlanSums DEF PlanIsSummed, Directions
<1>4. \A j \in Dues : InPlan(per, direction, j)' <=> InPlan(per, direction, j)
  BY <1>1, <1>2 DEF InPlan
<1>5. /\ \A j \in Dues : j # i => paid'[j] = paid[j]
      /\ paid'[i] = paid[i] + amt /\ paid[i] \in Int
  BY <1>1 DEF Typed
<1>6. \A j \in Dues : j # i => g[j] = f[j]
  BY <1>4, <1>5 DEF Remains, RemainingOf
<1>7. CASE i.direction = direction
  <2>1. InPlan(per, direction, i)
    BY <1>7 DEF InPlan
  <2>2. g[i] = i.principal + i.interest - paid'[i] /\ f[i] = i.principal + i.interest - paid[i]
    BY <1>4, <2>1 DEF Remains, RemainingOf
  <2>3. g[i] - f[i] = -amt
    BY <1>0, <1>5, <2>2
  <2> HIDE DEF f, g
  <2>4. Worth(g) = Worth(f) + Converted(g[i] - f[i], i.cur)
    BY <1>0, <1>3, <1>6, WorthChangesAt
  <2> QED
    BY <1>7, <2>3, <2>4 DEF f, g
<1>8. CASE i.direction # direction
  <2>1. f[i] = 0 /\ g[i] = 0
    BY <1>4, <1>8 DEF Remains, InPlan
  <2>2. g = f
    BY <1>6, <2>1 DEF Remains
  <2> QED
    BY <1>8, <2>2
<1> QED
  BY <1>7, <1>8

LEMMA InstallmentKeepsEnd ==
  ASSUME Typed, Typed', NEW i \in Dues, NEW amt \in 1 .. i.principal + i.interest,
         PayInstallment(i, amt), NEW per \in Periods, i.due <= PeriodEnd(per),
         i.direction = "RECEIVABLE" => i.due >= today
  PROVE  ProjectedEnd(per)' = ProjectedEnd(per)
<1>0. amt \in Int /\ -amt \in Int /\ i.cur \in Currencies /\ i.direction \in {"PAYABLE", "RECEIVABLE"}
  BY RowTypes DEF Directions
<1>1. /\ Gain(IF i.direction = "PAYABLE" THEN -amt ELSE amt, i.cur)
      /\ UNCHANGED <<today, invested, salaries, settled>>
  BY DEF PayInstallment
<1>2. Steady(per)' = Steady(per) /\ PeriodEnd(per)' = PeriodEnd(per)
  BY <1>1, SteadyStays
<1>3. Fixed(per)' = Fixed(per)
  BY <1>1, <1>2 DEF Fixed, PendingBills, Worth
<1>4. Converted(amt, i.cur) \in Int /\ Converted(-amt, i.cur) = -Converted(amt, i.cur)
  BY <1>0, ConvertedTypes, ConvertedLess
<1>5. CASE i.direction = "PAYABLE"
  <2>1. LoanPayments(per)' = LoanPayments(per) + Converted(-amt, i.cur)
    BY <1>5, InstallmentMoves, Ends DEF Directions
  <2>2. Collects(per)' = Collects(per)
    BY <1>5, InstallmentMoves, Ends DEF Directions
  <2>3. Cash' = Cash + Converted(-amt, i.cur)
    BY <1>0, <1>1, <1>5, CashMoves
  <2> QED
    BY <1>1, <1>2, <1>3, <1>4, <2>1, <2>2, <2>3, Ends
<1>6. CASE i.direction = "RECEIVABLE"
  <2>1. Collects(per)' = Collects(per) + Converted(-amt, i.cur)
    BY <1>6, InstallmentMoves, Ends DEF Directions
  <2>2. LoanPayments(per)' = LoanPayments(per)
    BY <1>6, InstallmentMoves, Ends DEF Directions
  <2>3. Cash' = Cash + Converted(amt, i.cur)
    BY <1>0, <1>1, <1>6, CashMoves
  <2> QED
    BY <1>1, <1>2, <1>3, <1>4, <2>1, <2>2, <2>3, Ends
<1> QED
  BY <1>0, <1>5, <1>6

LEMMA InvestmentKeepsEnd ==
  ASSUME Typed, Typed', NEW amt \in 1 .. MaxInvested, Invest(amt), NEW per \in Periods
  PROVE  ProjectedEnd(per)' = ProjectedEnd(per)
<1>0. amt \in Int /\ -amt \in Int /\ Home \in Currencies /\ Rate[Home] = 1
  BY ProjectionAssumption
<1>1. /\ invested' = invested + amt /\ Gain(-amt, Home)
      /\ UNCHANGED <<today, salaries, settled, paid>>
  BY DEF Invest
<1>2. Steady(per)' = Steady(per) /\ PeriodEnd(per)' = PeriodEnd(per)
  BY <1>1, SteadyStays
<1>3. Fixed(per)' = Fixed(per)
  BY <1>1, <1>2 DEF Fixed, PendingBills, Worth
<1>4. Collects(per)' = Collects(per) /\ LoanPayments(per)' = LoanPayments(per)
  BY <1>1, <1>2 DEF Collects, LoanPayments, OpenInstallments, RemainingOf, Worth
<1>5. Cash' = Cash + Converted(-amt, Home)
  BY <1>0, <1>1, CashMoves
<1>6. Converted(-amt, Home) = -amt
  BY <1>0 DEF Converted
<1> QED
  BY <1>0, <1>1, <1>2, <1>3, <1>4, <1>5, <1>6, Ends

LEMMA PaymentsKeepEnd ==
  ASSUME Typed, Typed', [Next]_vars, NEW per \in Periods, Transacts(per)
  PROVE  ProjectedEnd(per)' = ProjectedEnd(per)
<1>1. CASE UNCHANGED <<settled, paid, invested>>
  BY <1>1 DEF Transacts
<1>2. ASSUME NEW b \in Bills, PayBill(b) PROVE ProjectedEnd(per)' = ProjectedEnd(per)
  <2>1. settled' = settled \cup {b} /\ paid' = paid /\ invested' = invested
    BY <1>2 DEF PayBill
  <2>2. b.due <= PeriodEnd(per)
    BY <2>1 DEF Transacts
  <2> QED
    BY <1>2, <2>2, BillKeepsEnd
<1>3. ASSUME NEW i \in Dues, NEW amt \in 1 .. i.principal + i.interest, PayInstallment(i, amt)
      PROVE  ProjectedEnd(per)' = ProjectedEnd(per)
  <2>1. settled' = settled /\ paid' = [paid EXCEPT ![i] = @ + amt] /\ invested' = invested
    BY <1>3 DEF PayInstallment
  <2>2. i.due <= PeriodEnd(per) /\ (i.direction = "RECEIVABLE" => i.due >= today)
    BY <2>1 DEF Transacts, Typed
  <2> QED
    BY <1>3, <2>2, InstallmentKeepsEnd
<1>4. ASSUME NEW amt \in 1 .. MaxInvested, Invest(amt) PROVE ProjectedEnd(per)' = ProjectedEnd(per)
  BY <1>4, InvestmentKeepsEnd
<1>5. NextDay => UNCHANGED <<settled, paid, invested>>
  BY DEF NextDay
<1>6. \A d \in today .. today + Early : ReceiveSalary(d) => UNCHANGED <<settled, paid, invested>>
  BY DEF ReceiveSalary
<1>7. UNCHANGED vars => UNCHANGED <<settled, paid, invested>>
  BY DEF vars
<1> QED
  BY <1>1, <1>2, <1>3, <1>4, <1>5, <1>6, <1>7 DEF Next
-----------------------------------------------------------------------------
(* The dates of the templates.                                             *)

LEMMA MaxOfTwo ==
  ASSUME NEW a \in Int, NEW b \in Int
  PROVE  Max({a, b}) = IF a >= b THEN a ELSE b
<1> DEFINE m == IF a >= b THEN a ELSE b
<1>1. m \in {a, b} /\ \A y \in {a, b} : m >= y
  OBVIOUS
<1>2. \A x \in {a, b} : (\A y \in {a, b} : x >= y) => x = m
  OBVIOUS
<1> HIDE DEF m
<1>3. Max({a, b}) = m
  BY <1>1, <1>2 DEF Max
<1> QED
  BY <1>3 DEF m

LastDate == LastOf(Len(Lengths))

LEMMA CalendarEnds ==
  /\ LastDate \in Int /\ Days = 1 .. LastDate
  /\ \A m \in Months : FirstOf[m] >= 1 /\ LastOf(m) <= LastDate
<1>1. Len(Lengths) \in Months /\ 1 \in Months /\ Months = 1 .. Len(Lengths) /\ Len(Lengths) \in Nat
  BY LengthsTypes
<1>2. LastDate \in Int /\ Days = 1 .. LastDate
  BY <1>1, MonthTypes DEF LastDate, Days
<1>3. ASSUME NEW m \in Months PROVE FirstOf[m] >= 1 /\ LastOf(m) <= LastDate
  <2>1. m \in Int /\ 1 <= m /\ m <= Len(Lengths)
    BY <1>1
  <2>2. LastOf(m) <= LastDate
    BY <1>1, <2>1, LastsInOrder DEF LastDate
  <2>3. FirstOf[m] >= 1
    <3>1. CASE m = 1
      BY <3>1, FirstFirst
    <3>2. CASE m # 1
      <4>1. LastOf(1) < FirstOf[m] /\ LastOf(1) \in Int /\ FirstOf[1] <= LastOf(1) /\ FirstOf[m] \in Int
        BY <1>1, <2>1, <3>2, MonthsInOrder, MonthTypes
      <4> QED
        BY <4>1, FirstFirst
    <3> QED
      BY <3>1, <3>2
  <2> QED
    BY <2>2, <2>3
<1> QED
  BY <1>2, <1>3

\* The day of the month on which a template falls due.
DueDay(t) == IF t.day = 0 THEN DayOfMonth(t.start) ELSE t.day

\* A template falls due on a day of its life, whoever looks.
Hits(t, d) ==
  IF t.frequency \in DOMAIN StepDays
  THEN (d - t.start) % StepDays[t.frequency] = 0
  ELSE /\ (MonthOf(d) - MonthOf(t.start)) % StepMonths[t.frequency] = 0
       /\ d = ClampedDay(MonthOf(d), DueDay(t))

\* computeDueDates without MAX_PAYMENTS_PER_TEMPLATE.
Uncapped(t, from, to) ==
  LET first == Max({from, t.start})
      last == Min({to, t.end})
  IN  IF first > last THEN {}
      ELSE IF t.frequency \in DOMAIN StepDays
           THEN IntervalDates(t, first, last) ELSE MonthStepDates(t, first, last)

\* The steps of an interval are the same from whichever of them one begins.
LEMMA StepsAgree ==
  ASSUME NEW step \in {1, 7, 14}, NEW n \in Nat, NEW e \in Int, e >= n
  PROVE  LET k == CeilDiv(n, step) IN
         /\ k \in Nat /\ step * k \in Int
         /\ e >= step * k /\ (e - step * k) % step = 0 <=> e % step = 0
<1>1. CASE step = 1
  BY <1>1 DEF CeilDiv
<1>2. CASE step = 7
  <2>1. CeilDiv(n, 7) = (n + 6) \div 7
    BY DEF CeilDiv
  <2>2. PICK k \in Int : k = (n + 6) \div 7
    OBVIOUS
  <2>3. k >= 0 /\ 7 * k >= n /\ 7 * k <= n + 6
    BY <2>2
  <2>4. e >= 7 * k /\ (e - 7 * k) % 7 = 0 <=> e % 7 = 0
    BY <2>3
  <2> QED
    BY <1>2, <2>1, <2>2, <2>3, <2>4
<1>3. CASE step = 14
  <2>1. CeilDiv(n, 14) = (n + 13) \div 14
    BY DEF CeilDiv
  <2>2. PICK k \in Int : k = (n + 13) \div 14
    OBVIOUS
  <2>3. k >= 0 /\ 14 * k >= n /\ 14 * k <= n + 13
    BY <2>2
  <2>4. e >= 14 * k /\ (e - 14 * k) % 14 = 0 <=> e % 14 = 0
    BY <2>3
  <2> QED
    BY <1>3, <2>1, <2>2, <2>3, <2>4
<1> QED
  BY <1>1, <1>2, <1>3

LEMMA ClampedIsInMonth ==
  ASSUME NEW m \in Months, NEW day \in Int
  PROVE  /\ ClampedDay(m, day) \in Days /\ MonthOf(ClampedDay(m, day)) = m
         /\ FirstOf[m] <= ClampedDay(m, day) /\ ClampedDay(m, day) <= LastOf(m)
         /\ ClampedDay(m, day) \in Int
<1>1. /\ FirstOf[m] \in Int /\ Lengths[m] \in Int /\ Lengths[m] >= 1
      /\ LastOf(m) = FirstOf[m] + Lengths[m] - 1
  BY MonthTypes
<1>2. Max({day, 1}) \in Int /\ Max({day, 1}) >= 1
  BY MaxOfTwo
<1> DEFINE n == Min({Max({day, 1}), Lengths[m]})
<1>3. n \in Int /\ n >= 1 /\ n <= Lengths[m]
  <2>1. \A a, b \in Int : Min({a, b}) = IF a <= b THEN a ELSE b
    BY MinOfTwo
  <2>2. n = IF Max({day, 1}) <= Lengths[m] THEN Max({day, 1}) ELSE Lengths[m]
    BY <1>1, <1>2, <2>1
  <2> HIDE DEF n
  <2> QED
    BY <1>1, <1>2, <2>2
<1>4. ClampedDay(m, day) = FirstOf[m] + n - 1
  BY DEF ClampedDay
<1> HIDE DEF n
<1>5. /\ FirstOf[m] <= ClampedDay(m, day) /\ ClampedDay(m, day) <= LastOf(m)
      /\ ClampedDay(m, day) \in Int
  BY <1>1, <1>3, <1>4
<1>6. FirstOf[m] >= 1 /\ LastOf(m) <= LastDate /\ Days = 1 .. LastDate /\ LastDate \in Int
  BY CalendarEnds
<1>7. ClampedDay(m, day) \in Days
  BY <1>1, <1>5, <1>6
<1> QED
  BY <1>5, <1>7, MonthIsThatOfDay

LEMMA TemplateTypes ==
  ASSUME NEW t, IsTemplate(t)
  PROVE  /\ t.start \in Days /\ t.end \in Days /\ t.start \in Int /\ t.end \in Int
         /\ DueDay(t) \in Int /\ MonthOf(t.start) \in Months
         /\ t.frequency \in DOMAIN StepDays => StepDays[t.frequency] \in {1, 7, 14}
<1>1. t.start \in Days /\ t.end \in Days /\ t.day \in Int
  BY DEF IsTemplate
<1>2. t.start \in Int /\ t.end \in Int /\ MonthOf(t.start) \in Months
  BY <1>1, DayIsInMonth
<1>3. DueDay(t) \in Int
  BY <1>1, <1>2, MonthTypes DEF DueDay, DayOfMonth
<1>4. t.frequency \in DOMAIN StepDays => StepDays[t.frequency] \in {1, 7, 14}
  BY DEF StepDays
<1> QED
  BY <1>1, <1>2, <1>3, <1>4

LEMMA IntervalHits ==
  ASSUME NEW t, IsTemplate(t), t.frequency \in DOMAIN StepDays,
         NEW first \in Int, NEW last \in Int, t.start <= first
  PROVE  IntervalDates(t, first, last) = {d \in first .. last : Hits(t, d)}
<1> DEFINE step == StepDays[t.frequency]
           n == first - t.start
           k == CeilDiv(n, step)
           cursor == t.start + step * Max({0, k})
<1>1. step \in {1, 7, 14} /\ t.start \in Int
  BY TemplateTypes
<1>2. n \in Nat
  BY <1>1
<1>3. IntervalDates(t, first, last) = {d \in cursor .. last : (d - cursor) % step = 0}
  BY DEF IntervalDates
<1>4. \A d \in Int : Hits(t, d) <=> (d - t.start) % step = 0
  BY DEF Hits
<1> HIDE DEF step
<1>5. \A e \in Int : e >= n =>
        /\ k \in Nat /\ step * k \in Int
        /\ e >= step * k /\ (e - step * k) % step = 0 <=> e % step = 0
  BY <1>1, <1>2, StepsAgree
<1> HIDE DEF n, k
<1>6. k \in Nat /\ step * k \in Int
  BY <1>2, <1>5
<1>7. cursor = t.start + step * k
  <2>1. Max({0, k}) = k
    BY <1>6, MaxOfTwo
  <2> QED
    BY <2>1
<1>8. n <= step * k
  <2> SUFFICES ASSUME step * k < n PROVE FALSE
    BY <1>2, <1>6
  <2>1. CeilDiv(n, step) = (n + step - 1) \div step
    BY DEF CeilDiv
  <2> QED
    BY <1>1, <1>2, <1>6, <2>1 DEF k
<1> HIDE DEF cursor
<1>9. cursor \in Int /\ first <= cursor
  BY <1>1, <1>6, <1>7, <1>8 DEF n
<1>10. ASSUME NEW d \in first .. last
       PROVE  d >= cursor /\ (d - cursor) % step = 0 <=> Hits(t, d)
  <2> DEFINE e == d - t.start
  <2>1. e \in Int /\ e >= n /\ (d >= cursor <=> e >= step * k) /\ d - cursor = e - step * k
    BY <1>1, <1>6, <1>7 DEF n
  <2>2. e >= step * k /\ (e - step * k) % step = 0 <=> e % step = 0
    BY <1>5, <2>1
  <2> QED
    BY <1>4, <2>1, <2>2
<1>11. \A d \in Int : d \in cursor .. last <=> d \in first .. last /\ d >= cursor
  BY <1>9
<1> QED
  BY <1>3, <1>9, <1>10, <1>11

LEMMA MonthStepHits ==
  ASSUME NEW t, IsTemplate(t), t.frequency \notin DOMAIN StepDays,
         NEW first \in Int, NEW last \in Days, t.start <= first
  PROVE  MonthStepDates(t, first, last) = {d \in first .. last : Hits(t, d)}
<1> DEFINE from == MonthOf(t.start)
           day == DueDay(t)
           step == StepMonths[t.frequency]
           months == {m \in from .. MonthOf(last) : (m - from) % step = 0}
<1>1. /\ t.start \in Days /\ t.start \in Int /\ day \in Int /\ from \in Months
      /\ last \in Int /\ MonthOf(last) \in Months
  BY TemplateTypes, DayIsInMonth
<1>2. MonthStepDates(t, first, last) = {ClampedDay(m, day) : m \in months} \cap (first .. last)
  BY DEF MonthStepDates, DueDay
<1>3. \A d \in first .. last : Hits(t, d) <=> /\ (MonthOf(d) - from) % step = 0
                                              /\ d = ClampedDay(MonthOf(d), day)
  BY DEF Hits
<1>4. from .. MonthOf(last) \subseteq Months /\ from \in Int /\ MonthOf(last) \in Int
  BY <1>1, LengthsTypes
<1>5. \A m \in months : m \in Months /\ MonthOf(ClampedDay(m, day)) = m
  BY <1>1, <1>4, ClampedIsInMonth
<1>6. ASSUME NEW d \in first .. last PROVE d \in Days /\ MonthOf(d) \in from .. MonthOf(last)
  <2>1. d \in Days
    BY <1>1, DaysBetween
  <2>2. MonthOf(t.start) <= MonthOf(d) /\ MonthOf(d) <= MonthOf(last)
    BY <1>1, <2>1, MonthsOfDays
  <2>3. MonthOf(d) \in Int
    BY <2>1, DayIsInMonth, LengthsTypes
  <2> QED
    BY <1>4, <2>1, <2>2, <2>3
<1> HIDE DEF from, day, step
<1>7. ASSUME NEW d \in first .. last
      PROVE  d \in {ClampedDay(m, day) : m \in months} <=> Hits(t, d)
  <2>1. ASSUME NEW m \in months, d = ClampedDay(m, day) PROVE Hits(t, d)
    <3>1. MonthOf(d) = m /\ (m - from) % step = 0
      BY <1>5, <2>1
    <3> QED
      BY <1>3, <2>1, <3>1
  <2>2. ASSUME Hits(t, d) PROVE \E m \in months : d = ClampedDay(m, day)
    <3>1. MonthOf(d) \in months
      BY <1>3, <1>6, <2>2
    <3> QED
      BY <1>3, <2>2, <3>1
  <2> QED
    BY <2>1, <2>2
<1> HIDE DEF months
<1> QED
  BY <1>2, <1>7

\* Where one looks does not decide what is due there.
LEMMA UncappedHits ==
  ASSUME NEW t, IsTemplate(t), NEW from \in Int, NEW to \in Int
  PROVE  Uncapped(t, from, to) = {d \in from .. to : t.start <= d /\ d <= t.end /\ Hits(t, d)}
<1> DEFINE first == Max({from, t.start})
           last == Min({to, t.end})
           Right == {d \in from .. to : t.start <= d /\ d <= t.end /\ Hits(t, d)}
<1>1. t.start \in Days /\ t.end \in Days /\ t.start \in Int /\ t.end \in Int
  BY TemplateTypes
<1>2. /\ first = IF from >= t.start THEN from ELSE t.start
      /\ last = IF to <= t.end THEN to ELSE t.end
  BY <1>1, MaxOfTwo, MinOfTwo
<1>3. Uncapped(t, from, to) =
        IF first > last THEN {}
        ELSE IF t.frequency \in DOMAIN StepDays
             THEN IntervalDates(t, first, last) ELSE MonthStepDates(t, first, last)
  BY DEF Uncapped
<1> HIDE DEF first, last
<1>4. /\ first \in Int /\ last \in Int /\ t.start <= first /\ last <= t.end
      /\ \A d \in Int : d \in first .. last <=> d \in from .. to /\ t.start <= d /\ d <= t.end
  BY <1>1, <1>2
<1>5. Right = {d \in first .. last : Hits(t, d)}
  BY <1>4
<1> HIDE DEF Right
<1>6. CASE first > last
  <2>1. first .. last = {}
    BY <1>4, <1>6
  <2> QED
    BY <1>3, <1>5, <1>6, <2>1 DEF Right
<1>7. CASE ~(first > last) /\ t.frequency \in DOMAIN StepDays
  BY <1>3, <1>4, <1>5, <1>7, IntervalHits DEF Right
<1>8. CASE ~(first > last) /\ t.frequency \notin DOMAIN StepDays
  <2>1. last \in Days
    BY <1>1, <1>4, <1>8, DaysBetween
  <2> QED
    BY <1>3, <1>4, <1>5, <1>8, <2>1, MonthStepHits DEF Right
<1> QED
  BY <1>6, <1>7, <1>8
\* No template is due so often that MAX_PAYMENTS_PER_TEMPLATE cuts its dates off.
CapIsFar == \A t \in Templates : Cardinality(Uncapped(t, 1, LastDate)) <= Cap

LEMMA BelowCap ==
  ASSUME CapIsFar, NEW t \in Templates, NEW from \in Int, NEW to \in Int, from >= 1, to <= LastDate
  PROVE  DueDates(t, from, to) = {d \in from .. to : t.start <= d /\ d <= t.end /\ Hits(t, d)}
<1> DEFINE D == Uncapped(t, from, to)
           All == Uncapped(t, 1, LastDate)
<1>1. IsTemplate(t) /\ LastDate \in Int
  BY ProjectionAssumption, CalendarEnds
<1>2. /\ D = {d \in from .. to : t.start <= d /\ d <= t.end /\ Hits(t, d)}
      /\ All = {d \in 1 .. LastDate : t.start <= d /\ d <= t.end /\ Hits(t, d)}
  BY <1>1, UncappedHits
<1>3. Cardinality(All) <= Cap /\ Cap \in Int
  BY SchedulesAssumption DEF CapIsFar
<1>4. DueDates(t, from, to) = IF Max({from, t.start}) > Min({to, t.end}) THEN {} ELSE FirstOnes(D)
  BY DEF DueDates, Uncapped
<1>5. Max({from, t.start}) > Min({to, t.end}) => D = {}
  BY DEF Uncapped
<1> HIDE DEF D, All
<1>6. D \subseteq All /\ All \subseteq 1 .. LastDate
  BY <1>1, <1>2
<1>7. IsFiniteSet(All)
  <2>1. IsFiniteSet(1 .. LastDate)
    BY <1>1, FS_Interval
  <2> QED
    BY <1>6, <2>1, FS_Subset
<1>8. Cardinality(D) <= Cardinality(All) /\ Cardinality(D) \in Nat /\ Cardinality(All) \in Nat
  BY <1>6, <1>7, FS_Subset, FS_CardinalityType
<1>9. FirstOnes(D) = D
  BY <1>3, <1>8 DEF FirstOnes
<1> QED
  BY <1>2, <1>4, <1>5, <1>9

LEMMA WindowTypes ==
  ASSUME today \in Days, NEW w \in Windows
  PROVE  w[1] \in Int /\ w[2] \in Int /\ w[1] >= 1 /\ w[2] <= LastDate
<1> DEFINE m == MonthOf(today)
<1>1. m \in Months /\ m \in Int /\ m >= 1 /\ m <= Len(Lengths) /\ Len(Lengths) \in Int
  BY DayIsInMonth, LengthsTypes
<1>2. today \in Int /\ today >= 1
  BY CalendarEnds
<1>3. CASE w \in {<<today, PeriodEnd(per)>> : per \in Periods}
  <2>1. PICK per \in Periods : w = <<today, PeriodEnd(per)>>
    BY <1>3
  <2>2. PeriodEnd(per) = LastOf(IF per = "month" THEN m ELSE YearEnd(m)) /\ PeriodEnd(per) \in Int
    BY PeriodEndIs
  <2>3. YearEnd(m) \in Months
    BY <1>1, YearEndTypes
  <2>4. PeriodEnd(per) <= LastDate
    BY <1>1, <2>2, <2>3, CalendarEnds
  <2> QED
    BY <1>2, <2>1, <2>2, <2>4
<1>4. CASE w = <<FirstOf[Max({1, m - 3})], LastOf(Min({Len(Lengths), m + 11}))>>
  <2>1. /\ Max({1, m - 3}) = IF 1 >= m - 3 THEN 1 ELSE m - 3
        /\ Min({Len(Lengths), m + 11}) = IF Len(Lengths) <= m + 11 THEN Len(Lengths) ELSE m + 11
    <3>1. m - 3 \in Int /\ m + 11 \in Int
      BY <1>1
    <3> HIDE DEF m
    <3> QED
      BY <1>1, <3>1, MaxOfTwo, MinOfTwo
  <2>2. Max({1, m - 3}) \in 1 .. Len(Lengths) /\ Min({Len(Lengths), m + 11}) \in 1 .. Len(Lengths)
    BY <1>1, <2>1
  <2>3. Max({1, m - 3}) \in Months /\ Min({Len(Lengths), m + 11}) \in Months
    BY <2>2, LengthsTypes
  <2> QED
    BY <1>4, <2>3, CalendarEnds, MonthTypes
<1> QED
  BY <1>3, <1>4 DEF Windows

LEMMA OnceAMonth ==
  ASSUME CapIsFar, NEW t \in Templates, t.frequency = "MONTHLY", NEW m \in Months,
         t.start < FirstOf[m], LastOf(m) < t.end
  PROVE  Cardinality(DueDates(t, FirstOf[m], LastOf(m))) = 1
<1> DEFINE due == ClampedDay(m, DueDay(t))
<1>1. /\ IsTemplate(t) /\ t.start \in Int /\ t.end \in Int /\ DueDay(t) \in Int
      /\ MonthOf(t.start) \in Int
  BY ProjectionAssumption, TemplateTypes, LengthsTypes
<1>2. FirstOf[m] \in Int /\ LastOf(m) \in Int /\ FirstOf[m] >= 1 /\ LastOf(m) <= LastDate /\ m \in Int
  BY MonthTypes, CalendarEnds
<1>3. due \in FirstOf[m] .. LastOf(m)
  BY <1>1, <1>2, ClampedIsInMonth
<1>4. \A d \in FirstOf[m] .. LastOf(m) : MonthOf(d) = m
  <2>1. \A d \in FirstOf[m] .. LastOf(m) : d \in Days
    BY <1>2, CalendarEnds
  <2> QED
    BY <1>2, <2>1, MonthIsThatOfDay
<1>5. \A d \in FirstOf[m] .. LastOf(m) : Hits(t, d) <=> d = due
  <2>1. t.frequency \notin DOMAIN StepDays /\ StepMonths[t.frequency] = 1
    BY DEF StepDays, StepMonths
  <2>2. (m - MonthOf(t.start)) % 1 = 0
    BY <1>1, <1>2
  <2> QED
    BY <1>4, <2>1, <2>2 DEF Hits
<1>6. DueDates(t, FirstOf[m], LastOf(m)) =
        {d \in FirstOf[m] .. LastOf(m) : t.start <= d /\ d <= t.end /\ Hits(t, d)}
  BY <1>2, BelowCap
<1> HIDE DEF due
<1>7. DueDates(t, FirstOf[m], LastOf(m)) = {due}
  BY <1>1, <1>2, <1>3, <1>5, <1>6
<1> QED
  BY <1>7, FS_Singleton

LEMMA WindowsAgree == CapIsFar /\ Typed => SchedulesAgree
<1> SUFFICES ASSUME CapIsFar, Typed, NEW t \in Templates
             PROVE  /\ \A w \in Windows : DueDates(t, w[1], w[2]) = EverDue[t] \cap (w[1] .. w[2])
                    /\ t.frequency = "MONTHLY" =>
                         \A m \in Months : t.start < FirstOf[m] /\ LastOf(m) < t.end =>
                           Cardinality(DueDates(t, FirstOf[m], LastOf(m))) = 1
  BY DEF SchedulesAgree
<1>1. LastDate \in Int
  BY CalendarEnds
<1>2. EverDue[t] = {d \in 1 .. LastDate : t.start <= d /\ d <= t.end /\ Hits(t, d)}
  <2>1. EverDue[t] = DueDates(t, 1, LastDate)
    BY DEF EverDue, LastDate
  <2> QED
    BY <1>1, <2>1, BelowCap
<1>3. ASSUME NEW w \in Windows PROVE DueDates(t, w[1], w[2]) = EverDue[t] \cap (w[1] .. w[2])
  <2>1. w[1] \in Int /\ w[2] \in Int /\ w[1] >= 1 /\ w[2] <= LastDate
    BY WindowTypes DEF Typed
  <2>2. DueDates(t, w[1], w[2]) = {d \in w[1] .. w[2] : t.start <= d /\ d <= t.end /\ Hits(t, d)}
    BY <2>1, BelowCap
  <2> QED
    BY <1>1, <1>2, <2>1, <2>2
<1> QED
  BY <1>3, OnceAMonth

-----------------------------------------------------------------------------
(* The theorems.                                                           *)

\* The window a page looks through does not decide on which days something is due, and
\* a monthly expense is due once in every month of its life, whatever day it is due on
\* (computeDueDates), as long as MAX_PAYMENTS_PER_TEMPLATE is not reached.
THEOREM WindowsShowTheSame == ASSUME CapIsFar PROVE Spec => []SchedulesAgree
<1>1. Typed => SchedulesAgree
  BY WindowsAgree
<1> QED
  BY <1>1, TypedAtFirst, StaysTyped, PTL DEF Spec

\* A day that passes takes nothing away from what is owed, in the month and in the
\* year: what becomes overdue stays in the projection, and a month that turns only
\* adds to it (loadPendingFixedPayments, loadRemainingLoanInstallments).
THEOREM OwedStaysOwed == Spec => NothingOwedIsForgotten
<1>1. Typed /\ Typed' /\ [Next]_vars =>
        [\A per \in Periods : NextDay =>
           Fixed(per)' + LoanPayments(per)' >= Fixed(per) + LoanPayments(per)]_vars
  BY OwedGrows
<1> QED
  BY <1>1, TypedAtFirst, StaysTyped, PTL DEF Spec, NothingOwedIsForgotten

\* A bill or an installment of the period that is paid, in full, in part, early or late,
\* an installment that is collected and money that is invested do not change how the
\* period ends (projectPeriod): the part of PlanKept that is not about salaries.
THEOREM PaymentsKeepThePlan ==
  Spec => [][\A per \in Periods :
               Transacts(per) => ProjectedEnd(per)' = ProjectedEnd(per)]_vars
<1>1. Typed /\ Typed' /\ [Next]_vars =>
        [\A per \in Periods : Transacts(per) => ProjectedEnd(per)' = ProjectedEnd(per)]_vars
  BY PaymentsKeepEnd
<1> QED
  BY <1>1, TypedAtFirst, StaysTyped, PTL DEF Spec
=============================================================================
