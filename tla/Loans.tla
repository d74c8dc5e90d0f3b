--------------------------------- MODULE Loans ---------------------------------
(***************************************************************************)
(* A loan (loan.actions.ts, loan.service.ts): its installments, the        *)
(* payments of them, and the adjustments that lend more, repay ahead of    *)
(* time or change the schedule, which is then rebuilt for what is owed.    *)
(*                                                                         *)
(* Requests are processes as in Ledger: reads in some steps, one commit.   *)
(* Two loans meet only in the accounts, so there is one loan here.  The    *)
(* totals a loan shows, dates and the caches of the accounts are left out; *)
(* interest accrues by the period.                                         *)
(***************************************************************************)
EXTENDS Installments, FiniteSets, FiniteSetsExt, Functions

CONSTANTS
  Accounts,
  Opening,      \* what each account holds at first
  MaxTerm,      \* the longest schedule of a run
  Procs,        \* request slots; a slot serves one request
  Keys,         \* idempotency keys of the clients
  RequestsOf,   \* the requests each slot may be given
  MaxInFlight,  \* how many requests run at the same time
  Amounts,      \* the sums that are lent and paid: Nat, or the part of it a run meets
  LoanRow,      \* stands for the row of the loan among the locks
  NoProc, NoRow, NoRequest, NoAccount

Numbers == 1 .. MaxTerm
Statuses == {"ACTIVE", "COMPLETED", "CANCELLED", "DEFAULTED"}
Extras == {"disburse", "extra"}
Schedules == {"rate", "reschedule", "interestOnly"}
Adjustments == Extras \cup Schedules \cup {"custom"}
Ops == Adjustments \cup {"create", "pay", "update", "delete", "reconcile"}

\* What createLoan is given, apart from the account and the key.  The mode says whether
\* the term is given or follows from the installment.
Contract == [payable : BOOLEAN, principal : Nat \ {0}, style : Styles,
             mode : {"TERM", "INSTALLMENT"}, term : Numbers, io : Nat, rate : Nat,
             fixed : Nat, totals : [Numbers -> Nat]]

\* to is the new rate, term or number of interest-only installments, or the new
\* total of an installment; amt is 0 when a payment is to settle what is left.
Request == [op : Ops, contract : Contract, n : Numbers, amt : Nat, to : Nat,
            status : Statuses, acct : Accounts \cup {NoAccount}, key : Keys]

\* balance is the cache balanceCents; alive is isActive.
Loan == [alive : BOOLEAN, status : Statuses, balance : Nat, payable : BOOLEAN,
         principal : Nat \ {0}, style : Styles, term : Numbers, io : Nat, rate : Nat,
         fixed : Nat]

\* resolveScheduleTermCount
TermsOf(c) == {n \in Numbers : PaysOff(c.principal, c.rate, c.fixed, n)}
ResolvedTerm(c) == IF c.mode = "TERM" THEN c.term ELSE c.io + Min(TermsOf(c))

\* CreateLoanSchema
Accepted(c) ==
  IF c.mode = "TERM" THEN c.io < c.term
  ELSE /\ c.style = "FRENCH" /\ c.fixed > 0
       /\ TermsOf(c) # {}
       /\ c.io < Min(TermsOf(c)) /\ ResolvedTerm(c) \in Numbers

\* A LoanInstallment; paidAmountCents is what was paid of both parts.
Installment == [active : BOOLEAN, status : {"PENDING", "PARTIAL", "PAID"},
                principal : Nat, interest : Nat, total : Nat,
                paidPrincipal : Nat, paidInterest : Nat]

\* A LoanInstallmentPayment, a LoanAdjustment (n is 0) and a Transaction.
Payment == [op : {"pay"}, n : Numbers, principal : Nat, interest : Nat, key : Keys]
Adjustment == [op : Adjustments, amt : Nat, key : Keys]
Entry == [acct : Accounts, amt : Int, key : Keys]

Locks == Accounts \cup {LoanRow} \cup Numbers

ASSUME LoansAssumption ==
  /\ Opening \in [Accounts -> Nat]
  /\ MaxTerm \in Nat \ {0}
  /\ MaxInFlight \in Nat \ {0}
  /\ IsFiniteSet(Procs)
  /\ NoProc \notin Procs
  /\ NoAccount \notin Accounts
  /\ LoanRow \notin Accounts \cup Numbers
  /\ Accounts \cap Numbers = {}
  /\ NoRow \notin Loan \cup Installment \cup Payment \cup Adjustment \cup Entry
  /\ NoRequest \notin Request
  /\ \A p \in Procs : \A r \in RequestsOf[p] :
       /\ r \in Request
       /\ r.op = "pay" => r.acct # NoAccount
       /\ r.op \in Schedules \cup {"custom"} => r.acct = NoAccount
       /\ r.op = "create" => Accepted(r.contract)
       /\ r.op \in Extras \cup {"custom"} => r.amt > 0
       /\ r.op = "reschedule" => r.to \in Numbers
       /\ r.op = "interestOnly" => r.to > 0
  \* There is one loan: whoever creates it does so with one key.
  /\ \A p, q \in Procs : \A r \in RequestsOf[p], s \in RequestsOf[q] :
       r.op = "create" /\ s.op = "create" => r.key = s.key

VARIABLES
  loan,
  rows,      \* the installment of each number
  made,      \* the payment or adjustment each slot has made
  entries,   \* the transaction each slot has made
  lock,      \* the process that holds the row of an account, the loan, an installment
  pc, req, seen

data == <<loan, rows, made, entries>>
vars == <<loan, rows, made, entries, lock, pc, req, seen>>

Begun == {"begun", "found", "account", "loan", "ready", "cache", "paid", "differs"}
Finished == {"done", "repeated", "rejected", "aborted"}

Nothing == [loan |-> NoRow, owed |-> 0, settled |-> FALSE]
Seen == [loan : Loan \cup {NoRow}, owed : Int, settled : BOOLEAN]

\* Every variable keeps its type; money that is owed or paid is never negative; a
\* process that has begun has a request.
TypeOK ==
  /\ loan \in Loan \cup {NoRow}
  /\ rows \in [Numbers -> Installment \cup {NoRow}]
  /\ made \in [Procs -> Payment \cup Adjustment \cup {NoRow}]
  /\ entries \in [Procs -> Entry \cup {NoRow}]
  /\ lock \in [Locks -> Procs \cup {NoProc}]
  /\ pc \in [Procs -> {"idle"} \cup Begun \cup Finished]
  /\ req \in [Procs -> Request \cup {NoRequest}]
  /\ seen \in [Procs -> Seen]
  /\ \A p \in Procs : pc[p] \in Begun => req[p] \in Request

Init ==
  /\ loan = NoRow
  /\ rows = [n \in Numbers |-> NoRow]
  /\ made = [p \in Procs |-> NoRow]
  /\ entries = [p \in Procs |-> NoRow]
  /\ lock = [x \in Locks |-> NoProc]
  /\ pc = [p \in Procs |-> "idle"]
  /\ req = [p \in Procs |-> NoRequest]
  /\ seen = [p \in Procs |-> Nothing]

-----------------------------------------------------------------------------
(* The control of a request.                                               *)

InFlight == {p \in Procs : pc[p] \in Begun}

At(p, ops, label) == pc[p] = label /\ req[p].op \in ops

Goto(p, label, found) ==
  /\ pc' = [pc EXCEPT ![p] = label]
  /\ seen' = [seen EXCEPT ![p] = found]
  /\ UNCHANGED req

Finish(p, how) ==
  /\ pc' = [pc EXCEPT ![p] = how]
  /\ seen' = [seen EXCEPT ![p] = Nothing]
  /\ UNCHANGED req

Free(p, x) == lock[x] \in {NoProc, p}

Release(p) == lock' = [x \in Locks |-> IF lock[x] = p THEN NoProc ELSE lock[x]]

Refuse(p, how) == Finish(p, how) /\ Release(p) /\ UNCHANGED data

-----------------------------------------------------------------------------
(* The tables.                                                             *)

\* Slip of Max0: the debt is not clamped.
Unclamped(x) == x

Max0(x) == IF x > 0 THEN x ELSE 0

Least(x, y) == IF x < y THEN x ELSE y

Alive == loan # NoRow /\ loan.alive

Active(rs, n) == rs[n] # NoRow /\ rs[n].active
ActiveRows(rs) == {n \in Numbers : Active(rs, n)}

Made(p) == made[p] # NoRow
MadeWith(ops, k) == \E q \in Procs : Made(q) /\ made[q].op \in ops /\ made[q].key = k
KeyTaken(k) == \E q \in Procs : entries[q] # NoRow /\ entries[q].key = k

TrueBalance(a) ==
  Opening[a] + SumFunction([q \in Procs |->
                 IF entries[q] # NoRow /\ entries[q].acct = a THEN entries[q].amt ELSE 0])

\* resolveAdjustmentTransactionType: who pays what into or out of the account.
Signed(payable, op, amt) ==
  IF payable = (op \in {"create", "disburse"}) THEN amt ELSE -amt

Covered(acct, amt) == amt < 0 => TrueBalance(acct) + amt >= 0

NewEntry(r, amt) == [acct |-> r.acct, amt |-> amt, key |-> r.key]

Lent(op) ==
  SumFunction([q \in Procs |-> IF Made(q) /\ made[q].op = op THEN made[q].amt ELSE 0])

PaidPrincipal(rs) ==
  SumFunction([n \in Numbers |-> IF Active(rs, n) THEN rs[n].paidPrincipal ELSE 0])

\* computeLedgerBalance, of a principal, what was lent and repaid besides, and rows.
LedgerBalance(principal, extra, rs) == Max0(principal + extra - PaidPrincipal(rs))

Extra == Lent("disburse") - Lent("extra")
Owed == LedgerBalance(loan.principal, Extra, rows)

Unpaid(row) == row.principal - row.paidPrincipal
Paid(row) == row.paidPrincipal + row.paidInterest

\* isInstallmentSettled
Settled(row) == Unpaid(row) <= 0 /\ row.interest - row.paidInterest <= 0

AllSettled(rs) == \A n \in ActiveRows(rs) : Settled(rs[n])

-----------------------------------------------------------------------------
(* The schedule.                                                           *)

NoTotals == [n \in Numbers |-> 0]

\* The plan of a contract or a loan for so much over so many periods.
Plan(c, principal, term, io, totals) ==
  [style |-> c.style, principal |-> principal, term |-> term, io |-> io, rate |-> c.rate,
   fixed |-> c.fixed, charge |-> [k \in 1 .. term |-> c.rate], totals |-> totals]

NewRow(row) ==
  [active |-> TRUE, status |-> "PENDING", principal |-> row.principal,
   interest |-> row.interest, total |-> Total(row), paidPrincipal |-> 0, paidInterest |-> 0]

\* A slot of the schedule is used again: what was paid of it stays.
Rewritten(old, row) ==
  IF old = NoRow THEN NewRow(row)
  ELSE [old EXCEPT !.active = TRUE, !.status = "PENDING", !.principal = row.principal,
                   !.interest = row.interest, !.total = Total(row)]

\* Slip of PendingFrom: rows that are paid in part count.
UnpaidFrom(rs, from) == {n \in ActiveRows(rs) : n >= from /\ rs[n].status # "PAID"}

PendingFrom(rs, from) == {n \in ActiveRows(rs) : n >= from /\ rs[n].status = "PENDING"}

Cleared(rs, from) ==
  [n \in Numbers |-> IF n \in PendingFrom(rs, from) THEN [rs[n] EXCEPT !.active = FALSE]
                     ELSE rs[n]]

UnpaidPrincipal(rs, ns) ==
  SumFunction([n \in Numbers |-> IF n \in ns THEN Unpaid(rs[n]) ELSE 0])

\* Slip of Carried: only rows without a payment are thought to be carried.
CarriedPending(rs, from) ==
  UnpaidPrincipal(rs, {n \in ActiveRows(rs) : n < from /\ rs[n].status = "PENDING"})

\* What the rows before from, which stay, still ask for.
Carried(rs, from) == UnpaidPrincipal(rs, {n \in ActiveRows(rs) : n < from})

\* regenerateFutureSchedule: a row with a payment may not be in the way ...
Blocked(l, rs, from) ==
  from <= l.term /\ \E n \in ActiveRows(rs) : n >= from /\ rs[n].status # "PENDING"

\* ... and the rows from that one on are made anew for what is owed (extra is what
\* was lent less what was repaid outside of the schedule).
Regenerated(l, rs, extra, from) ==
  LET base == Max0(LedgerBalance(l.principal, extra, rs) - Carried(rs, from))
      count == l.term - from + 1
      new == Rows(Plan(l, base, count, Least(Max0(l.io - (from - 1)), count - 1),
                       NoTotals))
  IN  IF from > l.term THEN rs
      ELSE [n \in Numbers |-> IF base > 0 /\ n \in from .. l.term
                              THEN Rewritten(rs[n], new[n - from + 1])
                              ELSE Cleared(rs, from)[n]]

-----------------------------------------------------------------------------
(* A request arrives; it may be lost at any time before its commit.        *)

Begin(p) ==
  /\ pc[p] = "idle"
  /\ Cardinality(InFlight) < MaxInFlight
  /\ \E r \in RequestsOf[p] : req' = [req EXCEPT ![p] = r]
  /\ pc' = [pc EXCEPT ![p] = "begun"]
  /\ UNCHANGED <<data, lock, seen>>

Abort(p) == pc[p] \in Begun /\ Refuse(p, "aborted")

\* Slip of Wants: a payment locks its installment before the loan.
WantsInstallmentFirst(p) ==
  LET r == req[p] IN
  CASE At(p, Ops, "found") /\ r.acct # NoAccount -> {r.acct}
    [] At(p, {"pay"}, "account") -> {r.n}
    [] At(p, {"pay"}, "loan") -> {LoanRow}
    [] At(p, Adjustments, "found") /\ r.acct = NoAccount -> {LoanRow}
    [] At(p, Adjustments, "account") -> {LoanRow}
    [] At(p, Adjustments, "ready") -> PendingFrom(rows, 1)
    [] OTHER -> {}

\* The rows that the next statements of a request lock or write and that others may
\* hold: the account, then the loan, then the installment.
Wants(p) ==
  LET r == req[p] IN
  CASE At(p, Ops, "found") /\ r.acct # NoAccount -> {r.acct}
    [] At(p, {"pay"}, "account") -> {LoanRow}
    [] At(p, {"pay"}, "loan") -> {r.n}
    [] At(p, Adjustments, "found") /\ r.acct = NoAccount -> {LoanRow}
    [] At(p, Adjustments, "account") -> {LoanRow}
    [] At(p, {"custom"}, "ready") -> {r.n}
    [] At(p, Adjustments \ {"custom"}, "ready") -> PendingFrom(rows, 1)
    [] At(p, {"delete"}, "ready") -> {LoanRow} \cup PendingFrom(rows, 1)
    [] At(p, {"update"}, "begun") \/ At(p, {"reconcile"}, "differs") -> {LoanRow}
    [] OTHER -> {}

MayGoOn(p) == \A x \in Wants(p) : Free(p, x)

\* FOR UPDATE: what is locked stays locked until the end of the request.
Take(p) == lock' = [x \in Locks |-> IF x \in Wants(p) THEN p ELSE lock[x]]

\* What a request puts into its account, when that is known before the loan is
\* locked and paid for out of the account.
Advance(p) ==
  LET r == req[p] IN
  CASE r.op = "create" -> Signed(r.contract.payable, "create", r.contract.principal)
    [] r.op \in Extras -> Signed(seen[p].loan.payable, r.op, r.amt)
    [] OTHER -> 0

\* lockOwnedAccount, and the funds of a loan that is given or of an extra payment.
LockAccount(p) ==
  /\ At(p, {"create", "pay"} \cup Extras, "found")
  /\ req[p].acct # NoAccount
  /\ MayGoOn(p)
  /\ IF Covered(req[p].acct, Advance(p))
     THEN Goto(p, "account", seen[p]) /\ Take(p) /\ UNCHANGED data
     ELSE Refuse(p, "rejected")

\* Nothing is looked at again once an adjustment holds the loan.
LockLoan(p) ==
  /\ \/ At(p, {"pay"} \cup Extras, "account")
     \/ At(p, Adjustments, "found") /\ req[p].acct = NoAccount
  /\ MayGoOn(p)
  /\ Take(p)
  /\ Goto(p, IF req[p].op = "pay" THEN "loan" ELSE "ready", seen[p])
  /\ UNCHANGED data

LockInstallment(p) ==
  /\ At(p, {"pay"}, "loan")
  /\ MayGoOn(p)
  /\ Take(p)
  /\ Goto(p, "ready", seen[p])
  /\ UNCHANGED data

\* A request that ends well: what becomes of the loan, its rows and the row it adds.
Commit(p, l, rs, m, e) ==
  /\ loan' = l /\ rows' = rs
  /\ made' = [made EXCEPT ![p] = m]
  /\ entries' = [entries EXCEPT ![p] = e]
  /\ Finish(p, "done")
  /\ Release(p)

-----------------------------------------------------------------------------
(* createLoan                                                              *)

LookupLoan(p) ==
  /\ At(p, {"create"}, "begun")
  /\ IF Alive THEN Finish(p, "repeated") ELSE Goto(p, "found", Nothing)
  /\ UNCHANGED <<data, lock>>

FirstRows(c) == Rows(Plan(c, c.principal, ResolvedTerm(c), c.io, c.totals))

\* computeLoanSummary
TotalPayable(c) ==
  c.principal + SumFunction([n \in 1 .. ResolvedTerm(c) |-> FirstRows(c)[n].interest])

\* An installment of more than all that is to be paid.
Oversized(c) == c.mode = "INSTALLMENT" /\ c.fixed > TotalPayable(c)

\* The key of the loan and the key of the transaction are unique; whoever comes second
\* finds the loan, unless it was deleted.
CommitCreate(p) ==
  LET r == req[p]
      c == r.contract
      term == ResolvedTerm(c)
      new == FirstRows(c) IN
  /\ At(p, {"create"}, "account") \/ (At(p, {"create"}, "found") /\ r.acct = NoAccount)
  /\ CASE Oversized(c) -> Refuse(p, "rejected")
       [] loan # NoRow \/ (r.acct # NoAccount /\ KeyTaken(r.key)) ->
            Refuse(p, IF Alive THEN "repeated" ELSE "rejected")
       [] OTHER -> Commit(p,
            [alive |-> TRUE, status |-> "ACTIVE", balance |-> c.principal,
             payable |-> c.payable, principal |-> c.principal, style |-> c.style,
             term |-> term, io |-> c.io, rate |-> c.rate, fixed |-> c.fixed],
            [n \in Numbers |-> IF n <= term THEN NewRow(new[n]) ELSE NoRow],
            NoRow,
            IF r.acct = NoAccount THEN NoRow
            ELSE NewEntry(r, Signed(c.payable, "create", c.principal)))

-----------------------------------------------------------------------------
(* registerLoanPayment                                                     *)

\* loadOwnedInstallment
PayableRow(n) == Active(rows, n) /\ Alive

PaidWith(k, n) == \E q \in Procs : Made(q) /\ made[q].op = "pay" /\ made[q].key = k /\ made[q].n = n

\* The installment must be active; then a transaction with the key must be a payment
\* of it, and without one the loan must be active, too.
LookupInstallment(p) ==
  LET r == req[p] IN
  /\ At(p, {"pay"}, "begun")
  /\ CASE Active(rows, r.n) /\ PaidWith(r.key, r.n) -> Finish(p, "repeated")
       [] PayableRow(r.n) /\ ~KeyTaken(r.key) -> Goto(p, "found", Nothing)
       [] OTHER -> Finish(p, "rejected")
  /\ UNCHANGED <<data, lock>>

InterestPart(row, a) == Least(a, Max0(row.interest - row.paidInterest))

\* Interest is paid first.
PaidRow(row, a) ==
  [row EXCEPT !.paidInterest = @ + InterestPart(row, a),
              !.paidPrincipal = @ + (a - InterestPart(row, a)),
              !.status = IF Paid(row) + a >= row.total THEN "PAID" ELSE "PARTIAL"]

\* Slip of Owing: interest counts as repaid.
OwingTotal(row, a) == [loan EXCEPT !.balance = Max0(@ - a)]

\* What the loan says after a payment.
Owing(row, a) == [loan EXCEPT !.balance = Max0(@ - (a - InterestPart(row, a)))]

\* maybeCompleteLoan
MaybeCompleted(l, rs) ==
  IF l.balance = 0 /\ l.status = "ACTIVE" /\ AllSettled(rs)
  THEN [l EXCEPT !.status = "COMPLETED"] ELSE l

\* The installment and the loan are read again under the locks.  A key that was used
\* meanwhile makes it a repeated payment, of whatever installment.
CommitPayment(p) ==
  LET r == req[p]
      row == rows[r.n]
      left == row.total - Paid(row)
      a == IF r.amt = 0 THEN left ELSE r.amt
      principal == a - InterestPart(row, a)
      paid == [rows EXCEPT ![r.n] = PaidRow(row, a)]
      signed == Signed(loan.payable, "pay", a) IN
  /\ At(p, {"pay"}, "ready")
  /\ CASE ~PayableRow(r.n) \/ row.status = "PAID" \/ a <= 0 \/ a > left
            \/ ~Covered(r.acct, signed) -> Refuse(p, "rejected")
       [] KeyTaken(r.key) -> Refuse(p, IF MadeWith({"pay"}, r.key) THEN "repeated" ELSE "rejected")
       [] OTHER ->
            Commit(p, MaybeCompleted(Owing(row, a), paid), paid,
                   [op |-> "pay", n |-> r.n, principal |-> principal,
                    interest |-> a - principal, key |-> r.key],
                   NewEntry(r, signed))

-----------------------------------------------------------------------------
(* addLoanAdjustment                                                       *)

LookupAdjustment(p) ==
  /\ At(p, Adjustments, "begun")
  /\ CASE MadeWith(Adjustments, req[p].key) -> Finish(p, "repeated")
       [] Alive /\ loan.status # "COMPLETED" -> Goto(p, "found", [Nothing EXCEPT !.loan = loan])
       [] OTHER -> Finish(p, "rejected")
  /\ UNCHANGED <<data, lock>>

\* An adjustment that was refused, or whose key was used meanwhile, or that is made.
Adjust(p, refused, l, rs, e) ==
  LET k == req[p].key
      twice == MadeWith(Adjustments, k)
      booked == e # NoRow /\ KeyTaken(k) IN
  IF booked \/ refused \/ twice
  THEN Refuse(p, IF twice /\ (booked \/ ~refused) THEN "repeated" ELSE "rejected")
  ELSE Commit(p, l, rs, [op |-> req[p].op, amt |-> req[p].amt, key |-> k], e)

\* Slip of Discharged: what the installments still ask for is not looked at.
DischargedAtOnce(p) == [loan EXCEPT !.balance = 0, !.status = "COMPLETED"]

\* regenerateScheduleAfterExtraPayment: nothing is owed, and no row without a payment
\* is left; the status is the one that was read before the loan was locked.
Discharged(p) ==
  LET rs == Cleared(rows, 1) IN
  [loan EXCEPT !.balance = 0,
               !.status = IF AllSettled(rs) THEN "COMPLETED" ELSE seen[p].loan.status]

\* Slip of TooMuch: an extra payment is measured against the principal.
MoreThanPrincipal(r) == r.op = "extra" /\ r.amt > loan.principal

TooMuch(r) == r.op = "extra" /\ r.amt > Owed

\* applyExtraMoneyMovement
CommitExtraMoney(p) ==
  LET r == req[p]
      extra == IF r.op = "disburse" THEN Extra + r.amt ELSE Extra - r.amt
      remaining == LedgerBalance(loan.principal, extra, rows)
      pending == PendingFrom(rows, 1)
      e == IF r.acct = NoAccount THEN NoRow
           ELSE NewEntry(r, Signed(loan.payable, r.op, r.amt)) IN
  /\ At(p, Extras, "ready") /\ MayGoOn(p)
  /\ IF remaining = 0
     THEN Adjust(p, TooMuch(r), Discharged(p), Cleared(rows, 1), e)
     ELSE Adjust(p, TooMuch(r) \/ (pending # {} /\ Blocked(loan, rows, Min(pending))),
                 [loan EXCEPT !.balance = remaining],
                 IF pending = {} THEN rows ELSE Regenerated(loan, rows, extra, Min(pending)), e)

\* applyScheduleAdjustment: a rate, a term or an interest-only period.  Whether the
\* term gets shorter is judged by what was read before the loan was locked.
CommitSchedule(p) ==
  LET r == req[p]
      l == CASE r.op = "rate" -> [loan EXCEPT !.rate = r.to]
             [] r.op = "reschedule" -> [loan EXCEPT !.term = r.to]
             [] OTHER -> [loan EXCEPT !.io = r.to]
      kept == IF r.op = "reschedule" /\ r.to < seen[p].loan.term
              THEN Cleared(rows, r.to + 1) ELSE rows
      pending == PendingFrom(kept, 1) IN
  /\ At(p, Schedules, "ready") /\ MayGoOn(p)
  /\ Adjust(p, pending # {} /\ Blocked(l, kept, Min(pending)), l,
            IF pending = {} THEN kept ELSE Regenerated(l, kept, Extra, Min(pending)), NoRow)

\* applyScheduleAdjustment: another total for an installment without a payment.
CommitCustom(p) ==
  LET r == req[p] IN
  /\ At(p, {"custom"}, "ready") /\ MayGoOn(p)
  /\ Adjust(p, r.n \notin PendingFrom(rows, 1), loan,
            [rows EXCEPT ![r.n] = IF @ = NoRow THEN @ ELSE [@ EXCEPT !.total = r.amt]], NoRow)

-----------------------------------------------------------------------------
(* deleteLoan and updateLoan.                                              *)

Touched == \E n \in ActiveRows(rows) : rows[n].status # "PENDING"

CountPayments(p) ==
  /\ At(p, {"delete"}, "begun")
  /\ IF Alive /\ ~Touched THEN Goto(p, "ready", Nothing) ELSE Finish(p, "rejected")
  /\ UNCHANGED <<data, lock>>

\* Slip of CommitDelete: the installments are left.
CommitDeleteLoanOnly(p) ==
  /\ At(p, {"delete"}, "ready") /\ MayGoOn(p)
  /\ IF Alive
     THEN Commit(p, [loan EXCEPT !.alive = FALSE, !.status = "CANCELLED"], rows, made[p], entries[p])
     ELSE Refuse(p, "rejected")

CommitDelete(p) ==
  /\ At(p, {"delete"}, "ready") /\ MayGoOn(p)
  /\ IF Alive
     THEN Commit(p, [loan EXCEPT !.alive = FALSE, !.status = "CANCELLED"],
                 Cleared(rows, 1), made[p], entries[p])
     ELSE Refuse(p, "rejected")

CommitUpdate(p) ==
  /\ At(p, {"update"}, "begun") /\ MayGoOn(p)
  /\ IF Alive
     THEN Commit(p, [loan EXCEPT !.status = req[p].status], rows, made[p], entries[p])
     ELSE Refuse(p, "rejected")

-----------------------------------------------------------------------------
(* reconcileSingleLoan, when a page shows the loan: three reads, no        *)
(* transaction, and a write that asks for the cache it has read.           *)

ReadLoan(p) ==
  /\ At(p, {"reconcile"}, "begun")
  /\ IF Alive THEN Goto(p, "cache", [Nothing EXCEPT !.loan = loan]) ELSE Finish(p, "done")
  /\ UNCHANGED <<data, lock>>

ReadRows(p) ==
  /\ At(p, {"reconcile"}, "cache")
  /\ Goto(p, "paid", [seen[p] EXCEPT !.owed = seen[p].loan.principal - PaidPrincipal(rows),
                                     !.settled = ActiveRows(rows) # {} /\ AllSettled(rows)])
  /\ UNCHANGED <<data, lock>>

Differs(s, owed) == owed # s.loan.balance
ShouldComplete(s, owed) == owed = 0 /\ s.settled /\ s.loan.status = "ACTIVE"

ReadAdjustments(p) ==
  LET s == seen[p]
      owed == Max0(s.owed + Extra) IN
  /\ At(p, {"reconcile"}, "paid")
  /\ IF Differs(s, owed) \/ ShouldComplete(s, owed)
     THEN Goto(p, "differs", [s EXCEPT !.owed = owed])
     ELSE Finish(p, "done")
  /\ UNCHANGED <<data, lock>>

WriteCache(p) ==
  LET s == seen[p] IN
  /\ At(p, {"reconcile"}, "differs") /\ MayGoOn(p)
  /\ IF loan.balance = s.loan.balance
     THEN loan' = [loan EXCEPT !.balance = s.owed,
                               !.status = IF ShouldComplete(s, s.owed) THEN "COMPLETED" ELSE @]
     ELSE UNCHANGED loan
  /\ Finish(p, "done")
  /\ UNCHANGED <<rows, made, entries, lock>>

-----------------------------------------------------------------------------
Next ==
  \E p \in Procs :
    \/ Begin(p) \/ Abort(p)
    \/ LookupLoan(p) \/ LookupInstallment(p) \/ LookupAdjustment(p) \/ CountPayments(p)
    \/ LockAccount(p) \/ LockLoan(p) \/ LockInstallment(p)
    \/ CommitCreate(p) \/ CommitPayment(p)
    \/ CommitExtraMoney(p) \/ CommitSchedule(p) \/ CommitCustom(p)
    \/ CommitDelete(p) \/ CommitUpdate(p)
    \/ ReadLoan(p) \/ ReadRows(p) \/ ReadAdjustments(p) \/ WriteCache(p)

Spec == Init /\ [][Next]_vars

-----------------------------------------------------------------------------
(* Properties.                                                             *)

\* No set of requests waits for one another: whoever holds a row of the loan took the
\* account, the loan and the installment in this order, so someone can always go on.
NoDeadlock ==
  \A S \in (SUBSET Procs) \ {{}} :
    \E p \in S : \A x \in Wants(p) : lock[x] \notin S \ {p}

\* A loan that was deleted asks for nothing more, though adjustments that were under
\* way when it was deleted go on: they find nothing that is left to be rebuilt.
DeletedHasNoPending ==
  loan # NoRow /\ ~loan.alive => PendingFrom(rows, 1) = {}

\* What was paid of an installment stays on it: whatever is rescheduled, rebuilt or
\* deleted, a row that carries a payment stays active and keeps at least as much.
HistoryKept ==
  [][\A n \in ActiveRows(rows) : rows[n].status # "PENDING" =>
       /\ Active(rows', n) /\ rows'[n].status # "PENDING"
       /\ rows'[n].paidPrincipal >= rows[n].paidPrincipal
       /\ rows'[n].paidInterest >= rows[n].paidInterest
       /\ rows'[n].principal = rows[n].principal]_vars

\* A loan is closed only when nothing is owed and no installment asks for anything,
\* unless the user says so, or the cache was wrong: a reconciliation closes what it read.
CompletesOnlyWhenSettled ==
  [][\A p \in Procs :
       /\ pc[p] \in Begun /\ pc'[p] = "done" /\ req[p].op \notin {"update", "reconcile"}
       /\ loan # NoRow /\ loan.balance = Owed
       /\ loan.status # "COMPLETED" /\ loan'.status = "COMPLETED"
       => Owed' = 0 /\ AllSettled(rows')]_vars

\* The cache of what is owed is kept exact by every operation that finds it so, except
\* for a reconciliation.
CacheFollows ==
  [][loan # NoRow /\ loan.balance = Owed => loan'.balance = Owed'
       \/ \E p \in Procs : pc[p] = "differs" /\ pc'[p] = "done"]_vars

\* The sum of what the installments still ask for.
Scheduled(rs) == UnpaidPrincipal(rs, ActiveRows(rs))

\* A schedule that is made, or rebuilt by an adjustment, asks for what is owed, however
\* the loan is amortized: rounding at every row is made good by the last.  Rows beyond
\* the term, which two new terms at once may leave, are not rebuilt.
RebuildCarriesDebt ==
  [][\A p \in Procs :
       /\ pc[p] \in Begun /\ pc'[p] = "done"
       /\ req[p].op \in {"create"} \cup Extras \cup Schedules
       /\ \E n \in PendingFrom(rows', 1) : n <= loan'.term
       => Scheduled(rows') = Owed']_vars

\* A schedule that is rebuilt keeps in step with the debt: "INVARIANT preserved by this
\* function: sum (principalCents - paidPrincipalCents) over ACTIVE installments ===
\* deriveLoanLedgerBalance(loanId)" (regenerateFutureSchedule, loan.service.ts:1084,
\* which is reached when something is owed still and a row is pending).  It does not hold.
ScheduleCarriesDebt ==
  [][\A p \in Procs :
       /\ pc[p] = "ready" /\ pc'[p] = "done" /\ req[p].op \in Extras \cup Schedules
       /\ loan # NoRow /\ Scheduled(rows) = Owed
       /\ Owed' > 0 /\ PendingFrom(rows, 1) # {}
       => Scheduled(rows') = Owed']_vars

\* Seen from outside, a loan is a debt: lent once; more is lent, and some repaid, once
\* for each key, never ahead of time more than is owed.
DebtState == IF loan = NoRow THEN "none" ELSE IF loan.alive THEN "open" ELSE "closed"
DebtLent == (IF loan = NoRow THEN 0 ELSE loan.principal) + Lent("disburse")
DebtRepaid == PaidPrincipal(rows) + Lent("extra")
DebtUsed == {<<IF made[p].op = "pay" THEN "payment" ELSE "adjustment", made[p].key>> :
               p \in {q \in Procs : Made(q)}}

Abstract == INSTANCE Debt WITH
  state <- DebtState, lent <- DebtLent, repaid <- DebtRepaid, used <- DebtUsed
ImplementsDebt == Abstract!Spec
=============================================================================
