---------------------------- MODULE FixedExpenses ----------------------------
(***************************************************************************)
(* Fixed expenses (fixed-expense.actions.ts, fixed-expense.service.ts): a  *)
(* template says how much is due and when; a bill is the payment row of    *)
(* one of its due dates, written ahead of time into a calendar that reaches*)
(* some way back and ahead of today and is filled whenever a page is read. *)
(*                                                                         *)
(* Requests are processes as in Ledger: reads in some steps, one commit.   *)
(* Time is counted in months, a due date is one of them.  The caches of the*)
(* accounts, and what else moves their money, are left to Ledger.          *)
(***************************************************************************)
EXTENDS Integers, FiniteSets

CONSTANTS
  Templates, Accounts, Currencies,
  Opening,      \* what each account holds at first
  CurrencyOf,   \* the currency of an account
  Initial,      \* the templates at first; NoRow: the template does not exist yet
  LastDay,      \* the last day a behaviour comes to; it begins on day 0
  Back, Ahead,  \* how far the calendar reaches: OVERDUE_LOOKBACK_MONTHS and
                \* UPCOMING_HORIZON_MONTHS - 1
  Procs,        \* request slots; a slot serves one request
  Daemons,      \* the slots that read pages again and again
  Keys,         \* idempotency keys of the clients
  RequestsOf,   \* the requests each slot may be given
  MaxInFlight,  \* how many requests run at the same time
  Amounts,      \* the sums that are paid: Nat, or the part of it a run meets
  NoProc, NoRow, NoRequest, NoKey

Days == -Back .. LastDay + Ahead
Due == Templates \X Days

\* When a template falls due is the value of computeDueDates over all days.
Template == [active : BOOLEAN, amt : Nat, cur : Currencies, dates : SUBSET Days]

Ops == {"create", "update", "delete", "page", "pay", "undo", "amend"}

\* plan is what a template is to say, sends names the fields of it that an update
\* carries; pays is the amount to pay (0: the expected one); of is the slot whose
\* payment an undo or an amend is about.  An amend says with pays what the payment
\* is to have cost; an amount that is not positive has the wrong sign.
Request == [op : Ops, tmpl : Templates, plan : Template,
            sends : SUBSET {"amt", "cur", "dates"},
            day : Days, acct : Accounts, pays : Int, key : Keys, of : Procs]

\* A FixedExpensePayment; paid is paidAmountCents, 0 as long as paidDate is null.
Bill == [active : BOOLEAN, due : Nat, cur : Currencies, paid : Nat,
         key : Keys \cup {NoKey}]

\* The Transaction that pays a bill.
Entry == [bill : Due, acct : Accounts, amt : Nat, cur : Currencies, key : Keys,
          active : BOOLEAN]

ASSUME FixedExpensesAssumption ==
  /\ Opening \in [Accounts -> Nat]
  /\ CurrencyOf \in [Accounts -> Currencies]
  /\ Initial \in [Templates -> Template \cup {NoRow}]
  /\ \A t \in Templates : Initial[t] # NoRow => Initial[t].active
  /\ LastDay \in Nat /\ Back \in Nat /\ Ahead \in Nat
  /\ Daemons \subseteq Procs
  /\ Accounts \cap Templates = {}
  /\ MaxInFlight \in Nat \ {0}
  /\ NoProc \notin Procs
  /\ NoRow \notin Template \cup Bill \cup Entry
  /\ NoRequest \notin Request
  /\ NoKey \notin Keys
  /\ \A p \in Procs : \A r \in RequestsOf[p] :
       /\ r \in Request
       /\ r.op \in {"create", "update"} => r.plan.active /\ r.plan.amt > 0
       /\ r.op = "pay" => r.pays \in Nat
       /\ p \in Daemons => r.op = "page"

VARIABLES
  today,
  template,  \* the FixedExpense rows
  bills,     \* the payment row of each due date
  entries,   \* the transaction each slot has made
  funds,     \* the true balance of each account
  lock,      \* the process that holds the row of an account or of a template
  pc, req, seen

data == <<today, template, bills, entries, funds>>
vars == <<today, template, bills, entries, funds, lock, pc, req, seen>>

Begun == {"begun", "read", "locked", "pending", "ready"}
Finished == {"done", "repeated", "rejected", "aborted"}

Nothing == [old |-> [t \in Templates |-> NoRow], day |-> 0, pending |-> {}, known |-> {},
            due |-> 0, row |-> NoRow]
Seen == [old : [Templates -> Template \cup {NoRow}], day : Int,
         pending : SUBSET Days, known : SUBSET Days,
         due : Nat, row : Bill \cup Entry \cup {NoRow}]

\* Every variable keeps its type; a process that has begun has a request.
TypeOK ==
  /\ today \in 0 .. LastDay
  /\ template \in [Templates -> Template \cup {NoRow}]
  /\ bills \in [Due -> Bill \cup {NoRow}]
  /\ entries \in [Procs -> Entry \cup {NoRow}]
  /\ funds \in [Accounts -> Int]
  /\ lock \in [Accounts \cup Templates -> Procs \cup {NoProc}]
  /\ pc \in [Procs -> {"idle"} \cup Begun \cup Finished]
  /\ req \in [Procs -> Request \cup {NoRequest}]
  /\ seen \in [Procs -> Seen]
  /\ \A p \in Procs : pc[p] \in Begun => req[p] \in Request

\* The due dates of a template in the calendar of a day.
DueDates(t, day) == t.dates \cap (day - Back .. day + Ahead)

NewBill(t) == [active |-> TRUE, due |-> t.amt, cur |-> t.cur, paid |-> 0, key |-> NoKey]

Init ==
  /\ today = 0
  /\ template = Initial
  /\ bills = [x \in Due |-> IF Initial[x[1]] # NoRow /\ x[2] \in DueDates(Initial[x[1]], 0)
                            THEN NewBill(Initial[x[1]]) ELSE NoRow]
  /\ entries = [p \in Procs |-> NoRow]
  /\ funds = Opening
  /\ lock = [x \in Accounts \cup Templates |-> NoProc]
  /\ pc = [p \in Procs |-> "idle"]
  /\ req = [p \in Procs |-> NoRequest]
  /\ seen = [p \in Procs |-> Nothing]

-----------------------------------------------------------------------------
(* The control of a request.                                               *)

InFlight == {p \in Procs : pc[p] \in Begun}

At(p, op, label) == pc[p] = label /\ req[p].op = op

Goto(p, label, found) ==
  /\ pc' = [pc EXCEPT ![p] = label]
  /\ seen' = [seen EXCEPT ![p] = found]
  /\ UNCHANGED req

Finish(p, how) ==
  /\ pc' = [pc EXCEPT ![p] = IF p \in Daemons THEN "idle" ELSE how]
  /\ seen' = [seen EXCEPT ![p] = Nothing]
  /\ UNCHANGED req

Proceed(p, ok, label, found) ==
  /\ IF ok THEN Goto(p, label, found) ELSE Finish(p, "rejected")
  /\ UNCHANGED <<data, lock>>

Free(p, x) == lock[x] \in {NoProc, p}

Release(p) == lock' = [x \in DOMAIN lock |-> IF lock[x] = p THEN NoProc ELSE lock[x]]

-----------------------------------------------------------------------------
(* The tables.                                                             *)

Open(t) == template[t] # NoRow /\ template[t].active

Written(x) == bills[x] # NoRow
\* Slip of Pending: the condition on paidDate is forgotten.
PendingOrPaid(x) == Written(x) /\ bills[x].active

Pending(x) == Written(x) /\ bills[x].active /\ bills[x].paid = 0

Paid(x) == Written(x) /\ bills[x].paid > 0

\* loadOwnedPaymentWithTemplate
Payable(x) == Written(x) /\ bills[x].active /\ Open(x[1])

Made(q) == entries[q] # NoRow
KeyTaken(k) == \E q \in Procs : Made(q) /\ entries[q].key = k

\* Transaction.fixedExpensePaymentId is unique, over deleted rows too.
Settled(x) == \E q \in Procs : Made(q) /\ entries[q].bill = x

\* Slip of PaidWith: the transaction of the key may belong to another bill.
PaidWithAny(k, x) == KeyTaken(k)

\* The key belongs to a transaction, and the transaction to this bill.
PaidWith(k, x) == \E q \in Procs : Made(q) /\ entries[q].key = k /\ entries[q].bill = x

\* Slip of Filled: what is overdue is not written.
FilledUpcoming(t, row, day) ==
  [x \in Due |-> IF x[1] = t /\ x[2] \in DueDates(row, day) /\ x[2] >= day /\ ~Written(x)
                 THEN NewBill(row) ELSE bills[x]]

\* generatePayments as pages and new templates use it: whatever has a row, active
\* or not, is left as it is.
Filled(t, row, day) ==
  [x \in Due |-> IF x[1] = t /\ x[2] \in DueDates(row, day) /\ ~Written(x)
                 THEN NewBill(row) ELSE bills[x]]

-----------------------------------------------------------------------------
(* A request arrives.  The first read of a payment looks for its key.      *)

Begin(p) ==
  /\ pc[p] = "idle"
  /\ Cardinality(InFlight) < MaxInFlight
  /\ \E r \in RequestsOf[p] :
       /\ req' = [req EXCEPT ![p] = r]
       /\ pc' = [pc EXCEPT ![p] = IF r.op = "pay" /\ PaidWith(r.key, <<r.tmpl, r.day>>)
                                  THEN "repeated" ELSE "begun"]
  /\ UNCHANGED <<data, lock, seen>>

Abort(p) ==
  /\ pc[p] \in Begun
  /\ Finish(p, "aborted")
  /\ Release(p)
  /\ UNCHANGED data

Tick ==
  /\ today < LastDay
  /\ today' = today + 1
  /\ UNCHANGED <<template, bills, entries, funds, lock, pc, req, seen>>

-----------------------------------------------------------------------------
(* createFixedExpense, and ensureUpcomingPayments, which pages call: it    *)
(* reads the templates outside the transaction that fills the calendar of  *)
(* each.  An insert of a bill does not wait for the row of its template.   *)

\* The id of a template that is created is new, and nobody sees it before its
\* calendar is filled.
CreateTemplate(p) ==
  LET t == req[p].tmpl IN
  /\ At(p, "create", "begun")
  /\ template[t] = NoRow
  /\ template' = [template EXCEPT ![t] = req[p].plan]
  /\ bills' = Filled(t, req[p].plan, today)
  /\ Finish(p, "done")
  /\ UNCHANGED <<today, entries, funds, lock>>

\* What a request remembers of the templates ts.
Read(ts) ==
  [Nothing EXCEPT !.old = [t \in Templates |-> IF t \in ts THEN template[t] ELSE NoRow],
                  !.day = today]

ReadTemplates(p) ==
  LET ts == {t \in Templates : Open(t)} IN
  /\ At(p, "page", "begun")
  /\ IF ts = {} THEN Finish(p, "done") ELSE Goto(p, "read", Read(ts))
  /\ UNCHANGED <<data, lock>>

\* The templates a page has not come to yet.
Left(p) == {t \in Templates : seen[p].old[t] # NoRow}

FillCalendar(p, t) ==
  /\ At(p, "page", "read")
  /\ t \in Left(p)
  /\ bills' = Filled(t, seen[p].old[t], seen[p].day)
  /\ IF Left(p) = {t} THEN Finish(p, "done")
                      ELSE Goto(p, "read", [seen[p] EXCEPT !.old[t] = NoRow])
  /\ UNCHANGED <<today, template, entries, funds, lock>>

-----------------------------------------------------------------------------
(* updateFixedExpense: the update of the template keeps its row until the  *)
(* end; what differs is judged by what was read before.  deleteFixedExpense*)
(* begins in the same way.                                                 *)

ReadTemplate(p) ==
  LET t == req[p].tmpl IN
  /\ At(p, "update", "begun") \/ At(p, "delete", "begun")
  /\ Proceed(p, Open(t), "read", Read({t}))

\* The template old, with the fields that the update carries.
Merged(r, old) ==
  [active |-> old.active,
   amt |-> IF "amt" \in r.sends THEN r.plan.amt ELSE old.amt,
   cur |-> IF "cur" \in r.sends THEN r.plan.cur ELSE old.cur,
   dates |-> IF "dates" \in r.sends THEN r.plan.dates ELSE old.dates]

Changed(r, old, f) == f \in r.sends /\ r.plan[f] # old[f]

\* Slip of LockTemplate: the row is looked at but not locked.
LockTemplateLater(p) ==
  LET t == req[p].tmpl IN
  /\ At(p, "update", "read")
  /\ Proceed(p, Open(t), "locked", seen[p])

LockTemplate(p) ==
  LET t == req[p].tmpl IN
  /\ At(p, "update", "read")
  /\ lock[t] = NoProc
  /\ IF Open(t) THEN Goto(p, "locked", seen[p]) /\ lock' = [lock EXCEPT ![t] = p]
                ELSE Finish(p, "rejected") /\ UNCHANGED lock
  /\ UNCHANGED data

\* The template as it was read.
Old(p) == seen[p].old[req[p].tmpl]

Reschedules(p) == Changed(req[p], Old(p), "dates")

\* What the template is going to say, and when it falls due then.
New(p) == Merged(req[p], template[req[p].tmpl])
NewDates(p) == DueDates(New(p), seen[p].day)

\* syncUnpaidPaymentAmountAndCurrency and then reschedulePayments look for the
\* pending bills, ...
ReadPending(p) ==
  LET t == req[p].tmpl IN
  /\ At(p, "update", "locked")
  /\ Reschedules(p)
  /\ Goto(p, "pending", [seen[p] EXCEPT
            !.day = today, !.pending = {d \in Days : Pending(<<t, d>>)}])
  /\ UNCHANGED <<data, lock>>

\* ... and generatePayments for what the calendar has already.
ReadCalendar(p) ==
  LET t == req[p].tmpl IN
  /\ At(p, "update", "pending")
  /\ Goto(p, "ready", [seen[p] EXCEPT
            !.known = {d \in Days : Written(<<t, d>>) /\ bills[<<t, d>>].active}])
  /\ UNCHANGED <<data, lock>>

\* syncUnpaidPaymentAmountAndCurrency
Synced(p, b) ==
  LET plan == req[p].plan IN
  [b EXCEPT !.due = IF Changed(req[p], Old(p), "amt") THEN plan.amt ELSE @,
            !.cur = IF Changed(req[p], Old(p), "cur") THEN plan.cur ELSE @]

\* The upsert of a due date that was not active when the calendar was read: it
\* writes over whatever row it meets.
Upserted(p, x) ==
  IF Written(x)
  THEN [bills[x] EXCEPT !.active = TRUE, !.due = New(p).amt, !.cur = New(p).cur]
  ELSE NewBill(New(p))

\* A pending bill that is asked for no more goes; the others that were there to be
\* seen follow the template.
Obsolete(p, x) == x[2] >= seen[p].day /\ x[2] \notin NewDates(p)
Revised(p, x) ==
  CASE Reschedules(p) /\ x[2] \in NewDates(p) \ seen[p].known -> Upserted(p, x)
    [] Pending(x) /\ Reschedules(p) /\ x[2] \in seen[p].pending /\ Obsolete(p, x) ->
         [Synced(p, bills[x]) EXCEPT !.active = FALSE]
    [] OTHER -> IF Pending(x) /\ (Reschedules(p) => x[2] \in seen[p].pending)
                THEN Synced(p, bills[x]) ELSE bills[x]

CommitUpdate(p) ==
  LET t == req[p].tmpl IN
  /\ At(p, "update", "ready") \/ (At(p, "update", "locked") /\ ~Reschedules(p))
  /\ template' = [template EXCEPT ![t] = New(p)]
  /\ bills' = [x \in Due |-> IF x[1] = t THEN Revised(p, x) ELSE bills[x]]
  /\ Finish(p, "done")
  /\ Release(p)
  /\ UNCHANGED <<today, entries, funds>>

\* Slip of CommitDelete: only bills from today on are removed.
CommitDeleteUpcoming(p) ==
  LET t == req[p].tmpl IN
  /\ At(p, "delete", "read")
  /\ Free(p, t)
  /\ IF Open(t)
     THEN /\ template' = [template EXCEPT ![t] = [@ EXCEPT !.active = FALSE]]
          /\ bills' = [x \in Due |-> IF x[1] = t /\ Pending(x) /\ x[2] >= today
                                     THEN [bills[x] EXCEPT !.active = FALSE] ELSE bills[x]]
          /\ Finish(p, "done")
          /\ UNCHANGED <<today, entries, funds>>
     ELSE Finish(p, "rejected") /\ UNCHANGED data
  /\ UNCHANGED lock

\* deleteFixedExpense
CommitDelete(p) ==
  LET t == req[p].tmpl IN
  /\ At(p, "delete", "read")
  /\ Free(p, t)
  /\ IF Open(t)
     THEN /\ template' = [template EXCEPT ![t] = [@ EXCEPT !.active = FALSE]]
          /\ bills' = [x \in Due |-> IF x[1] = t /\ Pending(x)
                                     THEN [bills[x] EXCEPT !.active = FALSE] ELSE bills[x]]
          /\ Finish(p, "done")
          /\ UNCHANGED <<today, entries, funds>>
     ELSE Finish(p, "rejected") /\ UNCHANGED data
  /\ UNCHANGED lock

-----------------------------------------------------------------------------
(* payFixedExpense.                                                        *)

BillOf(p) == <<req[p].tmpl, req[p].day>>

\* The currencies of the bill, of its template and of the account agree.
ReadBill(p) ==
  LET x == BillOf(p) IN
  /\ At(p, "pay", "begun")
  /\ Proceed(p,
             /\ Payable(x)
             /\ bills[x].cur = template[x[1]].cur
             /\ bills[x].cur = CurrencyOf[req[p].acct],
             "read", Nothing)

\* Slip of LockAccount: the row is read but not locked.
LockAccountLater(p) ==
  /\ At(p, "pay", "read")
  /\ Proceed(p, TRUE, "locked", Nothing)

LockAccount(p) ==
  LET a == req[p].acct IN
  /\ At(p, "pay", "read")
  /\ lock[a] = NoProc
  /\ Goto(p, "locked", Nothing)
  /\ lock' = [lock EXCEPT ![a] = p]
  /\ UNCHANGED data

Refuse(p, how) == Finish(p, how) /\ Release(p) /\ UNCHANGED data

\* Everything is read again under the lock.
CheckBill(p) ==
  LET x == BillOf(p)
      n == IF req[p].pays = 0 THEN bills[x].due ELSE req[p].pays
      fits == bills[x].cur = CurrencyOf[req[p].acct] /\ n > 0 /\ funds[req[p].acct] >= n
  IN
  /\ At(p, "pay", "locked")
  /\ IF Payable(x) /\ ~Paid(x) /\ fits
     THEN /\ Goto(p, "ready", [Nothing EXCEPT !.due = n, !.row = bills[x]])
          /\ UNCHANGED <<data, lock>>
     ELSE Refuse(p, IF Payable(x) /\ Paid(x) /\ PaidWith(req[p].key, x)
                    THEN "repeated" ELSE "rejected")

\* The unique indexes refuse a key that was used and a bill that was paid; a bill
\* that is no longer pending undoes the insert.
CommitPay(p) ==
  LET x == BillOf(p)
      a == req[p].acct
      n == seen[p].due
      clash == KeyTaken(req[p].key) \/ Settled(x)
  IN
  /\ At(p, "pay", "ready")
  /\ IF ~clash /\ Pending(x)
     THEN /\ entries' = [entries EXCEPT ![p] =
                           [bill |-> x, acct |-> a, amt |-> n, cur |-> seen[p].row.cur,
                            key |-> req[p].key, active |-> TRUE]]
          /\ bills' = [bills EXCEPT ![x] = [@ EXCEPT !.paid = n, !.key = req[p].key]]
          /\ funds' = [funds EXCEPT ![a] = @ - n]
          /\ Finish(p, "done")
          /\ Release(p)
          /\ UNCHANGED <<today, template>>
     ELSE Refuse(p, IF clash /\ Paid(x) /\ bills[x].key = req[p].key
                    THEN "repeated" ELSE "rejected")

-----------------------------------------------------------------------------
(* deleteTransaction and updateTransaction of a transaction that pays a    *)
(* bill: neither looks at the bill, which keeps the amount it was paid with.*)

ReadEntry(p) ==
  LET q == req[p].of IN
  /\ At(p, "undo", "begun") \/ At(p, "amend", "begun")
  /\ Proceed(p, Made(q) /\ entries[q].active, "read", [Nothing EXCEPT !.row = entries[q]])

CommitUndo(p) ==
  LET q == req[p].of
      a == seen[p].row.acct
  IN
  /\ At(p, "undo", "read")
  /\ Free(p, a)
  /\ funds' = [funds EXCEPT ![a] = IF entries[q].active THEN @ + entries[q].amt ELSE @]
  /\ entries' = [entries EXCEPT ![q] = [@ EXCEPT !.active = FALSE]]
  /\ Finish(p, "done")
  /\ UNCHANGED <<today, template, bills, lock>>

\* Slip of CheckAmend: the sign of the new amount is not looked at.
CheckAmendUnsigned(p) ==
  LET e == seen[p].row IN
  /\ At(p, "amend", "read")
  /\ Proceed(p, funds[e.acct] + e.amt - req[p].pays >= 0, "ready", seen[p])

\* assertAmountSignMatchesType and validateExpenseFunds: the account is not locked.
CheckAmend(p) ==
  LET e == seen[p].row IN
  /\ At(p, "amend", "read")
  /\ Proceed(p, req[p].pays > 0 /\ funds[e.acct] + e.amt - req[p].pays >= 0,
             "ready", seen[p])

\* The amount is written whether or not the transaction still is active; the
\* account's row is written, and waited for, only if it differs from what was read.
CommitAmend(p) ==
  LET q == req[p].of
      a == seen[p].row.acct
      new == req[p].pays
  IN
  /\ At(p, "amend", "ready")
  /\ new # seen[p].row.amt => Free(p, a)
  /\ funds' = [funds EXCEPT ![a] =
                  IF entries[q].active THEN @ + entries[q].amt - new ELSE @]
  /\ entries' = [entries EXCEPT ![q] = [@ EXCEPT !.amt = new]]
  /\ Finish(p, "done")
  /\ UNCHANGED <<today, template, bills, lock>>

-----------------------------------------------------------------------------
Calendar(p) == CreateTemplate(p) \/ ReadTemplates(p)
                 \/ \E t \in Templates : FillCalendar(p, t)
Edit(p) == ReadTemplate(p) \/ LockTemplate(p) \/ ReadPending(p) \/ ReadCalendar(p)
             \/ CommitUpdate(p) \/ CommitDelete(p)
Pay(p) == ReadBill(p) \/ LockAccount(p) \/ CheckBill(p) \/ CommitPay(p)
Correct(p) == ReadEntry(p) \/ CommitUndo(p) \/ CheckAmend(p) \/ CommitAmend(p)

Step(p) == Calendar(p) \/ Edit(p) \/ Pay(p) \/ Correct(p)

AllOver == (\A p \in Procs \ Daemons : pc[p] \in Finished) /\ UNCHANGED vars

Next == (\E p \in Procs : Begin(p) \/ Step(p) \/ Abort(p)) \/ Tick \/ AllOver

Spec == Init /\ [][Next]_vars

-----------------------------------------------------------------------------
(* Fairness.  A handler that has begun goes on.  Nobody waits for the row  *)
(* of an account or a template while holding one: there is no deadlock.  Pages  *)
(* are read again and again, and not every reading of one is cut off.      *)

FairSpec ==
  /\ Spec
  /\ \A p \in Procs : WF_vars(Step(p))
  /\ \A p \in Daemons :
       /\ WF_vars(Begin(p)) /\ SF_vars(ReadTemplates(p))
       /\ \A t \in Templates : SF_vars(FillCalendar(p, t))

-----------------------------------------------------------------------------
(* Properties.                                                             *)

\* An edit of the transaction of slot q has committed.
Amended(q) == \E p \in Procs : pc[p] = "done" /\ req[p].op = "amend" /\ req[p].of = q

\* The transaction of slot q and the bill it paid agree.
Agree(q) ==
  LET e == entries[q] IN
  /\ Paid(e.bill) /\ bills[e.bill].active
  /\ bills[e.bill].paid = e.amt \/ Amended(q)
  /\ bills[e.bill].key = e.key
  /\ e.cur = CurrencyOf[e.acct]

\* A bill that shows as paid has a transaction, and the transaction of a bill
\* that it is paid, with the same key, in the currency of the account and, unless
\* the transaction itself was edited, the same amount; no edit or deletion of the
\* template, no page and no deletion of the transaction ever parts them
\* (fixed-expense.actions.ts:246, fixed-expense.service.ts:194).
PaidByItsEntry ==
  /\ \A x \in Due : Paid(x) => Settled(x)
  /\ \A q \in Procs : Made(q) => Agree(q)

\* A payment that is answered with success, the repeated request included, has
\* paid the bill it names with its own key (fixed-expense.actions.ts:349).
AnswerIsTrue ==
  \A p \in Procs :
    pc[p] \in {"done", "repeated"} /\ req[p].op = "pay" =>
      Paid(BillOf(p)) /\ bills[BillOf(p)].key = req[p].key

\* The requests that have to do with the calendar.
Editors ==
  {p \in Procs : req[p] # NoRequest /\ req[p].op \in {"update", "delete", "page"}}

\* As long as at most one request has edited, deleted or filled calendars, a
\* pending bill is one of an open template, asks for what the template says and,
\* unless it is overdue, when it says (fixed-expense.actions.ts:147 and :245):
\* payments that overlap the edit do not leave a bill behind.
FollowsPlan ==
  (\A p, q \in Editors : p = q) =>
    \A x \in Due : Pending(x) =>
      LET t == template[x[1]] IN
      /\ Open(x[1])
      /\ bills[x].due = t.amt /\ bills[x].cur = t.cur
      /\ x[2] \in t.dates \/ x[2] < today

\* A bill that was removed with its template is never brought back, by no page
\* and by no edit that overlapped the deletion (fixed-expense.service.ts:91).
RemovedForGood ==
  [][\A x \in Due :
       Written(x) /\ ~bills[x].active /\ ~Open(x[1]) => bills'[x] = bills[x]]_vars

\* Pages that are read again and again end up with a bill for every due date of
\* every open template that the calendar reaches, wherever today has come to.
CalendarFilled ==
  <>[](\A t \in Templates : Open(t) =>
         \A d \in DueDates(template[t], today) : Written(<<t, d>>))

Settlement(q) == [bill |-> entries[q].bill, acct |-> entries[q].acct,
                  amt |-> entries[q].amt, key |-> entries[q].key]

AllSettled == {Settlement(q) : q \in {x \in Procs : Made(x)}}
AllReturned == {entries[q].bill : q \in {x \in Procs : Made(x) /\ ~entries[x].active}}

TheBills ==
  INSTANCE Bills WITH money <- funds, settled <- AllSettled, returned <- AllReturned

\* However requests overlap, a bill is paid once, with money that is there, a key
\* pays one bill, what an edit makes of the payment moves the difference, and the
\* money comes back once, as much as was last said to have been paid.
ImplementsBills == TheBills!Spec
=============================================================================
