------------------------- MODULE FixedExpensesProofs -------------------------
(***************************************************************************)
(* Theorems about fixed expenses, for every set of templates, accounts,    *)
(* requests and slots and every reach of the calendar: type correctness;   *)
(* nothing but an edit of the transaction parts a paid bill from what paid *)
(* it; an answer of success stays true; a removed bill stays removed;      *)
(* pending bills say what their template says; and, as long as no          *)
(* transaction is edited twice, paying bills is what Bills promises.       *)
(***************************************************************************)
EXTENDS FixedExpenses, TLAPS

\* What a request that has begun, and its slot, rely on: the request is one of
\* the menu; a slot that has made a transaction is through; its deletion and its edit
\* have found it, and the new amount has passed its check; a payment past its checks
\* found a bill in the currency of its account; an edit has found its template.
Served(p) ==
  /\ pc[p] \in Begun => req[p] \in RequestsOf[p]
  /\ Made(p) => pc[p] \notin {"idle"} \cup Begun
  /\ pc[p] \in {"read", "ready"} /\ req[p].op \in {"undo", "amend"} =>
       seen[p].row \in Entry /\ Made(req[p].of)
  /\ At(p, "amend", "ready") => req[p].pays > 0
  /\ At(p, "pay", "ready") => /\ seen[p].row \in Bill
                              /\ seen[p].row.cur = CurrencyOf[req[p].acct]
                              /\ seen[p].due > 0
  /\ pc[p] \in Begun \ {"begun"} /\ req[p].op = "update" =>
       template[req[p].tmpl] \in Template

\* The inductive invariant.
BillsKept == TypeOK /\ PaidByItsEntry /\ \A p \in Procs : Served(p)

-----------------------------------------------------------------------------
\* The bills of the next state: a paid one stays paid, by the same amount and
\* key, and active; no other one is paid.
Respected ==
  \A x \in Due :
    IF Paid(x)
    THEN /\ bills'[x] # NoRow
         /\ bills'[x].paid = bills[x].paid /\ bills'[x].key = bills[x].key
         /\ bills[x].active => bills'[x].active
    ELSE bills'[x] = NoRow \/ bills'[x].paid = 0

\* What a step leaves of the tables when it makes no transaction.
Tables ==
  /\ today' \in 0 .. LastDay
  /\ template' \in [Templates -> Template \cup {NoRow}]
  /\ \A t \in Templates : template[t] # NoRow => template'[t] # NoRow
  /\ bills' \in [Due -> Bill \cup {NoRow}]
  /\ Respected
  /\ entries' = entries
  /\ funds' \in [Accounts -> Int]
  /\ lock' \in [Accounts \cup Templates -> Procs \cup {NoProc}]

LEMMA TablesStay ==
  ASSUME TypeOK, UNCHANGED data, lock' \in [Accounts \cup Templates -> Procs \cup {NoProc}]
  PROVE  Tables
<1>1. Respected
  <2> SUFFICES ASSUME NEW x \in Due, ~Paid(x) PROVE bills[x] = NoRow \/ bills[x].paid = 0
    BY DEF Respected, data, Paid, Written
  <2>1. bills[x] \in Bill \cup {NoRow}
    BY DEF TypeOK
  <2> QED
    BY <2>1 DEF Paid, Written, Bill
<1> QED
  BY <1>1 DEF Tables, TypeOK, data

\* An edit that has committed has done so for ever.
LEMMA AmendedStays ==
  ASSUME NEW p \in Procs, pc[p] # "done",
         \A q \in Procs \ {p} : pc'[q] = pc[q] /\ req'[q] = req[q],
         NEW q \in Procs, Amended(q)
  PROVE  Amended(q)'
BY DEF Amended

LEMMA PaidKept ==
  ASSUME TypeOK, PaidByItsEntry, Tables, \A q \in Procs : Amended(q) => Amended(q)'
  PROVE  PaidByItsEntry'
<1>1. ASSUME NEW x \in Due, Paid(x)' PROVE Settled(x)'
  <2>1. Paid(x)
    BY <1>1 DEF Tables, Respected, Paid, Written
  <2> QED
    BY <2>1 DEF PaidByItsEntry, Settled, Made, Tables
<1>2. ASSUME NEW q \in Procs, Made(q)' PROVE Agree(q)'
  <2>1. entries' = entries /\ Made(q)
    BY <1>2 DEF Tables, Made
  <2>2. entries[q].bill \in Due
    BY <2>1 DEF TypeOK, Entry, Made
  <2> QED
    BY <2>1, <2>2 DEF PaidByItsEntry, Agree, Tables, Respected, Paid, Written
<1> QED
  BY <1>1, <1>2 DEF PaidByItsEntry

LEMMA NothingTypes == Nothing \in Seen
BY DEF Nothing, Seen

LEMMA FinishTypes ==
  ASSUME TypeOK, NEW p \in Procs, NEW how \in Finished, Finish(p, how)
  PROVE  /\ pc' \in [Procs -> {"idle"} \cup Begun \cup Finished]
         /\ req' = req
         /\ seen' \in [Procs -> Seen]
         /\ pc'[p] \notin Begun
         /\ p \notin Daemons => pc'[p] = how
         /\ \A q \in Procs \ {p} : pc'[q] = pc[q] /\ seen'[q] = seen[q]
<1>1. pc'[p] \in {"idle"} \cup Finished
  BY DEF Finish, TypeOK
<1> QED
  BY <1>1, NothingTypes DEF Finish, TypeOK, Finished, Begun

\* Another slot is served as before.
LEMMA OthersServed ==
  ASSUME BillsKept, NEW q \in Procs, pc'[q] = pc[q], req'[q] = req[q], seen'[q] = seen[q],
         template' \in [Templates -> Template \cup {NoRow}],
         \A t \in Templates : template[t] # NoRow => template'[t] # NoRow,
         \A r \in Procs : Made(r) => Made(r)',
         Made(q)' => Made(q)
  PROVE  Served(q)'
<1>1. Served(q) /\ TypeOK
  BY DEF BillsKept
<1>2. pc[q] \in {"read", "ready"} /\ req[q].op \in {"undo", "amend"} => Made(req[q].of)'
  BY <1>1 DEF Served, TypeOK, Request, Begun
<1>3. pc[q] \in Begun \ {"begun"} /\ req[q].op = "update" => template'[req[q].tmpl] \in Template
  <2> SUFFICES ASSUME pc[q] \in Begun \ {"begun"}, req[q].op = "update"
               PROVE  template'[req[q].tmpl] \in Template
    OBVIOUS
  <2>1. req[q].tmpl \in Templates /\ template[req[q].tmpl] \in Template
    BY <1>1 DEF Served, TypeOK, Request
  <2>2. template[req[q].tmpl] # NoRow
    BY <2>1, FixedExpensesAssumption
  <2> QED
    BY <2>1, <2>2
<1> QED
  BY <1>1, <1>2, <1>3 DEF Served, At

\* A request that ends without a transaction leaves everything in order.
LEMMA FinishKeeps ==
  ASSUME BillsKept, NEW p \in Procs, pc[p] \in Begun, NEW how \in Finished, Finish(p, how),
         Tables
  PROVE  BillsKept'
<1>1. TypeOK /\ PaidByItsEntry
  BY DEF BillsKept
<1>2. TypeOK'
  BY <1>1, FinishTypes DEF TypeOK, Tables
<1>3. PaidByItsEntry'
  BY <1>1, FinishTypes, AmendedStays, PaidKept DEF Begun
<1>4. ASSUME NEW q \in Procs PROVE Served(q)'
  <2>1. Made(q)' = Made(q)
    BY DEF Made, Tables
  <2>2. CASE q = p
    <3>1. ~Made(p)
      BY DEF BillsKept, Served
    <3> QED
      BY <1>1, <2>1, <2>2, <3>1, FinishTypes DEF Served, At, Begun
  <2>3. CASE q # p
    BY <1>1, <2>1, <2>3, FinishTypes, OthersServed DEF Tables, Made
  <2> QED
    BY <2>2, <2>3
<1> QED
  BY <1>2, <1>3, <1>4 DEF BillsKept

\* So does one that goes on, if it found what its next steps rely on.
LEMMA GotoKeeps ==
  ASSUME BillsKept, NEW p \in Procs, pc[p] \in Begun, NEW label \in Begun \ {"begun"},
         NEW found \in Seen, Goto(p, label, found), Tables,
         req[p].op \in {"undo", "amend"} => found.row \in Entry /\ Made(req[p].of),
         req[p].op = "amend" /\ label = "ready" => req[p].pays > 0,
         req[p].op = "pay" /\ label = "ready" =>
           found.row \in Bill /\ found.row.cur = CurrencyOf[req[p].acct] /\ found.due > 0,
         req[p].op = "update" => template'[req[p].tmpl] \in Template
  PROVE  BillsKept'
<1>1. TypeOK /\ PaidByItsEntry
  BY DEF BillsKept
<1>0. /\ pc' \in [Procs -> {"idle"} \cup Begun \cup Finished]
      /\ req' = req
      /\ seen' \in [Procs -> Seen]
      /\ pc'[p] = label /\ seen'[p] = found
      /\ \A q \in Procs \ {p} : pc'[q] = pc[q] /\ seen'[q] = seen[q]
  BY <1>1 DEF Goto, TypeOK
<1>2. TypeOK'
  BY <1>0, <1>1 DEF TypeOK, Tables
<1>3. PaidByItsEntry'
  BY <1>0, <1>1, AmendedStays, PaidKept DEF Begun
<1>4. ASSUME NEW q \in Procs PROVE Served(q)'
  <2>1. Made(q)' = Made(q)
    BY DEF Made, Tables
  <2>2. CASE q = p
    <3>1. ~Made(p) /\ req[p] \in RequestsOf[p]
      BY DEF BillsKept, Served
    <3>2. req[p].op \in {"undo", "amend"} => Made(req[p].of)'
      BY <1>0 DEF Made, Tables
    <3> QED
      BY <1>0, <2>1, <2>2, <3>1, <3>2 DEF Served, At
  <2>3. CASE q # p
    BY <1>0, <2>1, <2>3, OthersServed DEF Tables, Made
  <2> QED
    BY <2>2, <2>3
<1> QED
  BY <1>2, <1>3, <1>4 DEF BillsKept

LEMMA ProceedKeeps ==
  ASSUME BillsKept, NEW p \in Procs, pc[p] \in Begun, NEW label \in Begun \ {"begun"},
         NEW ok \in BOOLEAN, NEW found \in Seen, Proceed(p, ok, label, found),
         ok /\ req[p].op \in {"undo", "amend"} => found.row \in Entry /\ Made(req[p].of),
         label = "ready" => req[p].op = "amend" /\ (ok => req[p].pays > 0),
         ok /\ req[p].op = "update" => template[req[p].tmpl] \in Template
  PROVE  BillsKept'
<1>1. UNCHANGED <<data, lock>>
  BY DEF Proceed
<1>2. Tables
  BY <1>1, TablesStay DEF BillsKept, TypeOK
<1>3. CASE ok
  <2>1. Goto(p, label, found)
    BY <1>3 DEF Proceed
  <2> QED
    BY <1>1, <1>2, <1>3, <2>1, GotoKeeps DEF data
<1>4. CASE ~ok
  <2>1. Finish(p, "rejected")
    BY <1>4 DEF Proceed
  <2> QED
    BY <1>2, <2>1, FinishKeeps DEF Finished
<1> QED
  BY <1>3, <1>4

LEMMA ReleaseTypes ==
  ASSUME TypeOK, NEW p \in Procs, Release(p)
  PROVE  lock' \in [Accounts \cup Templates -> Procs \cup {NoProc}]
BY DEF Release, TypeOK

LEMMA RequestTypes ==
  ASSUME TypeOK, NEW p \in Procs, pc[p] \in Begun
  PROVE  /\ req[p] \in Request /\ seen[p] \in Seen
         /\ req[p].tmpl \in Templates /\ req[p].plan \in Template
         /\ req[p].day \in Days /\ req[p].acct \in Accounts
         /\ req[p].pays \in Int /\ req[p].key \in Keys /\ req[p].of \in Procs
         /\ BillOf(p) \in Due
BY DEF TypeOK, Request, BillOf, Due

LEMMA RefuseKeeps ==
  ASSUME BillsKept, NEW p \in Procs, pc[p] \in Begun, NEW how \in Finished, Refuse(p, how)
  PROVE  BillsKept'
<1>1. Finish(p, how) /\ Release(p) /\ UNCHANGED data
  BY DEF Refuse
<1>2. Tables
  BY <1>1, ReleaseTypes, TablesStay DEF BillsKept
<1> QED
  BY <1>1, <1>2, FinishKeeps

LEMMA NewBillTypes ==
  ASSUME NEW t \in Template
  PROVE  NewBill(t) \in Bill /\ NewBill(t).paid = 0 /\ NewBill(t) # NoRow
<1>1. NewBill(t) \in Bill /\ NewBill(t).paid = 0
  BY DEF NewBill, Bill, Template
<1> QED
  BY <1>1, FixedExpensesAssumption

LEMMA ReadTypes ==
  ASSUME TypeOK, NEW ts
  PROVE  Read(ts) \in Seen
<1> DEFINE old == [t \in Templates |-> IF t \in ts THEN template[t] ELSE NoRow]
<1>1. ASSUME NEW f \in [Templates -> Template \cup {NoRow}], NEW n \in Int
      PROVE  [Nothing EXCEPT !.old = f, !.day = n] \in Seen
  BY NothingTypes DEF Seen
<1>2. old \in [Templates -> Template \cup {NoRow}]
  BY DEF TypeOK
<1>3. today \in Int
  BY FixedExpensesAssumption DEF TypeOK
<1>4. Read(ts) = [Nothing EXCEPT !.old = old, !.day = today]
  BY DEF Read
<1> HIDE DEF old
<1> QED
  BY <1>1, <1>2, <1>3, <1>4

\* Filling a calendar writes where nothing is written.
LEMMA FilledRespects ==
  ASSUME TypeOK, NEW t \in Templates, NEW row \in Template, NEW day \in Int,
         bills' = Filled(t, row, day)
  PROVE  bills' \in [Due -> Bill \cup {NoRow}] /\ Respected
<1>1. bills' \in [Due -> Bill \cup {NoRow}]
  BY NewBillTypes DEF Filled, TypeOK
<1>2. ASSUME NEW x \in Due
      PROVE  IF Paid(x)
             THEN /\ bills'[x] # NoRow
                  /\ bills'[x].paid = bills[x].paid /\ bills'[x].key = bills[x].key
                  /\ bills[x].active => bills'[x].active
             ELSE bills'[x] = NoRow \/ bills'[x].paid = 0
  <2>1. CASE Written(x)
    <3>1. bills'[x] = bills[x] /\ bills[x] \in Bill
      BY <2>1 DEF Filled, TypeOK, Written
    <3> QED
      BY <3>1, <2>1 DEF Paid, Written, Bill
  <2>2. CASE ~Written(x)
    <3>1. bills'[x] \in {NewBill(row), NoRow}
      BY <2>2 DEF Filled, Written
    <3> QED
      BY <3>1, <2>2, NewBillTypes DEF Paid
  <2> QED
    BY <2>1, <2>2
<1> QED
  BY <1>1, <1>2 DEF Respected

-----------------------------------------------------------------------------
(* One lemma per group of actions.                                         *)

LEMMA KeptByCalendar ==
  ASSUME BillsKept, NEW p \in Procs, Calendar(p)
  PROVE  BillsKept'
<1>0. TypeOK
  BY DEF BillsKept
<1>1. CASE CreateTemplate(p)
  <2> DEFINE t == req[p].tmpl
  <2>1. /\ pc[p] \in Begun /\ Finish(p, "done")
        /\ template' = [template EXCEPT ![t] = req[p].plan]
        /\ bills' = Filled(t, req[p].plan, today)
        /\ UNCHANGED <<today, entries, funds, lock>>
    BY <1>1 DEF CreateTemplate, At, Begun
  <2>2. t \in Templates /\ req[p].plan \in Template /\ today \in Int
    BY <2>1, <1>0, RequestTypes, FixedExpensesAssumption DEF TypeOK
  <2>3. bills' \in [Due -> Bill \cup {NoRow}] /\ Respected
    BY <2>1, <2>2, <1>0, FilledRespects
  <2>4. /\ template' \in [Templates -> Template \cup {NoRow}]
        /\ \A u \in Templates : template[u] # NoRow => template'[u] # NoRow
    BY <2>1, <2>2, <1>0, FixedExpensesAssumption DEF TypeOK
  <2>5. Tables
    BY <2>1, <2>3, <2>4, <1>0 DEF Tables, TypeOK
  <2> QED
    BY <2>1, <2>5, FinishKeeps DEF Finished
<1>2. CASE ReadTemplates(p)
  <2> DEFINE ts == {t \in Templates : Open(t)}
  <2>1. pc[p] \in Begun /\ req[p].op = "page" /\ UNCHANGED <<data, lock>>
    BY <1>2 DEF ReadTemplates, At, Begun
  <2>2. Tables
    BY <2>1, <1>0, TablesStay DEF TypeOK
  <2>3. Read(ts) \in Seen
    BY <1>0, ReadTypes
  <2>4. Finish(p, "done") \/ Goto(p, "read", Read(ts))
    BY <1>2 DEF ReadTemplates
  <2> HIDE DEF ts
  <2> QED
    BY <2>1, <2>2, <2>3, <2>4, FinishKeeps, GotoKeeps DEF Finished, Begun
<1>3. CASE \E t \in Templates : FillCalendar(p, t)
  <2>1. PICK t \in Templates : FillCalendar(p, t)
    BY <1>3
  <2>2. pc[p] \in Begun /\ req[p].op = "page" /\ UNCHANGED <<today, template, entries, funds, lock>>
    BY <2>1 DEF FillCalendar, At, Begun
  <2>3. seen[p] \in Seen /\ seen[p].old[t] \in Template /\ seen[p].day \in Int
    BY <2>1, <1>0 DEF FillCalendar, Left, Seen, TypeOK
  <2>4. bills' \in [Due -> Bill \cup {NoRow}] /\ Respected
    BY <2>1, <2>3, <1>0, FilledRespects DEF FillCalendar
  <2>5. Tables
    BY <2>2, <2>4, <1>0 DEF Tables, TypeOK
  <2>6. [seen[p] EXCEPT !.old[t] = NoRow] \in Seen
    BY <2>3 DEF Seen
  <2>7. Finish(p, "done") \/ Goto(p, "read", [seen[p] EXCEPT !.old[t] = NoRow])
    BY <2>1 DEF FillCalendar
  <2> QED
    BY <2>2, <2>5, <2>6, <2>7, FinishKeeps, GotoKeeps DEF Finished, Begun
<1> QED
  BY <1>1, <1>2, <1>3 DEF Calendar

\* What an edit does to one bill leaves a paid one paid, and pays none.
LEMMA RevisedRespects ==
  ASSUME TypeOK, NEW p \in Procs, req[p] \in Request, New(p) \in Template,
         NEW x \in Due
  PROVE  /\ Revised(p, x) \in Bill \cup {NoRow}
         /\ IF Paid(x)
            THEN /\ Revised(p, x) # NoRow
                 /\ Revised(p, x).paid = bills[x].paid /\ Revised(p, x).key = bills[x].key
                 /\ bills[x].active => Revised(p, x).active
            ELSE Revised(p, x) = NoRow \/ Revised(p, x).paid = 0
<1>0. bills[x] \in Bill \cup {NoRow} /\ NoRow \notin Bill
  BY FixedExpensesAssumption DEF TypeOK
<1>1. ASSUME NEW b \in Bill
      PROVE  /\ Synced(p, b) \in Bill /\ Synced(p, b).paid = b.paid
             /\ [Synced(p, b) EXCEPT !.active = FALSE] \in Bill
             /\ [Synced(p, b) EXCEPT !.active = FALSE].paid = b.paid
  <2>1. req[p].plan.amt \in Nat /\ req[p].plan.cur \in Currencies
    BY DEF Request, Template
  <2>2. PICK n \in Nat, c \in Currencies : Synced(p, b) = [b EXCEPT !.due = n, !.cur = c]
    <3>1. b.due \in Nat /\ b.cur \in Currencies
      BY DEF Bill
    <3> QED
      BY <2>1, <3>1 DEF Synced
  <2> QED
    BY <2>2 DEF Bill
<1>2. /\ Upserted(p, x) \in Bill
      /\ IF Written(x) THEN /\ Upserted(p, x).paid = bills[x].paid
                            /\ Upserted(p, x).key = bills[x].key
                            /\ Upserted(p, x).active
                       ELSE Upserted(p, x).paid = 0
  <2>1. New(p).amt \in Nat /\ New(p).cur \in Currencies
    BY DEF Template
  <2> QED
    BY <1>0, <2>1, NewBillTypes DEF Upserted, Written, Bill
<1>3. CASE Revised(p, x) = Upserted(p, x)
  BY <1>0, <1>2, <1>3 DEF Paid, Written, Bill
<1>4. CASE Pending(x) /\ Revised(p, x) \in
             {Synced(p, bills[x]), [Synced(p, bills[x]) EXCEPT !.active = FALSE]}
  <2>1. Written(x) /\ bills[x].paid = 0 /\ ~Paid(x)
    BY <1>4 DEF Pending, Paid
  <2>2. bills[x] \in Bill
    BY <1>0, <2>1 DEF Written
  <2> QED
    BY <1>1, <1>4, <2>1, <2>2
<1>5. CASE Revised(p, x) = bills[x]
  BY <1>0, <1>5 DEF Paid, Written, Bill
<1> QED
  BY <1>3, <1>4, <1>5 DEF Revised

LEMMA KeptByUpdate ==
  ASSUME BillsKept, NEW p \in Procs, CommitUpdate(p)
  PROVE  BillsKept'
<1> DEFINE t == req[p].tmpl
<1>0. TypeOK
  BY DEF BillsKept
<1>1. /\ pc[p] \in Begun \ {"begun"} /\ req[p].op = "update"
      /\ Finish(p, "done") /\ Release(p)
      /\ template' = [template EXCEPT ![t] = New(p)]
      /\ bills' = [x \in Due |-> IF x[1] = t THEN Revised(p, x) ELSE bills[x]]
      /\ UNCHANGED <<today, entries, funds>>
  BY DEF CommitUpdate, At, Begun
<1>2. req[p] \in Request /\ t \in Templates /\ template[t] \in Template
  BY <1>0, <1>1, RequestTypes DEF BillsKept, Served
<1>3. New(p) \in Template
  <2>1. req[p].plan \in Template
    BY <1>2 DEF Request
  <2> QED
    BY <1>2, <2>1 DEF New, Merged, Template
<1>4. /\ template' \in [Templates -> Template \cup {NoRow}]
      /\ \A u \in Templates : template[u] # NoRow => template'[u] # NoRow
  BY <1>0, <1>1, <1>2, <1>3, FixedExpensesAssumption DEF TypeOK
<1>5. bills' \in [Due -> Bill \cup {NoRow}]
  BY <1>0, <1>1, <1>2, <1>3, RevisedRespects DEF TypeOK
<1>6. Respected
  <2> SUFFICES ASSUME NEW x \in Due
               PROVE  IF Paid(x)
                      THEN /\ bills'[x] # NoRow
                           /\ bills'[x].paid = bills[x].paid /\ bills'[x].key = bills[x].key
                           /\ bills[x].active => bills'[x].active
                      ELSE bills'[x] = NoRow \/ bills'[x].paid = 0
    BY DEF Respected
  <2>1. CASE x[1] = t
    <3>1. bills'[x] = Revised(p, x)
      BY <1>1, <2>1
    <3> QED
      BY <3>1, <1>0, <1>2, <1>3, RevisedRespects
  <2>2. CASE x[1] # t
    <3>1. bills'[x] = bills[x] /\ bills[x] \in Bill \cup {NoRow}
      BY <1>0, <1>1, <2>2 DEF TypeOK
    <3> QED
      BY <3>1 DEF Paid, Written, Bill
  <2> QED
    BY <2>1, <2>2
<1>7. Tables
  BY <1>0, <1>1, <1>4, <1>5, <1>6, ReleaseTypes DEF Tables, TypeOK
<1> QED
  BY <1>1, <1>7, FinishKeeps DEF Finished, Begun

LEMMA KeptByDelete ==
  ASSUME BillsKept, NEW p \in Procs, CommitDelete(p)
  PROVE  BillsKept'
<1> DEFINE t == req[p].tmpl
<1>0. TypeOK
  BY DEF BillsKept
<1>1. pc[p] \in Begun /\ UNCHANGED lock
  BY DEF CommitDelete, At, Begun
<1>2. CASE ~Open(t)
  <2>1. Finish(p, "rejected") /\ UNCHANGED data
    BY <1>2 DEF CommitDelete
  <2>2. Tables
    BY <1>0, <1>1, <2>1, TablesStay DEF TypeOK
  <2> QED
    BY <1>1, <2>1, <2>2, FinishKeeps DEF Finished
<1>3. CASE Open(t)
  <2>1. /\ Finish(p, "done")
        /\ template' = [template EXCEPT ![t] = [@ EXCEPT !.active = FALSE]]
        /\ bills' = [x \in Due |-> IF x[1] = t /\ Pending(x)
                                   THEN [bills[x] EXCEPT !.active = FALSE] ELSE bills[x]]
        /\ UNCHANGED <<today, entries, funds>>
    BY <1>3 DEF CommitDelete
  <2>2. t \in Templates /\ template[t] \in Template
    BY <1>0, <1>1, <1>3, RequestTypes DEF Open, TypeOK
  <2>3. [template[t] EXCEPT !.active = FALSE] \in Template
    BY <2>2 DEF Template
  <2>4. /\ template' \in [Templates -> Template \cup {NoRow}]
        /\ \A u \in Templates : template[u] # NoRow => template'[u] # NoRow
    BY <1>0, <2>1, <2>2, <2>3, FixedExpensesAssumption DEF TypeOK
  <2>5. ASSUME NEW x \in Due
        PROVE  /\ bills'[x] \in Bill \cup {NoRow}
               /\ IF Paid(x)
                  THEN /\ bills'[x] # NoRow
                       /\ bills'[x].paid = bills[x].paid /\ bills'[x].key = bills[x].key
                       /\ bills[x].active => bills'[x].active
                  ELSE bills'[x] = NoRow \/ bills'[x].paid = 0
    <3>1. bills[x] \in Bill \cup {NoRow} /\ NoRow \notin Bill
      BY <1>0, FixedExpensesAssumption DEF TypeOK
    <3>2. CASE x[1] = t /\ Pending(x)
      <4>1. bills'[x] = [bills[x] EXCEPT !.active = FALSE] /\ bills[x] \in Bill
        BY <2>1, <3>1, <3>2 DEF Pending, Written
      <4>2. bills[x].paid = 0 /\ ~Paid(x)
        BY <3>2 DEF Paid, Pending
      <4>3. bills'[x] \in Bill /\ bills'[x].paid = 0
        BY <4>1, <4>2 DEF Bill
      <4> QED
        BY <4>2, <4>3
    <3>3. CASE ~(x[1] = t /\ Pending(x))
      <4>1. bills'[x] = bills[x]
        BY <2>1, <3>3
      <4> QED
        BY <3>1, <4>1 DEF Bill, Paid, Written
    <3> QED
      BY <3>2, <3>3
  <2>6. bills' \in [Due -> Bill \cup {NoRow}] /\ Respected
    BY <2>1, <2>5 DEF Respected
  <2>7. Tables
    BY <1>0, <1>1, <2>1, <2>4, <2>6 DEF Tables, TypeOK
  <2> QED
    BY <1>1, <2>1, <2>7, FinishKeeps DEF Finished
<1> QED
  BY <1>2, <1>3

LEMMA KeptByEdit ==
  ASSUME BillsKept, NEW p \in Procs, Edit(p)
  PROVE  BillsKept'
<1> DEFINE t == req[p].tmpl
<1>0. TypeOK /\ Served(p)
  BY DEF BillsKept
<1>1. CASE ReadTemplate(p)
  <2>1. /\ pc[p] \in Begun /\ req[p].op \in {"update", "delete"}
        /\ Proceed(p, Open(t), "read", Read({t}))
    BY <1>1 DEF ReadTemplate, At, Begun
  <2>2. t \in Templates
    BY <1>0, <2>1, RequestTypes
  <2>3. Open(t) => template[t] \in Template
    BY <1>0, <2>2 DEF Open, TypeOK
  <2>4. Open(t) \in BOOLEAN
    BY <2>3 DEF Open, Template
  <2>5. Read({t}) \in Seen
    BY <1>0, ReadTypes
  <2> QED
    BY <2>1, <2>3, <2>4, <2>5, ProceedKeeps DEF Begun
<1>2. CASE LockTemplate(p)
  <2>1. pc[p] \in Begun \ {"begun"} /\ req[p].op = "update" /\ UNCHANGED data
    BY <1>2 DEF LockTemplate, At, Begun
  <2>2. t \in Templates /\ template[t] \in Template /\ seen[p] \in Seen
    BY <1>0, <2>1, RequestTypes DEF Served
  <2>3. lock' \in [Accounts \cup Templates -> Procs \cup {NoProc}]
    BY <1>0, <1>2, <2>2 DEF LockTemplate, TypeOK
  <2>4. Tables
    BY <1>0, <2>1, <2>3, TablesStay
  <2>5. Goto(p, "locked", seen[p]) \/ Finish(p, "rejected")
    BY <1>2 DEF LockTemplate
  <2> QED
    BY <2>1, <2>2, <2>4, <2>5, FinishKeeps, GotoKeeps DEF Finished, Begun, data
<1>3. CASE ReadPending(p)
  <2> DEFINE found == [seen[p] EXCEPT !.day = today,
                         !.pending = {d \in Days : Pending(<<t, d>>)}]
  <2>1. /\ pc[p] \in Begun \ {"begun"} /\ req[p].op = "update" /\ UNCHANGED <<data, lock>>
        /\ Goto(p, "pending", found)
    BY <1>3 DEF ReadPending, At, Begun
  <2>2. found \in Seen
    <3>1. today \in Int /\ seen[p] \in Seen
      BY <1>0, FixedExpensesAssumption DEF TypeOK
    <3> QED
      BY <3>1 DEF Seen
  <2>3. template[t] \in Template
    BY <1>0, <2>1 DEF Served
  <2>4. Tables
    BY <1>0, <2>1, TablesStay DEF TypeOK
  <2> HIDE DEF found
  <2> QED
    BY <2>1, <2>2, <2>3, <2>4, GotoKeeps DEF Begun, data
<1>4. CASE ReadCalendar(p)
  <2> DEFINE found == [seen[p] EXCEPT
                         !.known = {d \in Days : Written(<<t, d>>) /\ bills[<<t, d>>].active}]
  <2>1. /\ pc[p] \in Begun \ {"begun"} /\ req[p].op = "update" /\ UNCHANGED <<data, lock>>
        /\ Goto(p, "ready", found)
    BY <1>4 DEF ReadCalendar, At, Begun
  <2>2. found \in Seen
    <3>1. seen[p] \in Seen
      BY <1>0 DEF TypeOK
    <3> QED
      BY <3>1 DEF Seen
  <2>3. template[t] \in Template
    BY <1>0, <2>1 DEF Served
  <2>4. Tables
    BY <1>0, <2>1, TablesStay DEF TypeOK
  <2> HIDE DEF found
  <2> QED
    BY <2>1, <2>2, <2>3, <2>4, GotoKeeps DEF Begun, data
<1> QED
  BY <1>1, <1>2, <1>3, <1>4, KeptByUpdate, KeptByDelete DEF Edit

\* A payment that commits: the bill was pending and had no transaction, and the
\* one it gets agrees with it.
LEMMA KeptByPayment ==
  ASSUME BillsKept, NEW p \in Procs, At(p, "pay", "ready"),
         NEW x \in Due, x = BillOf(p), ~Settled(x), Pending(x),
         entries' = [entries EXCEPT ![p] =
                       [bill |-> x, acct |-> req[p].acct, amt |-> seen[p].due,
                        cur |-> seen[p].row.cur, key |-> req[p].key, active |-> TRUE]],
         bills' = [bills EXCEPT ![x] = [@ EXCEPT !.paid = seen[p].due, !.key = req[p].key]],
         funds' = [funds EXCEPT ![req[p].acct] = @ - seen[p].due],
         Finish(p, "done"), Release(p), UNCHANGED <<today, template>>
  PROVE  BillsKept'
<1> DEFINE e == [bill |-> x, acct |-> req[p].acct, amt |-> seen[p].due,
                 cur |-> seen[p].row.cur, key |-> req[p].key, active |-> TRUE]
           b == [bills[x] EXCEPT !.paid = seen[p].due, !.key = req[p].key]
<1>0. TypeOK /\ PaidByItsEntry /\ Served(p)
  BY DEF BillsKept
<1>1. /\ pc[p] \in Begun /\ req[p].op = "pay" /\ req[p] \in RequestsOf[p]
      /\ seen[p].row \in Bill /\ seen[p].row.cur = CurrencyOf[req[p].acct]
      /\ seen[p].due > 0 /\ seen[p].due \in Nat /\ ~Made(p)
  <2>1. pc[p] \in Begun /\ req[p].op = "pay"
    BY DEF At, Begun
  <2>2. seen[p] \in Seen
    BY <1>0 DEF TypeOK
  <2> QED
    BY <1>0, <2>1, <2>2 DEF Served, Seen
<1>2. req[p].acct \in Accounts /\ req[p].key \in Keys
  BY <1>0, <1>1, RequestTypes
<1>3. e \in Entry /\ e # NoRow
  <2>1. seen[p].row.cur \in Currencies
    BY <1>1 DEF Bill
  <2>2. e \in Entry
    BY <1>1, <1>2, <2>1 DEF Entry
  <2> QED
    BY <2>2, FixedExpensesAssumption
<1>4. /\ b \in Bill /\ b # NoRow
      /\ b.paid = seen[p].due /\ b.key = req[p].key /\ b.active
  <2>1. bills[x] \in Bill /\ bills[x].active
    BY <1>0 DEF TypeOK, Pending, Written
  <2>2. b \in Bill
    BY <1>1, <1>2, <2>1 DEF Bill
  <2>3. b.paid = seen[p].due /\ b.key = req[p].key /\ b.active
    BY <2>1 DEF Bill
  <2> QED
    BY <2>2, <2>3, FixedExpensesAssumption
<1>5. /\ entries'[p] = e /\ \A q \in Procs \ {p} : entries'[q] = entries[q]
      /\ bills'[x] = b /\ \A y \in Due \ {x} : bills'[y] = bills[y]
  BY <1>0 DEF TypeOK
<1>6. TypeOK'
  <2>1. entries' \in [Procs -> Entry \cup {NoRow}] /\ bills' \in [Due -> Bill \cup {NoRow}]
    BY <1>0, <1>3, <1>4 DEF TypeOK
  <2>2. funds' \in [Accounts -> Int]
    BY <1>0, <1>1, <1>2 DEF TypeOK
  <2> QED
    BY <1>0, <2>1, <2>2, FinishTypes, ReleaseTypes DEF TypeOK, Finished
<1>9. \A q \in Procs : Amended(q) => Amended(q)'
  BY <1>0, <1>1, FinishTypes, AmendedStays DEF Begun, Finished
<1>7. PaidByItsEntry'
  <2>1. ASSUME NEW y \in Due, Paid(y)' PROVE Settled(y)'
    <3>1. CASE y = x
      BY <1>3, <1>5, <3>1 DEF Settled, Made
    <3>2. CASE y # x
      <4>1. Paid(y)
        BY <1>5, <2>1, <3>2 DEF Paid, Written
      <4>2. PICK q \in Procs : Made(q) /\ entries[q].bill = y
        BY <1>0, <4>1 DEF PaidByItsEntry, Settled
      <4> QED
        BY <1>1, <1>5, <4>2 DEF Settled, Made
    <3> QED
      BY <3>1, <3>2
  <2>2. ASSUME NEW q \in Procs, Made(q)' PROVE Agree(q)'
    <3>1. CASE q = p
      <4>1. /\ e.bill = x /\ e.amt = seen[p].due /\ e.key = req[p].key
            /\ e.acct = req[p].acct /\ e.cur = CurrencyOf[req[p].acct]
        BY <1>1
      <4> HIDE DEF e, b
      <4> QED
        BY <1>1, <1>4, <1>5, <3>1, <4>1 DEF Agree, Paid, Written
    <3>2. CASE q # p
      <4>1. Made(q) /\ entries'[q] = entries[q]
        BY <1>5, <2>2, <3>2 DEF Made
      <4>2. entries[q].bill \in Due \ {x}
        BY <1>0, <4>1 DEF TypeOK, Made, Entry, Settled
      <4>3. bills'[entries[q].bill] = bills[entries[q].bill]
        BY <1>5, <4>2
      <4> QED
        BY <1>0, <1>9, <4>1, <4>3 DEF PaidByItsEntry, Agree, Paid, Written
    <3> QED
      BY <3>1, <3>2
  <2> QED
    BY <2>1, <2>2 DEF PaidByItsEntry
<1>8. ASSUME NEW q \in Procs PROVE Served(q)'
  <2>1. CASE q = p
    <3>1. p \notin Daemons
      BY <1>1, FixedExpensesAssumption
    <3>2. pc'[p] = "done"
      BY <1>0, <3>1, FinishTypes DEF Finished
    <3> QED
      BY <2>1, <3>2 DEF Served, At, Begun
  <2>2. CASE q # p
    <3>1. pc'[q] = pc[q] /\ req'[q] = req[q] /\ seen'[q] = seen[q]
      BY <1>0, <2>2, FinishTypes DEF Finished
    <3>2. (\A r \in Procs : Made(r) => Made(r)') /\ (Made(q)' => Made(q))
      BY <1>3, <1>5, <2>2 DEF Made
    <3>3. template' \in [Templates -> Template \cup {NoRow}] /\ template' = template
      BY <1>0 DEF TypeOK
    <3> QED
      BY <3>1, <3>2, <3>3, OthersServed
  <2> QED
    BY <2>1, <2>2
<1> QED
  BY <1>6, <1>7, <1>8 DEF BillsKept

LEMMA KeptByPay ==
  ASSUME BillsKept, NEW p \in Procs, Pay(p)
  PROVE  BillsKept'
<1> DEFINE x == BillOf(p)
<1>0. TypeOK /\ Served(p)
  BY DEF BillsKept
<1>1. CASE ReadBill(p)
  <2> DEFINE ok == /\ Payable(x)
                   /\ bills[x].cur = template[x[1]].cur
                   /\ bills[x].cur = CurrencyOf[req[p].acct]
  <2>1. pc[p] \in Begun /\ req[p].op = "pay" /\ Proceed(p, ok, "read", Nothing)
    BY <1>1 DEF ReadBill, At, Begun
  <2>2. ok \in BOOLEAN
    OBVIOUS
  <2> HIDE DEF ok
  <2> QED
    BY <2>1, <2>2, NothingTypes, ProceedKeeps DEF Begun
<1>2. CASE LockAccount(p)
  <2>1. /\ pc[p] \in Begun /\ req[p].op = "pay" /\ UNCHANGED data
        /\ Goto(p, "locked", Nothing) /\ lock' = [lock EXCEPT ![req[p].acct] = p]
    BY <1>2 DEF LockAccount, At, Begun
  <2>2. lock' \in [Accounts \cup Templates -> Procs \cup {NoProc}]
    BY <1>0, <2>1 DEF TypeOK
  <2>3. Tables
    BY <1>0, <2>1, <2>2, TablesStay
  <2> QED
    BY <2>1, <2>3, NothingTypes, GotoKeeps DEF Begun
<1>3. CASE CheckBill(p)
  <2> DEFINE n == IF req[p].pays = 0 THEN bills[x].due ELSE req[p].pays
             found == [Nothing EXCEPT !.due = n, !.row = bills[x]]
  <2>1. pc[p] \in Begun /\ req[p].op = "pay"
    BY <1>3 DEF CheckBill, At, Begun
  <2>2. CASE Goto(p, "ready", found) /\ UNCHANGED <<data, lock>> /\ Written(x) /\ n > 0
             /\ bills[x].cur = CurrencyOf[req[p].acct]
    <3>1. bills[x] \in Bill /\ req[p].pays \in Nat
      <4>1. bills[x] \in Bill
        BY <1>0, <2>1, <2>2, RequestTypes DEF TypeOK, Written
      <4>2. req[p] \in RequestsOf[p]
        BY <1>0, <2>1 DEF Served
      <4> QED
        BY <2>1, <4>1, <4>2, FixedExpensesAssumption
    <3>2. n \in Nat
      BY <3>1 DEF Bill
    <3> HIDE DEF n
    <3>3. found \in Seen /\ found.row = bills[x] /\ found.due = n
      BY <3>1, <3>2, NothingTypes DEF Seen
    <3>4. Tables
      BY <1>0, <2>2, TablesStay DEF TypeOK
    <3> HIDE DEF found
    <3> QED
      BY <2>1, <2>2, <3>1, <3>3, <3>4, GotoKeeps DEF Begun
  <2>3. CASE Refuse(p, "repeated") \/ Refuse(p, "rejected")
    BY <2>1, <2>3, RefuseKeeps DEF Finished
  <2> QED
    BY <1>3, <2>2, <2>3 DEF CheckBill, Payable
<1>4. CASE CommitPay(p)
  <2>1. pc[p] \in Begun /\ At(p, "pay", "ready")
    BY <1>4 DEF CommitPay, At, Begun
  <2>2. x \in Due
    BY <1>0, <2>1, RequestTypes
  <2>3. CASE ~(KeyTaken(req[p].key) \/ Settled(x)) /\ Pending(x)
    BY <1>4, <2>1, <2>2, <2>3, KeptByPayment DEF CommitPay
  <2>4. CASE Refuse(p, "repeated") \/ Refuse(p, "rejected")
    BY <2>1, <2>4, RefuseKeeps DEF Finished
  <2> QED
    BY <1>4, <2>3, <2>4 DEF CommitPay
<1> QED
  BY <1>1, <1>2, <1>3, <1>4 DEF Pay

\* A transaction that is deleted keeps what it says, but for being active; one that
\* is edited keeps all but its amount.
LEMMA KeptByCorrection ==
  ASSUME BillsKept, NEW p \in Procs, Correct(p)
  PROVE  BillsKept'
<1> DEFINE o == req[p].of
<1>0. TypeOK /\ PaidByItsEntry /\ Served(p)
  BY DEF BillsKept
<1>1. CASE ReadEntry(p)
  <2> DEFINE ok == Made(o) /\ entries[o].active
             found == [Nothing EXCEPT !.row = entries[o]]
  <2>1. pc[p] \in Begun /\ req[p].op \in {"undo", "amend"} /\ Proceed(p, ok, "read", found)
    BY <1>1 DEF ReadEntry, At, Begun
  <2>2. entries[o] \in Entry \cup {NoRow}
    BY <1>0, <2>1, RequestTypes DEF TypeOK
  <2>3. found \in Seen /\ found.row = entries[o]
    BY <2>2, NothingTypes DEF Seen
  <2>4. ok => Made(o) /\ found.row \in Entry
    BY <2>2, <2>3 DEF Made
  <2>5. ok \in BOOLEAN
    OBVIOUS
  <2> HIDE DEF ok, found
  <2> QED
    BY <2>1, <2>3, <2>4, <2>5, ProceedKeeps DEF Begun
<1>2. CASE CommitUndo(p)
  <2> DEFINE a == seen[p].row.acct
             e == [entries[o] EXCEPT !.active = FALSE]
  <2>1. /\ pc[p] \in Begun /\ req[p].op = "undo" /\ Finish(p, "done")
        /\ funds' = [funds EXCEPT ![a] = IF entries[o].active THEN @ + entries[o].amt ELSE @]
        /\ entries' = [entries EXCEPT ![o] = e]
        /\ UNCHANGED <<today, template, bills, lock>>
    BY <1>2 DEF CommitUndo, At, Begun
  <2>2. seen[p].row \in Entry /\ Made(o) /\ o \in Procs
    BY <1>0, <1>2, <2>1, RequestTypes DEF CommitUndo, Served, At
  <2>3. entries[o] \in Entry
    BY <1>0, <2>2 DEF TypeOK, Made
  <2>4. /\ e \in Entry /\ e # NoRow
        /\ e.bill = entries[o].bill /\ e.acct = entries[o].acct /\ e.amt = entries[o].amt
        /\ e.cur = entries[o].cur /\ e.key = entries[o].key
    BY <2>3, FixedExpensesAssumption DEF Entry
  <2> HIDE DEF e
  <2>5. entries'[o] = e /\ \A q \in Procs \ {o} : entries'[q] = entries[q]
    BY <1>0, <2>1, <2>2 DEF TypeOK
  <2>6. \A q \in Procs : Made(q)' <=> Made(q)
    BY <2>2, <2>4, <2>5 DEF Made
  <2>7. TypeOK'
    <3>1. entries' \in [Procs -> Entry \cup {NoRow}]
      BY <1>0, <2>1, <2>4 DEF TypeOK
    <3>2. funds' \in [Accounts -> Int]
      <4>1. a \in Accounts /\ entries[o].amt \in Nat
        BY <2>2, <2>3 DEF Entry
      <4> QED
        BY <1>0, <2>1, <4>1 DEF TypeOK
    <3> QED
      BY <1>0, <2>1, <3>1, <3>2, FinishTypes DEF TypeOK, Finished
  <2>10. \A q \in Procs : Amended(q) => Amended(q)'
    BY <1>0, <2>1, FinishTypes, AmendedStays DEF Begun, Finished
  <2>8. PaidByItsEntry'
    <3>1. \A q \in Procs : /\ entries'[q].bill = entries[q].bill
                           /\ entries'[q].acct = entries[q].acct
                           /\ entries'[q].amt = entries[q].amt
                           /\ entries'[q].cur = entries[q].cur
                           /\ entries'[q].key = entries[q].key
      BY <2>4, <2>5
    <3>2. ASSUME NEW x \in Due, Paid(x)' PROVE Settled(x)'
      <4>1. Settled(x)
        BY <1>0, <2>1, <3>2 DEF PaidByItsEntry, Paid, Written
      <4> QED
        BY <2>6, <3>1, <4>1 DEF Settled
    <3>3. ASSUME NEW q \in Procs, Made(q)' PROVE Agree(q)'
      BY <1>0, <2>1, <2>6, <2>10, <3>1, <3>3 DEF PaidByItsEntry, Agree, Paid, Written
    <3> QED
      BY <3>2, <3>3 DEF PaidByItsEntry
  <2>9. ASSUME NEW q \in Procs PROVE Served(q)'
    <3>1. CASE q = p
      <4>1. ~Made(p)
        BY <1>0, <2>1 DEF Served
      <4> QED
        BY <1>0, <2>1, <2>6, <3>1, <4>1, FinishTypes DEF Served, At, Begun, Finished
    <3>2. CASE q # p
      <4>1. pc'[q] = pc[q] /\ req'[q] = req[q] /\ seen'[q] = seen[q]
        BY <1>0, <2>1, <3>2, FinishTypes DEF Finished
      <4>2. template' = template /\ template' \in [Templates -> Template \cup {NoRow}]
        BY <1>0, <2>1 DEF TypeOK
      <4> QED
        BY <2>6, <4>1, <4>2, OthersServed
    <3> QED
      BY <3>1, <3>2
  <2> QED
    BY <2>7, <2>8, <2>9 DEF BillsKept
<1>3. CASE CheckAmend(p)
  <2> DEFINE e == seen[p].row
             ok == req[p].pays > 0 /\ funds[e.acct] + e.amt - req[p].pays >= 0
  <2>1. pc[p] = "read" /\ pc[p] \in Begun /\ req[p].op = "amend" /\ Proceed(p, ok, "ready", seen[p])
    BY <1>3 DEF CheckAmend, At, Begun
  <2>2. seen[p] \in Seen /\ seen[p].row \in Entry /\ Made(req[p].of)
    BY <1>0, <2>1 DEF Served, TypeOK
  <2>3. ok \in BOOLEAN /\ (ok => req[p].pays > 0)
    OBVIOUS
  <2> HIDE DEF ok
  <2> QED
    BY <2>1, <2>2, <2>3, ProceedKeeps DEF Begun
<1>4. CASE CommitAmend(p)
  <2> DEFINE a == seen[p].row.acct
             new == req[p].pays
             e == [entries[o] EXCEPT !.amt = new]
  <2>1. /\ pc[p] \in Begun /\ At(p, "amend", "ready") /\ Finish(p, "done")
        /\ funds' = [funds EXCEPT ![a] = IF entries[o].active THEN @ + entries[o].amt - new ELSE @]
        /\ entries' = [entries EXCEPT ![o] = e]
        /\ UNCHANGED <<today, template, bills, lock>>
    BY <1>4 DEF CommitAmend, At, Begun
  <2>2. seen[p].row \in Entry /\ Made(o) /\ o \in Procs
    BY <1>0, <1>4, <2>1, RequestTypes DEF CommitAmend, Served, At
  <2>3. entries[o] \in Entry /\ new \in Nat
    <3>1. new \in Int /\ new > 0
      BY <1>0, <2>1, RequestTypes DEF Served
    <3> QED
      BY <1>0, <2>2, <3>1 DEF TypeOK, Made
  <2>4. /\ e \in Entry /\ e # NoRow
        /\ e.bill = entries[o].bill /\ e.acct = entries[o].acct
        /\ e.cur = entries[o].cur /\ e.key = entries[o].key
    BY <2>3, FixedExpensesAssumption DEF Entry
  <2> HIDE DEF e, new
  <2>5. entries'[o] = e /\ \A q \in Procs \ {o} : entries'[q] = entries[q]
    BY <1>0, <2>1, <2>2 DEF TypeOK
  <2>6. \A q \in Procs : Made(q)' <=> Made(q)
    BY <2>2, <2>4, <2>5 DEF Made
  <2>7. TypeOK'
    <3>1. entries' \in [Procs -> Entry \cup {NoRow}]
      BY <1>0, <2>1, <2>4 DEF TypeOK
    <3>2. funds' \in [Accounts -> Int]
      <4>1. a \in Accounts /\ entries[o].amt \in Nat
        BY <2>2, <2>3 DEF Entry
      <4> QED
        BY <1>0, <2>1, <2>3, <4>1 DEF TypeOK
    <3> QED
      BY <1>0, <2>1, <3>1, <3>2, FinishTypes DEF TypeOK, Finished
  <2>10. \A q \in Procs : Amended(q) => Amended(q)'
    BY <1>0, <2>1, FinishTypes, AmendedStays DEF Begun, Finished
  <2>8. PaidByItsEntry'
    <3>1. \A q \in Procs : /\ entries'[q].bill = entries[q].bill
                           /\ entries'[q].acct = entries[q].acct
                           /\ entries'[q].cur = entries[q].cur
                           /\ entries'[q].key = entries[q].key
      BY <2>4, <2>5
    <3>2. ASSUME NEW x \in Due, Paid(x)' PROVE Settled(x)'
      <4>1. Settled(x)
        BY <1>0, <2>1, <3>2 DEF PaidByItsEntry, Paid, Written
      <4> QED
        BY <2>6, <3>1, <4>1 DEF Settled
    <3>3. \A q \in Procs : q = o => Amended(q)'
      <4>1. req[p] \in RequestsOf[p]
        BY <1>0, <2>1 DEF Served
      <4>2. p \notin Daemons
        BY <2>1, <4>1, FixedExpensesAssumption DEF At
      <4> QED
        BY <1>0, <2>1, <4>2, FinishTypes DEF Amended, At, Finished
    <3>4. ASSUME NEW q \in Procs, Made(q)' PROVE Agree(q)'
      <4>1. /\ Made(q) /\ Agree(q)
            /\ Amended(q)' \/ (entries'[q].amt = entries[q].amt /\ (Amended(q) => Amended(q)'))
        <5>1. CASE q = o
          BY <1>0, <2>6, <3>3, <3>4, <5>1 DEF PaidByItsEntry
        <5>2. CASE q # o
          BY <1>0, <2>5, <2>6, <2>10, <3>4, <5>2 DEF PaidByItsEntry
        <5> QED
          BY <5>1, <5>2
      <4> QED
        BY <2>1, <3>1, <4>1 DEF Agree, Paid, Written
    <3> QED
      BY <3>2, <3>4 DEF PaidByItsEntry
  <2>9. ASSUME NEW q \in Procs PROVE Served(q)'
    <3>1. CASE q = p
      <4>1. ~Made(p)
        BY <1>0, <2>1 DEF Served
      <4> QED
        BY <1>0, <2>1, <2>6, <3>1, <4>1, FinishTypes DEF Served, At, Begun, Finished
    <3>2. CASE q # p
      <4>1. pc'[q] = pc[q] /\ req'[q] = req[q] /\ seen'[q] = seen[q]
        BY <1>0, <2>1, <3>2, FinishTypes DEF Finished
      <4>2. template' = template /\ template' \in [Templates -> Template \cup {NoRow}]
        BY <1>0, <2>1 DEF TypeOK
      <4> QED
        BY <2>6, <4>1, <4>2, OthersServed
    <3> QED
      BY <3>1, <3>2
  <2> QED
    BY <2>7, <2>8, <2>9 DEF BillsKept
<1> QED
  BY <1>1, <1>2, <1>3, <1>4 DEF Correct

LEMMA KeptByBegin ==
  ASSUME BillsKept, NEW p \in Procs, Begin(p)
  PROVE  BillsKept'
<1>0. TypeOK /\ PaidByItsEntry /\ Served(p)
  BY DEF BillsKept
<1>1. PICK r \in RequestsOf[p] :
        /\ req' = [req EXCEPT ![p] = r]
        /\ \E label \in {"repeated", "begun"} : pc' = [pc EXCEPT ![p] = label]
  BY DEF Begin
<1>2. PICK label \in {"repeated", "begun"} : pc' = [pc EXCEPT ![p] = label]
  BY <1>1
<1>3. r \in Request /\ pc[p] = "idle" /\ UNCHANGED <<data, lock, seen>>
  BY FixedExpensesAssumption DEF Begin
<1>4. /\ pc'[p] = label /\ req'[p] = r
      /\ \A q \in Procs \ {p} : pc'[q] = pc[q] /\ req'[q] = req[q]
  BY <1>0, <1>1, <1>2 DEF TypeOK
<1>5. TypeOK'
  BY <1>0, <1>1, <1>2, <1>3, <1>4 DEF TypeOK, data, Begun, Finished
<1>6. PaidByItsEntry'
  <2>1. \A q \in Procs : Amended(q) => Amended(q)'
    BY <1>3, <1>4, AmendedStays
  <2> QED
    BY <1>0, <1>3, <2>1 DEF PaidByItsEntry, Agree, Paid, Written, Settled, Made, data
<1>7. ASSUME NEW q \in Procs PROVE Served(q)'
  <2>1. Made(q)' <=> Made(q)
    BY <1>3 DEF Made, data
  <2>2. CASE q = p
    <3>1. ~Made(p)
      BY <1>0, <1>3 DEF Served
    <3> QED
      BY <1>4, <2>1, <2>2, <3>1 DEF Served, At, Begun
  <2>3. CASE q # p
    BY <1>0, <1>3, <1>4, <2>1, <2>3, OthersServed DEF TypeOK, Made, data
  <2> QED
    BY <2>2, <2>3
<1> QED
  BY <1>5, <1>6, <1>7 DEF BillsKept

-----------------------------------------------------------------------------
LEMMA BillsKeptAtFirst == Init => BillsKept
<1> SUFFICES ASSUME Init PROVE BillsKept
  OBVIOUS
<1>1. bills \in [Due -> Bill \cup {NoRow}] /\ \A x \in Due : ~Paid(x)
  <2>1. ASSUME NEW x \in Due
        PROVE  /\ bills[x] \in Bill \cup {NoRow}
               /\ bills[x] = NoRow \/ bills[x].paid = 0
    <3>1. Initial[x[1]] \in Template \cup {NoRow}
      BY FixedExpensesAssumption DEF Due
    <3> QED
      BY <3>1, NewBillTypes DEF Init
  <2> QED
    BY <2>1 DEF Init, Paid, Written
<1>2. \A p \in Procs : ~Made(p) /\ pc[p] = "idle"
  BY DEF Init, Made
<1>3. TypeOK
  BY <1>1, <1>2, NothingTypes, FixedExpensesAssumption DEF Init, TypeOK, Begun
<1>4. PaidByItsEntry
  BY <1>1, <1>2 DEF PaidByItsEntry
<1>5. \A p \in Procs : Served(p)
  BY <1>2 DEF Served, At, Begun
<1> QED
  BY <1>3, <1>4, <1>5 DEF BillsKept

LEMMA BillsStayKept == BillsKept /\ [Next]_vars => BillsKept'
<1> SUFFICES ASSUME BillsKept, [Next]_vars PROVE BillsKept'
  OBVIOUS
<1>0. TypeOK
  BY DEF BillsKept
<1>1. CASE \E p \in Procs : Begin(p)
  BY <1>1, KeptByBegin
<1>2. CASE \E p \in Procs : Step(p)
  BY <1>2, KeptByCalendar, KeptByEdit, KeptByPay, KeptByCorrection DEF Step
<1>3. CASE \E p \in Procs : Abort(p)
  <2>1. PICK p \in Procs : Abort(p)
    BY <1>3
  <2>2. pc[p] \in Begun /\ Finish(p, "aborted") /\ Tables
    BY <1>0, <2>1, ReleaseTypes, TablesStay DEF Abort
  <2> QED
    BY <2>2, FinishKeeps DEF Finished
<1>4. CASE Tick
  <2>1. TypeOK'
    BY <1>0, <1>4, FixedExpensesAssumption DEF Tick, TypeOK
  <2>2. PaidByItsEntry' /\ \A p \in Procs : Served(p)'
    BY <1>4 DEF Tick, BillsKept, PaidByItsEntry, Agree, Amended, Paid, Written, Settled,
                Made, Served, At
  <2> QED
    BY <2>1, <2>2 DEF BillsKept
<1>5. CASE UNCHANGED vars
  <2>1. TypeOK'
    BY <1>0, <1>5 DEF vars, TypeOK
  <2>2. PaidByItsEntry' /\ \A p \in Procs : Served(p)'
    BY <1>5 DEF vars, BillsKept, PaidByItsEntry, Agree, Amended, Paid, Written, Settled,
                Made, Served, At
  <2> QED
    BY <2>1, <2>2 DEF BillsKept
<1> QED
  BY <1>1, <1>2, <1>3, <1>4, <1>5 DEF Next, AllOver

\* Whatever the requests and their order: every variable keeps its type.
THEOREM BillsTypeCorrect == Spec => []TypeOK
<1>1. BillsKept => TypeOK
  BY DEF BillsKept
<1> QED
  BY <1>1, BillsKeptAtFirst, BillsStayKept, PTL DEF Spec

\* Whatever the requests and their order: a bill shows as paid exactly when a
\* transaction says so, both say the same key and, unless the transaction itself was
\* edited, the same amount: nothing but that edit, which no code keeps from a bill
\* (transaction.actions.ts:737), parts them (fixed-expense.actions.ts:246,
\* fixed-expense.service.ts:194).
THEOREM PaidNeverParted == Spec => []PaidByItsEntry
<1>1. BillsKept => PaidByItsEntry
  BY DEF BillsKept
<1> QED
  BY <1>1, BillsKeptAtFirst, BillsStayKept, PTL DEF Spec
-----------------------------------------------------------------------------
(* What a step leaves alone.                                               *)

Lockable == Accounts \cup Templates

\* Only p moves, and nobody else loses a row.
Moves(p) ==
  \A q \in Procs \ {p} :
    /\ pc'[q] = pc[q] /\ req'[q] = req[q] /\ seen'[q] = seen[q]
    /\ \A x \in Lockable : lock[x] = q => lock'[x] = q

LEMMA ReleaseMoves ==
  ASSUME TypeOK, NEW p \in Procs, Release(p)
  PROVE  \A q \in Procs \ {p} : \A x \in Lockable : lock[x] = q => lock'[x] = q
BY DEF Release, TypeOK, Lockable

LEMMA FinishMoves ==
  ASSUME TypeOK, NEW p \in Procs, NEW how \in Finished, Finish(p, how),
         Release(p) \/ UNCHANGED lock
  PROVE  Moves(p)
BY FinishTypes, ReleaseMoves DEF Finish, Moves

LEMMA GotoMoves ==
  ASSUME TypeOK, NEW p \in Procs, NEW label, NEW found, Goto(p, label, found),
         \A q \in Procs \ {p} : \A x \in Lockable : lock[x] = q => lock'[x] = q
  PROVE  Moves(p) /\ pc'[p] = label /\ seen'[p] = found /\ req' = req
BY DEF Goto, Moves, TypeOK

LEMMA ProceedMoves ==
  ASSUME TypeOK, NEW p \in Procs, NEW ok, NEW label, NEW found, Proceed(p, ok, label, found)
  PROVE  Moves(p)
<1>1. Goto(p, label, found) \/ Finish(p, "rejected")
  BY DEF Proceed
<1> QED
  BY <1>1, FinishMoves, GotoMoves DEF Proceed, Finished

LEMMA RefuseMoves ==
  ASSUME TypeOK, NEW p \in Procs, NEW how \in Finished, Refuse(p, how)
  PROVE  Moves(p)
BY FinishMoves DEF Refuse

LEMMA StepMoves ==
  ASSUME TypeOK, NEW p \in Procs, Begin(p) \/ Step(p) \/ Abort(p)
  PROVE  Moves(p)
<1>1. CASE Begin(p)
  BY <1>1 DEF Begin, Moves, TypeOK
<1>2. CASE Abort(p)
  BY <1>2, FinishMoves DEF Abort, Finished
<1>3. CASE Calendar(p)
  <2>1. CASE CreateTemplate(p)
    BY <2>1, FinishMoves DEF CreateTemplate, Finished
  <2>2. CASE ReadTemplates(p)
    BY <2>2, FinishMoves, GotoMoves DEF ReadTemplates, Finished
  <2>3. ASSUME NEW t \in Templates, FillCalendar(p, t) PROVE Moves(p)
    BY <2>3, FinishMoves, GotoMoves DEF FillCalendar, Finished
  <2> QED
    BY <1>3, <2>1, <2>2, <2>3 DEF Calendar
<1>4. CASE Edit(p)
  <2>1. CASE ReadTemplate(p)
    BY <2>1, ProceedMoves DEF ReadTemplate
  <2>2. CASE LockTemplate(p)
    <3>1. pc[p] \in Begun /\ req[p].tmpl \in Lockable /\ lock[req[p].tmpl] = NoProc
      BY <2>2, RequestTypes DEF LockTemplate, At, Begun, Lockable
    <3>2. CASE Finish(p, "rejected") /\ UNCHANGED lock
      BY <3>2, FinishMoves DEF Finished
    <3>3. CASE Goto(p, "locked", seen[p]) /\ lock' = [lock EXCEPT ![req[p].tmpl] = p]
      <4>1. \A q \in Procs \ {p} : \A x \in Lockable : lock[x] = q => lock'[x] = q
        BY <3>1, <3>3, FixedExpensesAssumption DEF TypeOK, Lockable
      <4> QED
        BY <3>3, <4>1, GotoMoves
    <3> QED
      BY <2>2, <3>2, <3>3 DEF LockTemplate
  <2>3. CASE ReadPending(p)
    BY <2>3, GotoMoves DEF ReadPending
  <2>4. CASE ReadCalendar(p)
    BY <2>4, GotoMoves DEF ReadCalendar
  <2>5. CASE CommitUpdate(p)
    BY <2>5, FinishMoves DEF CommitUpdate, Finished
  <2>6. CASE CommitDelete(p)
    BY <2>6, FinishMoves DEF CommitDelete, Finished
  <2> QED
    BY <1>4, <2>1, <2>2, <2>3, <2>4, <2>5, <2>6 DEF Edit
<1>5. CASE Pay(p)
  <2>1. CASE ReadBill(p)
    BY <2>1, ProceedMoves DEF ReadBill
  <2>2. CASE LockAccount(p)
    <3>1. req[p].acct \in Lockable /\ lock[req[p].acct] = NoProc
      BY <2>2, RequestTypes DEF LockAccount, At, Begun, Lockable
    <3>2. Goto(p, "locked", Nothing) /\ lock' = [lock EXCEPT ![req[p].acct] = p]
      BY <2>2 DEF LockAccount
    <3>3. \A q \in Procs \ {p} : \A x \in Lockable : lock[x] = q => lock'[x] = q
      BY <3>1, <3>2, FixedExpensesAssumption DEF TypeOK, Lockable
    <3> QED
      BY <3>2, <3>3, GotoMoves
  <2>3. CASE CheckBill(p)
    <3> DEFINE x == BillOf(p)
               n == IF req[p].pays = 0 THEN bills[x].due ELSE req[p].pays
    <3>1. \/ Goto(p, "ready", [Nothing EXCEPT !.due = n, !.row = bills[x]]) /\ UNCHANGED lock
          \/ Refuse(p, "repeated") \/ Refuse(p, "rejected")
      BY <2>3 DEF CheckBill
    <3> HIDE DEF n, x
    <3> QED
      BY <3>1, RefuseMoves, GotoMoves DEF Finished
  <2>4. CASE CommitPay(p)
    <3>1. \/ Finish(p, "done") /\ Release(p)
          \/ Refuse(p, "repeated") \/ Refuse(p, "rejected")
      BY <2>4 DEF CommitPay
    <3> QED
      BY <3>1, RefuseMoves, FinishMoves DEF Finished
  <2> QED
    BY <1>5, <2>1, <2>2, <2>3, <2>4 DEF Pay
<1>6. CASE Correct(p)
  <2>1. CASE ReadEntry(p)
    BY <2>1, ProceedMoves DEF ReadEntry
  <2>2. CASE CommitUndo(p)
    BY <2>2, FinishMoves DEF CommitUndo, Finished
  <2>3. CASE CheckAmend(p)
    BY <2>3, ProceedMoves DEF CheckAmend
  <2>4. CASE CommitAmend(p)
    BY <2>4, FinishMoves DEF CommitAmend, Finished
  <2> QED
    BY <1>6, <2>1, <2>2, <2>3, <2>4 DEF Correct
<1> QED
  BY <1>1, <1>2, <1>3, <1>4, <1>5, <1>6 DEF Step
-----------------------------------------------------------------------------
(* How money moves.                                                        *)

\* The commit of a payment that is not refused.
Pays(p) ==
  LET x == BillOf(p)
      a == req[p].acct
      n == seen[p].due IN
  /\ At(p, "pay", "ready")
  /\ ~KeyTaken(req[p].key) /\ ~Settled(x) /\ Pending(x)
  /\ entries' = [entries EXCEPT ![p] =
                   [bill |-> x, acct |-> a, amt |-> n, cur |-> seen[p].row.cur,
                    key |-> req[p].key, active |-> TRUE]]
  /\ bills' = [bills EXCEPT ![x] = [@ EXCEPT !.paid = n, !.key = req[p].key]]
  /\ funds' = [funds EXCEPT ![a] = @ - n]
  /\ Finish(p, "done") /\ Release(p)
  /\ UNCHANGED <<today, template>>

LEMMA PaysIs ==
  ASSUME BillsKept, NEW p \in Procs, Pays(p)
  PROVE  LET x == BillOf(p) IN
         /\ pc[p] \in Begun /\ x \in Due /\ ~Made(p) /\ seen[p].due > 0 /\ seen[p].due \in Nat
         /\ req[p].acct \in Accounts /\ req[p].key \in Keys /\ p \notin Daemons
         /\ entries'[p] # NoRow
         /\ entries'[p].bill = x /\ entries'[p].acct = req[p].acct
         /\ entries'[p].amt = seen[p].due /\ entries'[p].key = req[p].key /\ entries'[p].active
         /\ \A q \in Procs \ {p} : entries'[q] = entries[q]
         /\ funds'[req[p].acct] = funds[req[p].acct] - seen[p].due
         /\ \A a \in Accounts \ {req[p].acct} : funds'[a] = funds[a]
         /\ bills'[x] # NoRow /\ bills'[x].paid = seen[p].due /\ bills'[x].key = req[p].key
         /\ \A y \in Due \ {x} : bills'[y] = bills[y]
<1> DEFINE x == BillOf(p)
           e == [bill |-> x, acct |-> req[p].acct, amt |-> seen[p].due,
                 cur |-> seen[p].row.cur, key |-> req[p].key, active |-> TRUE]
           b == [bills[x] EXCEPT !.paid = seen[p].due, !.key = req[p].key]
<1>0. TypeOK /\ Served(p)
  BY DEF BillsKept
<1>1. /\ pc[p] \in Begun /\ req[p].op = "pay" /\ req[p] \in RequestsOf[p]
      /\ seen[p].row \in Bill /\ seen[p].due > 0 /\ seen[p].due \in Nat /\ ~Made(p)
  <2>1. pc[p] \in Begun /\ req[p].op = "pay" /\ At(p, "pay", "ready")
    BY DEF Pays, At, Begun
  <2>2. seen[p] \in Seen
    BY <1>0 DEF TypeOK
  <2> QED
    BY <1>0, <2>1, <2>2 DEF Served, Seen
<1>2. req[p].acct \in Accounts /\ req[p].key \in Keys /\ x \in Due
  BY <1>0, <1>1, RequestTypes
<1>3. p \notin Daemons
  BY <1>1, FixedExpensesAssumption
<1>4. e \in Entry /\ e # NoRow
  <2>1. seen[p].row.cur \in Currencies
    BY <1>1 DEF Bill
  <2>2. e \in Entry
    BY <1>1, <1>2, <2>1 DEF Entry
  <2> QED
    BY <2>2, FixedExpensesAssumption
<1>5. b # NoRow /\ b.paid = seen[p].due /\ b.key = req[p].key
  <2>1. bills[x] \in Bill
    BY <1>0, <1>2 DEF TypeOK, Pays, Pending, Written
  <2>2. b \in Bill /\ b.paid = seen[p].due /\ b.key = req[p].key
    BY <1>1, <1>2, <2>1 DEF Bill
  <2> QED
    BY <2>2, FixedExpensesAssumption
<1>6. /\ entries' = [entries EXCEPT ![p] = e]
      /\ bills' = [bills EXCEPT ![x] = b]
      /\ funds' = [funds EXCEPT ![req[p].acct] = @ - seen[p].due]
  BY DEF Pays
<1>7. /\ e.bill = x /\ e.acct = req[p].acct /\ e.amt = seen[p].due
      /\ e.key = req[p].key /\ e.active
  OBVIOUS
<1> HIDE DEF e, b, x
<1>8. entries'[p] = e /\ \A q \in Procs \ {p} : entries'[q] = entries[q]
  BY <1>0, <1>6 DEF TypeOK
<1>9. bills'[x] = b /\ \A y \in Due \ {x} : bills'[y] = bills[y]
  BY <1>0, <1>2, <1>6 DEF TypeOK
<1>10. /\ funds'[req[p].acct] = funds[req[p].acct] - seen[p].due
       /\ \A a \in Accounts \ {req[p].acct} : funds'[a] = funds[a]
  BY <1>0, <1>2, <1>6 DEF TypeOK
<1> QED
  BY <1>1, <1>2, <1>3, <1>4, <1>5, <1>7, <1>8, <1>9, <1>10 DEF x

LEMMA UndoIs ==
  ASSUME BillsKept, NEW p \in Procs, CommitUndo(p)
  PROVE  LET o == req[p].of IN
         /\ pc[p] \in Begun /\ At(p, "undo", "read") /\ o \in Procs /\ Made(o) /\ o # p
         /\ entries'[o] # NoRow /\ ~entries'[o].active
         /\ ~entries[o].active => entries'[o] = entries[o]
         /\ entries'[o].bill = entries[o].bill /\ entries'[o].acct = entries[o].acct
         /\ entries'[o].amt = entries[o].amt /\ entries'[o].key = entries[o].key
         /\ \A q \in Procs \ {o} : entries'[q] = entries[q]
         /\ seen[p].row.acct \in Accounts /\ entries[o].amt \in Nat
         /\ ~entries[o].active => funds' = funds
         /\ entries[o].active =>
              /\ funds'[seen[p].row.acct] = funds[seen[p].row.acct] + entries[o].amt
              /\ \A a \in Accounts \ {seen[p].row.acct} : funds'[a] = funds[a]
         /\ UNCHANGED <<today, template, bills, lock>>
<1> DEFINE o == req[p].of
           e == [entries[o] EXCEPT !.active = FALSE]
<1>0. TypeOK /\ Served(p)
  BY DEF BillsKept
<1>1. /\ pc[p] \in Begun /\ At(p, "undo", "read")
      /\ funds' = [funds EXCEPT ![seen[p].row.acct] =
                     IF entries[o].active THEN @ + entries[o].amt ELSE @]
      /\ entries' = [entries EXCEPT ![o] = e]
      /\ UNCHANGED <<today, template, bills, lock>>
  BY DEF CommitUndo, At, Begun
<1>2. seen[p].row \in Entry /\ Made(o) /\ o \in Procs /\ ~Made(p)
  BY <1>0, <1>1, RequestTypes DEF Served, At
<1>3. entries[o] \in Entry
  BY <1>0, <1>2 DEF TypeOK, Made
<1>4. /\ e \in Entry /\ e # NoRow /\ ~e.active /\ (~entries[o].active => e = entries[o])
      /\ e.bill = entries[o].bill /\ e.acct = entries[o].acct /\ e.amt = entries[o].amt
      /\ e.key = entries[o].key
  BY <1>3, FixedExpensesAssumption DEF Entry
<1> HIDE DEF e
<1>5. entries'[o] = e /\ \A q \in Procs \ {o} : entries'[q] = entries[q]
  BY <1>0, <1>1, <1>2 DEF TypeOK
<1>6. seen[p].row.acct \in Accounts /\ entries[o].amt \in Nat
  BY <1>2, <1>3 DEF Entry
<1>7. /\ ~entries[o].active => funds' = funds
      /\ entries[o].active =>
           /\ funds'[seen[p].row.acct] = funds[seen[p].row.acct] + entries[o].amt
           /\ \A a \in Accounts \ {seen[p].row.acct} : funds'[a] = funds[a]
  BY <1>0, <1>1, <1>6 DEF TypeOK
<1> QED
  BY <1>1, <1>2, <1>4, <1>5, <1>6, <1>7

LEMMA AmendIs ==
  ASSUME BillsKept, NEW p \in Procs, CommitAmend(p)
  PROVE  LET o == req[p].of IN
         /\ pc[p] \in Begun /\ At(p, "amend", "ready") /\ o \in Procs /\ Made(o) /\ o # p
         /\ req[p].pays \in Nat /\ (req[p].pays # seen[p].row.amt => Free(p, seen[p].row.acct))
         /\ entries'[o] # NoRow /\ entries'[o].active = entries[o].active
         /\ entries'[o].bill = entries[o].bill /\ entries'[o].acct = entries[o].acct
         /\ entries'[o].amt = req[p].pays /\ entries'[o].key = entries[o].key
         /\ \A q \in Procs \ {o} : entries'[q] = entries[q]
         /\ seen[p].row.acct \in Accounts /\ entries[o].amt \in Nat
         /\ ~entries[o].active => funds' = funds
         /\ entries[o].active =>
              /\ funds'[seen[p].row.acct] = funds[seen[p].row.acct] + entries[o].amt - req[p].pays
              /\ \A a \in Accounts \ {seen[p].row.acct} : funds'[a] = funds[a]
         /\ UNCHANGED <<today, template, bills, lock>>
<1> DEFINE o == req[p].of
           e == [entries[o] EXCEPT !.amt = req[p].pays]
<1>0. TypeOK /\ Served(p)
  BY DEF BillsKept
<1>1. /\ pc[p] \in Begun /\ At(p, "amend", "ready")
      /\ req[p].pays # seen[p].row.amt => Free(p, seen[p].row.acct)
      /\ funds' = [funds EXCEPT ![seen[p].row.acct] =
                     IF entries[o].active THEN @ + entries[o].amt - req[p].pays ELSE @]
      /\ entries' = [entries EXCEPT ![o] = e]
      /\ UNCHANGED <<today, template, bills, lock>>
  BY DEF CommitAmend, At, Begun
<1>2. seen[p].row \in Entry /\ Made(o) /\ o \in Procs /\ ~Made(p)
  BY <1>0, <1>1, RequestTypes DEF Served, At
<1>3. entries[o] \in Entry /\ req[p].pays \in Nat
  <2>1. req[p].pays \in Int /\ req[p].pays > 0
    BY <1>0, <1>1, RequestTypes DEF Served
  <2> QED
    BY <1>0, <1>2, <2>1 DEF TypeOK, Made
<1>4. /\ e \in Entry /\ e # NoRow /\ e.active = entries[o].active
      /\ e.bill = entries[o].bill /\ e.acct = entries[o].acct /\ e.amt = req[p].pays
      /\ e.key = entries[o].key
  BY <1>3, FixedExpensesAssumption DEF Entry
<1> HIDE DEF e
<1>5. entries'[o] = e /\ \A q \in Procs \ {o} : entries'[q] = entries[q]
  BY <1>0, <1>1, <1>2 DEF TypeOK
<1>6. seen[p].row.acct \in Accounts /\ entries[o].amt \in Nat
  BY <1>2, <1>3 DEF Entry
<1>7. /\ ~entries[o].active => funds' = funds
      /\ entries[o].active =>
           /\ funds'[seen[p].row.acct] = funds[seen[p].row.acct] + entries[o].amt - req[p].pays
           /\ \A a \in Accounts \ {seen[p].row.acct} : funds'[a] = funds[a]
  BY <1>0, <1>1, <1>6 DEF TypeOK
<1> QED
  BY <1>1, <1>2, <1>3, <1>4, <1>5, <1>6, <1>7

\* Every other step leaves the transactions and the money alone.
LEMMA MoneyMoves ==
  ASSUME NEW p \in Procs, Begin(p) \/ Step(p) \/ Abort(p)
  PROVE  (entries' = entries /\ funds' = funds) \/ Pays(p) \/ CommitUndo(p) \/ CommitAmend(p)
<1>1. CASE Begin(p) \/ Abort(p)
  BY <1>1 DEF Begin, Abort, data
<1>2. CASE Calendar(p)
  BY <1>2 DEF Calendar, CreateTemplate, ReadTemplates, FillCalendar, data
<1>3. CASE Edit(p)
  BY <1>3 DEF Edit, ReadTemplate, LockTemplate, ReadPending, ReadCalendar, CommitUpdate,
              CommitDelete, Proceed, data
<1>4. CASE Pay(p)
  <2>1. CASE ReadBill(p) \/ LockAccount(p) \/ CheckBill(p)
    BY <2>1 DEF ReadBill, LockAccount, CheckBill, Proceed, Refuse, data
  <2>2. CASE CommitPay(p)
    BY <2>2 DEF CommitPay, Pays, Refuse, data
  <2> QED
    BY <1>4, <2>1, <2>2 DEF Pay
<1>5. CASE Correct(p)
  BY <1>5 DEF Correct, ReadEntry, CheckAmend, Proceed, data
<1> QED
  BY <1>1, <1>2, <1>3, <1>4, <1>5 DEF Step

\* A transaction stays what it is, but for its amount and for being active.
EntriesStay ==
  \A q \in Procs : Made(q) =>
    /\ entries'[q] # NoRow /\ (~entries[q].active => ~entries'[q].active)
    /\ entries'[q].bill = entries[q].bill /\ entries'[q].acct = entries[q].acct
    /\ entries'[q].key = entries[q].key

LEMMA StepKeepsEntries ==
  ASSUME BillsKept, NEW p \in Procs, Begin(p) \/ Step(p) \/ Abort(p)
  PROVE  EntriesStay
<1>1. CASE entries' = entries
  BY <1>1 DEF EntriesStay, Made
<1>2. CASE Pays(p)
  <2>1. ~Made(p) /\ \A q \in Procs \ {p} : entries'[q] = entries[q]
    BY <1>2, PaysIs
  <2> QED
    BY <2>1 DEF EntriesStay, Made
<1>3. CASE CommitUndo(p)
  BY <1>3, UndoIs DEF EntriesStay, Made
<1>4. CASE CommitAmend(p)
  BY <1>4, AmendIs DEF EntriesStay, Made
<1> QED
  BY <1>1, <1>2, <1>3, <1>4, MoneyMoves

LEMMA NextKeepsEntries == BillsKept /\ [Next]_vars => EntriesStay
<1> SUFFICES ASSUME BillsKept, [Next]_vars PROVE EntriesStay
  OBVIOUS
<1>1. CASE entries' = entries
  BY <1>1 DEF EntriesStay, Made
<1>2. CASE \E p \in Procs : Begin(p) \/ Step(p) \/ Abort(p)
  BY <1>2, StepKeepsEntries
<1> QED
  BY <1>1, <1>2 DEF Next, Tick, AllOver, vars

\* A bill that is paid stays paid, by the same key.
LEMMA PaidStays ==
  ASSUME BillsKept, BillsKept', EntriesStay, NEW x \in Due, Paid(x)
  PROVE  Paid(x)' /\ bills'[x].key = bills[x].key
<1>1. PICK q \in Procs : Made(q) /\ entries[q].bill = x
  BY DEF BillsKept, PaidByItsEntry, Settled
<1>2. Agree(q)
  BY <1>1 DEF BillsKept, PaidByItsEntry
<1>3. Made(q)' /\ entries'[q].bill = x /\ entries'[q].key = entries[q].key
  BY <1>1 DEF EntriesStay, Made
<1>4. Agree(q)'
  BY <1>3 DEF BillsKept, PaidByItsEntry
<1> QED
  BY <1>1, <1>2, <1>3, <1>4 DEF Agree, Paid, Written
-----------------------------------------------------------------------------
(* What a payment is answered.                                             *)

Asked == \A q \in Procs : pc[q] # "idle" => req[q] \in Request

Answered(q) == pc[q] \in {"done", "repeated"} /\ req[q].op = "pay"

True(q) == Paid(BillOf(q)) /\ bills[BillOf(q)].key = req[q].key

\* A request that was begun keeps its plan.
LEMMA StepKeepsRequest ==
  ASSUME NEW p \in Procs, Step(p) \/ Abort(p)
  PROVE  pc[p] \in Begun /\ req' = req
<1>1. CASE Abort(p)
  BY <1>1 DEF Abort, Finish
<1>2. CASE Calendar(p)
  BY <1>2 DEF Calendar, CreateTemplate, ReadTemplates, FillCalendar, Finish, Goto, At, Begun
<1>3. CASE Edit(p)
  BY <1>3 DEF Edit, ReadTemplate, LockTemplate, ReadPending, ReadCalendar, CommitUpdate,
              CommitDelete, Proceed, Finish, Goto, At, Begun
<1>4. CASE Pay(p)
  BY <1>4 DEF Pay, ReadBill, LockAccount, CheckBill, CommitPay, Refuse, Proceed, Finish, Goto,
              At, Begun
<1>5. CASE Correct(p)
  BY <1>5 DEF Correct, ReadEntry, CommitUndo, CheckAmend, CommitAmend, Proceed, Finish,
              Goto, At, Begun
<1> QED
  BY <1>1, <1>2, <1>3, <1>4, <1>5 DEF Step

LEMMA StaysAsked == BillsKept /\ Asked /\ [Next]_vars => Asked'
<1> SUFFICES ASSUME BillsKept, Asked, [Next]_vars, NEW q \in Procs, pc'[q] # "idle"
             PROVE  req'[q] \in Request
  BY DEF Asked
<1>0. TypeOK
  BY DEF BillsKept
<1>1. CASE UNCHANGED <<pc, req>>
  BY <1>1 DEF Asked
<1>2. ASSUME NEW p \in Procs, Begin(p) \/ Step(p) \/ Abort(p) PROVE req'[q] \in Request
  <2>1. CASE q # p
    BY <1>0, <1>2, <2>1, StepMoves DEF Moves, Asked
  <2>2. CASE q = p /\ Begin(p)
    BY <1>0, <2>2, FixedExpensesAssumption DEF Begin, TypeOK
  <2>3. CASE q = p /\ ~Begin(p)
    BY <1>0, <1>2, <2>3, StepKeepsRequest DEF TypeOK
  <2> QED
    BY <2>1, <2>2, <2>3
<1> QED
  BY <1>1, <1>2 DEF Next, Tick, AllOver, vars

\* The transaction of a key tells which bill the key has paid.
LEMMA PaidWithIsTrue ==
  ASSUME BillsKept, NEW k, NEW x \in Due, PaidWith(k, x)
  PROVE  Paid(x) /\ bills[x].key = k
<1>1. PICK q \in Procs : Made(q) /\ entries[q].key = k /\ entries[q].bill = x
  BY DEF PaidWith
<1> QED
  BY <1>1 DEF BillsKept, PaidByItsEntry, Agree

\* Whoever is answered now is told the truth.
LEMMA NewAnswer ==
  ASSUME BillsKept, NEW p \in Procs, Begin(p) \/ Step(p) \/ Abort(p), Answered(p)'
  PROVE  True(p)'
<1>0. TypeOK
  BY DEF BillsKept
<1> DEFINE x == BillOf(p)
<1>1. CASE Begin(p)
  <2>1. PICK r \in RequestsOf[p] :
          /\ req' = [req EXCEPT ![p] = r]
          /\ pc' = [pc EXCEPT ![p] = IF r.op = "pay" /\ PaidWith(r.key, <<r.tmpl, r.day>>)
                                     THEN "repeated" ELSE "begun"]
    BY <1>1 DEF Begin
  <2>2. r \in Request /\ bills' = bills /\ req'[p] = r
    BY <1>0, <1>1, <2>1, FixedExpensesAssumption DEF Begin, data, TypeOK
  <2>3. PaidWith(r.key, <<r.tmpl, r.day>>)
    BY <1>0, <2>1, <2>2 DEF Answered, TypeOK
  <2>4. <<r.tmpl, r.day>> \in Due
    BY <2>2 DEF Request, Due
  <2>5. Paid(<<r.tmpl, r.day>>) /\ bills[<<r.tmpl, r.day>>].key = r.key
    BY <2>3, <2>4, PaidWithIsTrue
  <2> QED
    BY <2>2, <2>5 DEF True, BillOf, Paid, Written
<1>2. CASE Step(p) \/ Abort(p)
  <2>1. pc[p] \in Begun /\ req' = req /\ x \in Due /\ req[p].op = "pay"
    BY <1>0, <1>2, StepKeepsRequest, RequestTypes DEF Answered
  <2>2. Pay(p)
    <3>1. ~Abort(p)
      BY <1>0 DEF Abort, Finish, TypeOK, Answered
    <3>2. ~Calendar(p) /\ ~Edit(p) /\ ~Correct(p)
      BY <2>1 DEF Calendar, CreateTemplate, ReadTemplates, FillCalendar, Edit, ReadTemplate,
                  LockTemplate, ReadPending, ReadCalendar, CommitUpdate, CommitDelete, Correct,
                  ReadEntry, CommitUndo, CheckAmend, CommitAmend, At
    <3> QED
      BY <1>2, <3>1, <3>2 DEF Step
  <2>3. CASE ReadBill(p)
    BY <1>0, <2>3 DEF ReadBill, Proceed, Goto, Finish, TypeOK, Answered
  <2>4. CASE LockAccount(p)
    BY <1>0, <2>4 DEF LockAccount, Goto, TypeOK, Answered
  <2>5. CASE CheckBill(p)
    <3>1. PaidWith(req[p].key, x) /\ UNCHANGED data
      BY <1>0, <2>5 DEF CheckBill, Refuse, Goto, Finish, TypeOK, Answered
    <3>2. Paid(x) /\ bills[x].key = req[p].key
      BY <2>1, <3>1, PaidWithIsTrue
    <3> QED
      BY <2>1, <3>1, <3>2 DEF True, BillOf, Paid, Written, data
  <2>6. CASE CommitPay(p)
    <3>1. CASE Pays(p)
      BY <2>1, <3>1, PaysIs DEF True, BillOf, Paid, Written
    <3>2. CASE ~Pays(p)
      <4>1. Paid(x) /\ bills[x].key = req[p].key /\ UNCHANGED data
        BY <1>0, <2>6, <3>2 DEF CommitPay, Pays, Refuse, Finish, TypeOK, Answered
      <4> QED
        BY <2>1, <4>1 DEF True, BillOf, Paid, Written, data
    <3> QED
      BY <3>1, <3>2
  <2> QED
    BY <2>2, <2>3, <2>4, <2>5, <2>6 DEF Pay
<1> QED
  BY <1>1, <1>2

LEMMA AnswersStay == BillsKept /\ Asked /\ AnswerIsTrue /\ [Next]_vars => AnswerIsTrue'
<1> SUFFICES ASSUME BillsKept, Asked, AnswerIsTrue, [Next]_vars,
                    NEW q \in Procs, Answered(q)'
             PROVE  True(q)'
  BY DEF AnswerIsTrue, Answered, True
<1>1. BillsKept' /\ EntriesStay
  BY BillsStayKept, NextKeepsEntries
<1>2. CASE pc'[q] = pc[q] /\ req'[q] = req[q]
  <2>1. Answered(q) /\ True(q)
    BY <1>2 DEF Answered, AnswerIsTrue, True
  <2>2. BillOf(q) \in Due
    BY <2>1 DEF Asked, Answered, Request, BillOf, Due
  <2>3. \A x \in Due : Paid(x) => Paid(x)' /\ bills'[x].key = bills[x].key
    BY <1>1, PaidStays
  <2>4. BillOf(q)' = BillOf(q)
    BY <1>2 DEF BillOf
  <2> QED
    BY <1>2, <2>1, <2>2, <2>3, <2>4 DEF True, Paid, Written
<1>3. ASSUME NEW p \in Procs, Begin(p) \/ Step(p) \/ Abort(p), p # q PROVE True(q)'
  BY <1>2, <1>3, StepMoves DEF BillsKept, Moves
<1>4. ASSUME NEW p \in Procs, Begin(p) \/ Step(p) \/ Abort(p), p = q PROVE True(q)'
  BY <1>4, NewAnswer
<1> QED
  BY <1>2, <1>3, <1>4 DEF Next, Tick, AllOver, vars
-----------------------------------------------------------------------------
(* What the row locks keep.                                                *)

\* A payment past its lock has the account; an edit past its lock has the template,
\* which is open; what corrects a payment has read whose money it moves.
Holds(p) ==
  /\ At(p, "pay", "locked") \/ At(p, "pay", "ready") => lock[req[p].acct] = p
  /\ pc[p] \in {"locked", "pending", "ready"} /\ req[p].op = "update" =>
       lock[req[p].tmpl] = p /\ Open(req[p].tmpl)
  /\ pc[p] \in {"read", "ready"} /\ req[p].op \in {"undo", "amend"} =>
       entries[req[p].of].acct = seen[p].row.acct

\* No bill is settled twice.
SettledOnce ==
  \A q, r \in Procs : Made(q) /\ Made(r) /\ entries[q].bill = entries[r].bill => q = r

Held == SettledOnce /\ \A p \in Procs : Holds(p)

\* The steps that write templates.
LEMMA TemplateMoves ==
  ASSUME NEW p \in Procs, Begin(p) \/ Step(p) \/ Abort(p)
  PROVE  template' = template \/ CreateTemplate(p) \/ CommitUpdate(p) \/ CommitDelete(p)
<1>1. CASE Begin(p) \/ Abort(p)
  BY <1>1 DEF Begin, Abort, data
<1>2. CASE Calendar(p)
  BY <1>2 DEF Calendar, ReadTemplates, FillCalendar, data
<1>3. CASE Edit(p)
  BY <1>3 DEF Edit, ReadTemplate, LockTemplate, ReadPending, ReadCalendar, Proceed, data
<1>4. CASE Pay(p)
  BY <1>4 DEF Pay, ReadBill, LockAccount, CheckBill, CommitPay, Proceed, Refuse, data
<1>5. CASE Correct(p)
  BY <1>5 DEF Correct, ReadEntry, CommitUndo, CheckAmend, CommitAmend, Proceed, data
<1> QED
  BY <1>1, <1>2, <1>3, <1>4, <1>5 DEF Step

\* What an update that commits makes of its template.
LEMMA UpdateIs ==
  ASSUME BillsKept, NEW p \in Procs, CommitUpdate(p)
  PROVE  LET t == req[p].tmpl IN
         /\ pc[p] \in {"locked", "ready"} /\ pc[p] \in Begun /\ req[p].op = "update"
         /\ req[p] \in Request /\ req[p].plan \in Template /\ seen[p] \in Seen
         /\ t \in Templates /\ template[t] \in Template /\ template[t] # NoRow
         /\ New(p) \in Template /\ New(p) # NoRow /\ New(p).active = template[t].active
         /\ template'[t] = New(p) /\ \A u \in Templates \ {t} : template'[u] = template[u]
         /\ \A x \in Due : bills'[x] = IF x[1] = t THEN Revised(p, x) ELSE bills[x]
<1> DEFINE t == req[p].tmpl
<1>0. TypeOK
  BY DEF BillsKept
<1>1. /\ pc[p] \in {"locked", "ready"} /\ pc[p] \in Begun \ {"begun"} /\ req[p].op = "update"
      /\ template' = [template EXCEPT ![t] = New(p)]
      /\ bills' = [x \in Due |-> IF x[1] = t THEN Revised(p, x) ELSE bills[x]]
  BY DEF CommitUpdate, At, Begun
<1>2. /\ req[p] \in Request /\ req[p].plan \in Template /\ t \in Templates /\ seen[p] \in Seen
      /\ template[t] \in Template
  BY <1>0, <1>1, RequestTypes DEF BillsKept, Served
<1>3. New(p) \in Template /\ New(p).active = template[t].active
  BY <1>2 DEF New, Merged, Template
<1>4. New(p) # NoRow /\ template[t] # NoRow
  BY <1>2, <1>3, FixedExpensesAssumption
<1>5. template'[t] = New(p) /\ \A u \in Templates \ {t} : template'[u] = template[u]
  BY <1>0, <1>1, <1>2 DEF TypeOK
<1> QED
  BY <1>1, <1>2, <1>3, <1>4, <1>5

\* A template is closed by its deletion only, and not while its row is locked.
LEMMA StepKeepsOpen ==
  ASSUME BillsKept, NEW p \in Procs, Begin(p) \/ Step(p) \/ Abort(p),
         NEW t \in Templates, Open(t), lock[t] \notin {NoProc, p}
  PROVE  Open(t)'
<1>0. TypeOK
  BY DEF BillsKept
<1>1. CASE template' = template
  BY <1>1 DEF Open
<1>2. CASE CreateTemplate(p)
  <2>1. t # req[p].tmpl /\ template' = [template EXCEPT ![req[p].tmpl] = req[p].plan]
    BY <1>2 DEF CreateTemplate, Open
  <2> QED
    BY <1>0, <2>1 DEF Open, TypeOK
<1>3. CASE CommitUpdate(p)
  BY <1>3, UpdateIs DEF Open
<1>4. CASE CommitDelete(p)
  <2>1. t # req[p].tmpl
    BY <1>4 DEF CommitDelete, Free
  <2>2. template'[t] = template[t]
    BY <1>0, <1>4, <2>1 DEF CommitDelete, TypeOK, data
  <2> QED
    BY <2>2 DEF Open
<1> QED
  BY <1>1, <1>2, <1>3, <1>4, TemplateMoves

LEMMA OthersHold ==
  ASSUME BillsKept, NEW p \in Procs, Holds(p), Begin(p) \/ Step(p) \/ Abort(p),
         NEW q \in Procs \ {p}, Holds(q)
  PROVE  Holds(q)'
<1>0. TypeOK /\ Served(q)
  BY DEF BillsKept
<1>1. /\ pc'[q] = pc[q] /\ req'[q] = req[q] /\ seen'[q] = seen[q]
      /\ \A x \in Lockable : lock[x] = q => lock'[x] = q
  BY <1>0, StepMoves DEF Moves
<1>2. pc[q] \in Begun => /\ req[q].acct \in Accounts /\ req[q].tmpl \in Templates
                         /\ req[q].of \in Procs /\ seen[q] \in Seen
  BY <1>0, RequestTypes
<1>3. At(q, "pay", "locked") \/ At(q, "pay", "ready") => lock'[req[q].acct] = q
  BY <1>1, <1>2 DEF Holds, At, Begun, Lockable
<1>5. pc[q] \in {"locked", "pending", "ready"} /\ req[q].op = "update" =>
        lock'[req[q].tmpl] = q /\ Open(req[q].tmpl)'
  <2> SUFFICES ASSUME pc[q] \in {"locked", "pending", "ready"}, req[q].op = "update",
                      NEW t \in Templates, t = req[q].tmpl
               PROVE  lock'[t] = q /\ Open(t)'
    BY <1>1, <1>2 DEF Begun, Open
  <2>1. lock[t] = q /\ Open(t) /\ t \in Lockable
    BY DEF Holds, Lockable
  <2>2. lock[t] \notin {NoProc, p}
    BY <2>1, FixedExpensesAssumption
  <2> QED
    BY <1>1, <2>1, <2>2, StepKeepsOpen
<1>6. pc[q] \in {"read", "ready"} /\ req[q].op \in {"undo", "amend"} =>
        entries'[req[q].of].acct = seen[q].row.acct
  BY <1>0, <1>2, StepKeepsEntries DEF Holds, Begun, Served, EntriesStay
<1> QED
  BY <1>1, <1>3, <1>5, <1>6 DEF Holds, At, Open

LEMMA HoldsNow ==
  ASSUME BillsKept, NEW p \in Procs, Holds(p), Begin(p) \/ Step(p) \/ Abort(p)
  PROVE  Holds(p)'
<1>0. TypeOK /\ Served(p)
  BY DEF BillsKept
<1> DEFINE Idle == pc'[p] \notin {"read", "locked", "pending", "ready"}
<1>1. CASE Idle
  BY <1>1 DEF Holds, At
<1>2. ASSUME NEW how \in Finished, Finish(p, how) PROVE Idle
  <2>1. pc'[p] \in {"idle", how}
    BY <1>0, <1>2 DEF Finish, TypeOK
  <2> QED
    BY <2>1 DEF Finished
<1>3. CASE Begin(p)
  BY <1>0, <1>1, <1>3 DEF Begin, TypeOK
<1>4. CASE Abort(p)
  BY <1>1, <1>2, <1>4 DEF Abort, Finished
<1> HIDE DEF Idle
<1>5. CASE Calendar(p)
  <2>1. req[p].op \in {"create", "page"} /\ req' = req
    BY <1>5 DEF Calendar, CreateTemplate, ReadTemplates, FillCalendar, At, Finish, Goto
  <2> QED
    BY <2>1 DEF Holds, At
<1>6. CASE Edit(p)
  <2>1. req[p].op \in {"update", "delete"} /\ req' = req /\ pc[p] \in Begun
    BY <1>6, StepKeepsRequest DEF Edit, ReadTemplate, LockTemplate, ReadPending, ReadCalendar,
             CommitUpdate, CommitDelete, At, Step
  <2>2. CASE ReadTemplate(p)
    <3>1. pc'[p] \in {"idle", "read", "rejected"}
      BY <1>0, <2>2 DEF ReadTemplate, Proceed, Goto, Finish, TypeOK
    <3> QED
      BY <2>1, <3>1 DEF Holds, At
  <2>3. CASE LockTemplate(p)
    <3>1. CASE Finish(p, "rejected")
      BY <1>1, <1>2, <3>1 DEF Finished
    <3>2. CASE Open(req[p].tmpl) /\ lock' = [lock EXCEPT ![req[p].tmpl] = p]
      <4>1. template' = template /\ req[p].tmpl \in Lockable
        BY <1>0, <2>1, <2>3, RequestTypes DEF LockTemplate, data, Lockable
      <4> QED
        BY <1>0, <2>1, <3>2, <4>1 DEF Holds, At, Open, TypeOK, Lockable
    <3> QED
      BY <2>3, <3>1, <3>2 DEF LockTemplate
  <2>4. CASE ReadPending(p) \/ ReadCalendar(p)
    <3>1. /\ pc[p] \in {"locked", "pending"} /\ req[p].op = "update"
          /\ template' = template /\ lock' = lock
      BY <2>4 DEF ReadPending, ReadCalendar, At, data
    <3> QED
      BY <2>1, <3>1 DEF Holds, At, Open
  <2>5. CASE CommitUpdate(p) \/ CommitDelete(p)
    BY <1>1, <1>2, <2>5 DEF CommitUpdate, CommitDelete, Finished
  <2> QED
    BY <1>6, <2>2, <2>3, <2>4, <2>5 DEF Edit
<1>7. CASE Pay(p)
  <2>1. req[p].op = "pay" /\ req' = req /\ pc[p] \in Begun
    BY <1>7, StepKeepsRequest DEF Pay, ReadBill, LockAccount, CheckBill, CommitPay, At, Step
  <2>2. CASE ReadBill(p)
    <3>1. pc'[p] \in {"idle", "read", "rejected"}
      BY <1>0, <2>2 DEF ReadBill, Proceed, Goto, Finish, TypeOK
    <3> QED
      BY <2>1, <3>1 DEF Holds, At
  <2>3. CASE LockAccount(p)
    <3>1. req[p].acct \in Lockable
      BY <1>0, <2>1, RequestTypes DEF Lockable
    <3>2. pc'[p] = "locked" /\ lock'[req[p].acct] = p
      BY <1>0, <2>3, <3>1 DEF LockAccount, Goto, TypeOK, Lockable
    <3> QED
      BY <2>1, <3>2 DEF Holds, At
  <2>4. CASE CheckBill(p)
    <3>1. CASE Refuse(p, "repeated") \/ Refuse(p, "rejected")
      BY <1>1, <1>2, <3>1 DEF Refuse, Finished
    <3>2. CASE lock' = lock
      BY <2>1, <2>4, <3>2 DEF CheckBill, Holds, At
    <3> QED
      BY <2>4, <3>1, <3>2 DEF CheckBill
  <2>5. CASE CommitPay(p)
    BY <1>1, <1>2, <2>5 DEF CommitPay, Refuse, Finished
  <2> QED
    BY <1>7, <2>2, <2>3, <2>4, <2>5 DEF Pay
<1>8. CASE Correct(p)
  <2>1. CASE ReadEntry(p)
    <3>1. CASE Goto(p, "read", [Nothing EXCEPT !.row = entries[req[p].of]])
      <4>1. seen'[p].row = entries[req[p].of] /\ pc'[p] = "read" /\ req' = req
        BY <1>0, <3>1 DEF Goto, TypeOK, Nothing
      <4>2. entries' = entries /\ req[p].op \in {"undo", "amend"}
        BY <2>1 DEF ReadEntry, Proceed, data, At
      <4> QED
        BY <4>1, <4>2 DEF Holds, At
    <3>2. CASE Finish(p, "rejected")
      BY <1>1, <1>2, <3>2 DEF Finished
    <3> QED
      BY <2>1, <3>1, <3>2 DEF ReadEntry, Proceed
  <2>2. CASE CommitUndo(p)
    BY <1>1, <1>2, <2>2 DEF CommitUndo, Finished
  <2>3. CASE CheckAmend(p)
    <3>1. CASE Goto(p, "ready", seen[p])
      <4>1. /\ seen'[p] = seen[p] /\ req' = req /\ entries' = entries
            /\ pc[p] = "read" /\ req[p].op = "amend"
        BY <1>0, <2>3, <3>1 DEF CheckAmend, Goto, Proceed, TypeOK, data, At
      <4> QED
        BY <4>1 DEF Holds, At
    <3>2. CASE Finish(p, "rejected")
      BY <1>1, <1>2, <3>2 DEF Finished
    <3> QED
      BY <2>3, <3>1, <3>2 DEF CheckAmend, Proceed
  <2>4. CASE CommitAmend(p)
    BY <1>1, <1>2, <2>4 DEF CommitAmend, Finished
  <2> QED
    BY <1>8, <2>1, <2>2, <2>3, <2>4 DEF Correct
<1> QED
  BY <1>3, <1>4, <1>5, <1>6, <1>7, <1>8 DEF Step

LEMMA StaysSettledOnce ==
  ASSUME BillsKept, SettledOnce, NEW p \in Procs, Begin(p) \/ Step(p) \/ Abort(p)
  PROVE  SettledOnce'
<1>1. CASE entries' = entries
  BY <1>1 DEF SettledOnce, Made
<1>2. CASE Pays(p)
  <2>1. /\ entries'[p].bill = BillOf(p) /\ ~Settled(BillOf(p)) /\ ~Made(p)
        /\ \A q \in Procs \ {p} : entries'[q] = entries[q]
    BY <1>2, PaysIs DEF Pays
  <2> QED
    BY <2>1 DEF SettledOnce, Settled, Made
<1>3. CASE CommitUndo(p) \/ CommitAmend(p)
  <2>1. \A q \in Procs : Made(q)' => Made(q) /\ entries'[q].bill = entries[q].bill
    BY <1>3, UndoIs, AmendIs DEF Made
  <2> QED
    BY <2>1 DEF SettledOnce
<1> QED
  BY <1>1, <1>2, <1>3, MoneyMoves

LEMMA StaysHeld == BillsKept /\ Held /\ [Next]_vars => Held'
<1> SUFFICES ASSUME BillsKept, Held, [Next]_vars PROVE Held'
  OBVIOUS
<1>1. ASSUME NEW p \in Procs, Begin(p) \/ Step(p) \/ Abort(p) PROVE Held'
  <2>1. SettledOnce'
    BY <1>1, StaysSettledOnce DEF Held
  <2>2. ASSUME NEW q \in Procs PROVE Holds(q)'
    BY <1>1, HoldsNow, OthersHold DEF Held
  <2> QED
    BY <2>1, <2>2 DEF Held
<1>2. CASE UNCHANGED <<template, entries, funds, lock, pc, req, seen>>
  BY <1>2 DEF Held, SettledOnce, Made, Holds, At, Open
<1> QED
  BY <1>1, <1>2 DEF Next, Tick, AllOver, vars

LEMMA HeldAtFirst == Init => Held
BY DEF Init, Held, SettledOnce, Made, Holds, At

-----------------------------------------------------------------------------
(* A bill that was removed stays so.                                       *)

LEMMA RemovedStays ==
  ASSUME BillsKept, Held, [Next]_vars, NEW x \in Due,
         Written(x), ~bills[x].active, ~Open(x[1])
  PROVE  bills'[x] = bills[x]
<1>0. TypeOK
  BY DEF BillsKept
<1>1. CASE bills' = bills
  BY <1>1
<1>2. ASSUME NEW p \in Procs, Begin(p) \/ Step(p) \/ Abort(p) PROVE bills'[x] = bills[x]
  <2>1. CASE Begin(p) \/ Abort(p) \/ Correct(p)
    BY <2>1 DEF Begin, Abort, Correct, ReadEntry, CommitUndo, CheckAmend, CommitAmend, Proceed,
                data
  <2>2. CASE Calendar(p)
    BY <2>2 DEF Calendar, CreateTemplate, ReadTemplates, FillCalendar, Filled, data
  <2>3. CASE CommitUpdate(p)
    <3>1. x[1] # req[p].tmpl
      BY <2>3, UpdateIs DEF Held, Holds
    <3> QED
      BY <2>3, <3>1, UpdateIs
  <2>4. CASE CommitDelete(p)
    BY <2>4 DEF CommitDelete, Pending, data
  <2>5. CASE Edit(p) /\ ~CommitUpdate(p) /\ ~CommitDelete(p)
    BY <2>5 DEF Edit, ReadTemplate, LockTemplate, ReadPending, ReadCalendar, Proceed, data
  <2>6. CASE Pay(p)
    <3>1. CASE Pays(p)
      <4>1. x # BillOf(p)
        BY <3>1 DEF Pays, Pending
      <4> QED
        BY <3>1, <4>1, PaysIs
    <3>2. CASE ~Pays(p)
      BY <2>6, <3>2 DEF Pay, ReadBill, LockAccount, CheckBill, CommitPay, Pays, Proceed, Refuse, data
    <3> QED
      BY <3>1, <3>2
  <2> QED
    BY <1>2, <2>1, <2>2, <2>3, <2>4, <2>5, <2>6 DEF Step
<1> QED
  BY <1>1, <1>2 DEF Next, Tick, AllOver, vars
-----------------------------------------------------------------------------
(* The money of a payment that was checked.  An edit that writes the amount*)
(* it has read does not wait for the account: were another edit to commit  *)
(* in between, it would take money from under the lock of a payment.       *)

\* No transaction may be given an edit by two slots.
OneEditEach ==
  \A p, q \in Procs : \A r \in RequestsOf[p], s \in RequestsOf[q] :
    r.op = "amend" /\ s.op = "amend" /\ r.of = s.of => p = q

\* Once a payment is checked the money is there, and an edit knows what was paid.
Funded(p) ==
  /\ At(p, "pay", "ready") => funds[req[p].acct] >= seen[p].due
  /\ pc[p] \in {"read", "ready"} /\ req[p].op = "amend" =>
       entries[req[p].of].amt = seen[p].row.amt

AllFunded == \A p \in Procs : Funded(p)

LEMMA StepKeepsFunds ==
  ASSUME BillsKept, NEW p \in Procs, Holds(p), Funded(p), Begin(p) \/ Step(p) \/ Abort(p),
         NEW a \in Accounts, lock[a] \notin {NoProc, p}
  PROVE  funds'[a] >= funds[a]
<1>0. funds[a] \in Int
  BY DEF BillsKept, TypeOK
<1>1. CASE funds' = funds
  BY <1>0, <1>1
<1>2. CASE Pays(p)
  <2>1. a # req[p].acct
    BY <1>2 DEF Pays, Holds
  <2> QED
    BY <1>0, <1>2, <2>1, PaysIs
<1>3. CASE CommitUndo(p)
  BY <1>0, <1>3, UndoIs
<1>4. CASE CommitAmend(p)
  <2> DEFINE o == req[p].of
  <2>1. /\ At(p, "amend", "ready") /\ req[p].pays \in Nat /\ entries[o].amt \in Nat
        /\ req[p].pays # seen[p].row.amt => a # seen[p].row.acct
        /\ ~entries[o].active => funds' = funds
        /\ entries[o].active =>
             /\ funds'[seen[p].row.acct] = funds[seen[p].row.acct] + entries[o].amt - req[p].pays
             /\ \A c \in Accounts \ {seen[p].row.acct} : funds'[c] = funds[c]
    BY <1>4, AmendIs DEF Free
  <2>2. entries[o].amt = seen[p].row.amt
    BY <2>1 DEF Funded, At
  <2> QED
    BY <1>0, <2>1, <2>2
<1> QED
  BY <1>1, <1>2, <1>3, <1>4, MoneyMoves

LEMMA OthersFunded ==
  ASSUME OneEditEach, BillsKept, NEW p \in Procs, Holds(p), Funded(p),
         Begin(p) \/ Step(p) \/ Abort(p), NEW q \in Procs \ {p}, Holds(q), Funded(q)
  PROVE  Funded(q)'
<1>0. TypeOK /\ Served(p) /\ Served(q)
  BY DEF BillsKept
<1>1. pc'[q] = pc[q] /\ req'[q] = req[q] /\ seen'[q] = seen[q]
  BY <1>0, StepMoves DEF Moves
<1>2. pc[q] \in Begun => req[q].acct \in Accounts /\ req[q].of \in Procs /\ seen[q] \in Seen
  BY <1>0, RequestTypes
<1>3. At(q, "pay", "ready") => funds'[req[q].acct] >= seen[q].due
  <2> SUFFICES ASSUME At(q, "pay", "ready") PROVE funds'[req[q].acct] >= seen[q].due
    OBVIOUS
  <2> DEFINE a == req[q].acct
  <2>1. a \in Accounts /\ lock[a] = q /\ funds[a] >= seen[q].due /\ seen[q].due \in Nat
    BY <1>2 DEF Holds, Funded, At, Begun, Seen
  <2>2. lock[a] \notin {NoProc, p}
    BY <2>1, FixedExpensesAssumption
  <2>3. funds'[a] >= funds[a]
    BY <2>1, <2>2, StepKeepsFunds
  <2>4. funds[a] \in Int /\ funds'[a] \in Int
    <3>1. TypeOK'
      BY BillsStayKept DEF BillsKept, Next
    <3> QED
      BY <1>0, <2>1, <3>1 DEF TypeOK
  <2> QED
    BY <2>1, <2>3, <2>4
<1>4. ASSUME pc[q] \in {"read", "ready"}, req[q].op = "amend"
      PROVE  entries'[req[q].of].amt = seen[q].row.amt
  <2> DEFINE o == req[q].of
  <2>1. /\ entries[o].amt = seen[q].row.amt /\ Made(o) /\ o \in Procs
        /\ req[q] \in RequestsOf[q]
    BY <1>0, <1>2, <1>4 DEF Funded, Served, Begun
  <2>2. CASE Pays(p)
    BY <2>1, <2>2, PaysIs
  <2>3. CASE CommitUndo(p)
    BY <2>1, <2>3, UndoIs
  <2>4. CASE CommitAmend(p)
    <3>1. pc[p] \in Begun /\ req[p].op = "amend"
      BY <2>4, AmendIs DEF At
    <3>2. req[p] \in RequestsOf[p]
      BY <1>0, <3>1 DEF Served
    <3>3. req[p].of # o
      BY <1>4, <2>1, <3>1, <3>2 DEF OneEditEach
    <3> QED
      BY <2>1, <2>4, <3>3, AmendIs
  <2> QED
    BY <2>1, <2>2, <2>3, <2>4, MoneyMoves
<1> QED
  BY <1>1, <1>3, <1>4 DEF Funded, At

LEMMA FundedNow ==
  ASSUME BillsKept, NEW p \in Procs, Holds(p), Funded(p), Begin(p) \/ Step(p) \/ Abort(p)
  PROVE  Funded(p)'
<1>0. TypeOK /\ Served(p)
  BY DEF BillsKept
<1>1. CASE pc'[p] \notin {"read", "ready"}
  BY <1>1 DEF Funded, At
<1>2. CASE req' = req /\ req[p].op \notin {"pay", "amend"}
  BY <1>2 DEF Funded, At
<1>3. ASSUME NEW how \in Finished, Finish(p, how) PROVE pc'[p] \notin {"read", "ready"}
  <2>1. pc'[p] \in {"idle", how}
    BY <1>0, <1>3 DEF Finish, TypeOK
  <2> QED
    BY <2>1 DEF Finished
<1>4. CASE Begin(p)
  BY <1>0, <1>1, <1>4 DEF Begin, TypeOK
<1>5. CASE Abort(p)
  BY <1>1, <1>3, <1>5 DEF Abort, Finished
<1>6. CASE Calendar(p) \/ Edit(p) \/ CommitUndo(p)
  <2>1. req' = req
    BY <1>6, StepKeepsRequest DEF Step, Correct
  <2>2. req[p].op \notin {"pay", "amend"}
    BY <1>6 DEF Calendar, CreateTemplate, ReadTemplates, FillCalendar, Edit, ReadTemplate,
       LockTemplate, ReadPending, ReadCalendar, CommitUpdate, CommitDelete, CommitUndo, At
  <2> QED
    BY <1>2, <2>1, <2>2
<1>7. CASE Pay(p)
  <2>1. req[p].op = "pay" /\ req' = req
    BY <1>7, StepKeepsRequest DEF Pay, ReadBill, LockAccount, CheckBill, CommitPay, At, Step
  <2>2. CASE pc'[p] # "ready"
    BY <2>1, <2>2 DEF Funded, At
  <2>3. CASE ReadBill(p) \/ LockAccount(p)
    BY <1>0, <2>2, <2>3 DEF ReadBill, LockAccount, Proceed, Goto, Finish, TypeOK
  <2>4. CASE CheckBill(p)
    <3> DEFINE x == BillOf(p)
               n == IF req[p].pays = 0 THEN bills[x].due ELSE req[p].pays
               found == [Nothing EXCEPT !.due = n, !.row = bills[x]]
    <3>1. CASE Refuse(p, "repeated") \/ Refuse(p, "rejected")
      BY <1>1, <1>3, <3>1 DEF Refuse, Finished
    <3>2. CASE Goto(p, "ready", found) /\ UNCHANGED <<data, lock>> /\ funds[req[p].acct] >= n
      <4>1. found.due = n
        BY DEF Nothing
      <4> HIDE DEF n, found
      <4>2. seen'[p] = found /\ funds' = funds
        BY <1>0, <3>2 DEF Goto, TypeOK, data
      <4> QED
        BY <2>1, <3>2, <4>1, <4>2 DEF Funded, At
    <3> QED
      BY <2>4, <3>1, <3>2 DEF CheckBill
  <2>5. CASE CommitPay(p)
    BY <1>1, <1>3, <2>5 DEF CommitPay, Refuse, Finished
  <2> QED
    BY <1>7, <2>3, <2>4, <2>5 DEF Pay
<1>8. CASE ReadEntry(p)
  <2>1. CASE Goto(p, "read", [Nothing EXCEPT !.row = entries[req[p].of]])
    <3>1. seen'[p].row = entries[req[p].of] /\ pc'[p] = "read" /\ req' = req
      BY <1>0, <2>1 DEF Goto, TypeOK, Nothing
    <3>2. entries' = entries
      BY <1>8 DEF ReadEntry, Proceed, data
    <3> QED
      BY <3>1, <3>2 DEF Funded, At
  <2>2. CASE Finish(p, "rejected")
    BY <1>1, <1>3, <2>2 DEF Finished
  <2> QED
    BY <1>8, <2>1, <2>2 DEF ReadEntry, Proceed
<1>9. CASE CheckAmend(p)
  <2>1. CASE Goto(p, "ready", seen[p])
    <3>1. /\ seen'[p] = seen[p] /\ req' = req /\ entries' = entries
          /\ pc[p] = "read" /\ req[p].op = "amend"
      BY <1>0, <1>9, <2>1 DEF CheckAmend, Goto, Proceed, TypeOK, data, At
    <3> QED
      BY <3>1 DEF Funded, At
  <2>2. CASE Finish(p, "rejected")
    BY <1>1, <1>3, <2>2 DEF Finished
  <2> QED
    BY <1>9, <2>1, <2>2 DEF CheckAmend, Proceed
<1>10. CASE CommitAmend(p)
  BY <1>1, <1>3, <1>10 DEF CommitAmend, Finished
<1> QED
  BY <1>4, <1>5, <1>6, <1>7, <1>8, <1>9, <1>10 DEF Step, Correct

LEMMA StaysFunded ==
  ASSUME OneEditEach
  PROVE  BillsKept /\ Held /\ AllFunded /\ [Next]_vars => AllFunded'
<1> SUFFICES ASSUME BillsKept, Held, AllFunded, [Next]_vars PROVE AllFunded'
  OBVIOUS
<1>1. ASSUME NEW p \in Procs, Begin(p) \/ Step(p) \/ Abort(p) PROVE AllFunded'
  BY <1>1, FundedNow, OthersFunded DEF Held, AllFunded
<1>2. CASE UNCHANGED <<entries, funds, pc, req, seen>>
  BY <1>2 DEF AllFunded, Funded, At
<1> QED
  BY <1>1, <1>2 DEF Next, Tick, AllOver, vars

LEMMA FundedAtFirst == Init => AllFunded
BY DEF Init, AllFunded, Funded, At

-----------------------------------------------------------------------------
(* The ledger of bills.                                                    *)

LEMMA SettlementIs ==
  ASSUME BillsKept, NEW q \in Procs, Made(q)
  PROVE  /\ Settlement(q) \in [bill : Due, acct : Accounts, amt : Nat, key : Keys]
         /\ Settlement(q).bill = entries[q].bill /\ Settlement(q).key = entries[q].key
<1>1. entries[q] \in Entry
  BY DEF BillsKept, TypeOK, Made
<1> QED
  BY <1>1 DEF Entry, Settlement

\* A bill was given back if its transaction was deleted.
LEMMA ReturnedIs ==
  ASSUME Held, NEW q \in Procs, Made(q)
  PROVE  Settlement(q).bill \in AllReturned <=> ~entries[q].active
<1>1. Settlement(q).bill = entries[q].bill
  BY DEF Settlement
<1> QED
  BY <1>1 DEF AllReturned, Held, SettledOnce

\* A payment that commits is a settlement.
LEMMA PaymentSettles ==
  ASSUME Amounts = Nat, BillsKept, NEW p \in Procs, Funded(p), Pays(p)
  PROVE  TheBills!Next
<1> DEFINE s == [bill |-> BillOf(p), acct |-> req[p].acct, amt |-> seen[p].due, key |-> req[p].key]
<1>1. /\ ~Made(p) /\ Made(p)' /\ entries'[p].active
      /\ BillOf(p) \in Due /\ req[p].acct \in Accounts /\ req[p].key \in Keys
      /\ seen[p].due \in Nat
      /\ \A q \in Procs \ {p} : entries'[q] = entries[q]
      /\ funds' = [funds EXCEPT ![req[p].acct] = @ - seen[p].due]
  BY PaysIs DEF Pays, Made
<1>2. Settlement(p)' = s
  BY PaysIs DEF Settlement
<1>3. s \in TheBills!Settlement
  BY <1>1 DEF TheBills!Settlement
<1>4. \A t \in AllSettled : t.bill # s.bill /\ t.key # s.key
  <2> SUFFICES ASSUME NEW q \in Procs, Made(q)
               PROVE  Settlement(q).bill # s.bill /\ Settlement(q).key # s.key
    BY DEF AllSettled
  <2>1. entries[q].bill # BillOf(p) /\ entries[q].key # req[p].key
    BY DEF Pays, Settled, KeyTaken
  <2> QED
    BY <2>1, SettlementIs
<1>5. funds[s.acct] >= s.amt
  BY DEF Funded, Pays
<1>6. \A q \in Procs \ {p} : Settlement(q)' = Settlement(q) /\ (Made(q)' <=> Made(q))
                             /\ entries'[q] = entries[q]
  BY <1>1 DEF Settlement, Made
<1> HIDE DEF s
<1>7. AllSettled' = AllSettled \cup {s}
  BY <1>1, <1>2, <1>6 DEF AllSettled
<1>8. AllReturned' = AllReturned
  BY <1>1, <1>6 DEF AllReturned
<1>9. funds' = [funds EXCEPT ![s.acct] = @ - s.amt]
  BY <1>1 DEF s
<1>10. TheBills!Settle(s)
  BY <1>4, <1>5, <1>7, <1>8, <1>9 DEF TheBills!Settle
<1> QED
  BY <1>3, <1>10 DEF TheBills!Next

\* The deletion of a transaction gives its money back, the first time.
LEMMA UndoReturns ==
  ASSUME Amounts = Nat, BillsKept, Held, NEW p \in Procs, CommitUndo(p)
  PROVE  TheBills!Next \/ UNCHANGED <<funds, AllSettled, AllReturned>>
<1>0. PICK o \in Procs : o = req[p].of
  BY UndoIs
<1> DEFINE s == Settlement(o)
<1>1. /\ At(p, "undo", "read") /\ Made(o)
      /\ \A q \in Procs \ {o} : entries'[q] = entries[q]
      /\ ~entries'[o].active
  BY <1>0, UndoIs
<1>2. \A q \in Procs : Settlement(q)' = Settlement(q) /\ (Made(q)' <=> Made(q))
  <2>1. Settlement(o)' = Settlement(o) /\ Made(o)'
    BY <1>0, UndoIs DEF Settlement, Made
  <2>2. \A q \in Procs \ {o} : Settlement(q)' = Settlement(q) /\ (Made(q)' <=> Made(q))
    BY <1>1 DEF Settlement, Made
  <2> QED
    BY <1>1, <2>1, <2>2
<1>3. AllSettled' = AllSettled
  BY <1>2 DEF AllSettled
<1>4. AllReturned' = AllReturned \cup {s.bill}
  <2>1. s.bill = entries[o].bill /\ entries'[o].bill = entries[o].bill
    BY <1>0, UndoIs DEF Settlement
  <2> QED
    BY <1>1, <1>2, <2>1 DEF AllReturned
<1>5. CASE ~entries[o].active
  <2>1. s.bill \in AllReturned
    BY <1>1, <1>5 DEF AllReturned, Settlement
  <2>2. funds' = funds
    BY <1>0, <1>5, UndoIs
  <2> QED
    BY <1>3, <1>4, <2>1, <2>2
<1>6. CASE entries[o].active
  <2>1. s \in AllSettled /\ s \in [bill : Due, acct : Accounts, amt : Nat, key : Keys]
    BY <1>1, SettlementIs DEF AllSettled
  <2>2. s.bill \notin AllReturned
    BY <1>1, <1>6, ReturnedIs
  <2>3. s.acct = seen[p].row.acct /\ s.amt = entries[o].amt
    BY <1>0, <1>1 DEF Held, Holds, Settlement, At
  <2>4. funds' = [funds EXCEPT ![s.acct] = @ + s.amt]
    <3>1. funds' = [funds EXCEPT ![seen[p].row.acct] =
                      IF entries[o].active THEN @ + entries[o].amt ELSE @]
      BY <1>0 DEF CommitUndo
    <3> QED
      BY <1>6, <2>3, <3>1
  <2>5. TheBills!Return(s)
    BY <1>3, <1>4, <2>1, <2>2, <2>4 DEF TheBills!Return
  <2> QED
    BY <2>1, <2>5 DEF TheBills!Next, TheBills!Settlement
<1> QED
  BY <1>5, <1>6

\* The edit of a transaction corrects its settlement.
LEMMA AmendCorrects ==
  ASSUME Amounts = Nat, BillsKept, Held, NEW p \in Procs, CommitAmend(p)
  PROVE  TheBills!Next
<1>0. PICK o \in Procs : o = req[p].of
  BY AmendIs
<1> DEFINE n == req[p].pays
           s == Settlement(o)
           c == [s EXCEPT !.amt = n]
<1>1. /\ At(p, "amend", "ready") /\ Made(o) /\ n \in Nat
      /\ entries'[o] # NoRow /\ entries'[o].active = entries[o].active
      /\ entries'[o].bill = entries[o].bill /\ entries'[o].acct = entries[o].acct
      /\ entries'[o].amt = n /\ entries'[o].key = entries[o].key
      /\ \A q \in Procs \ {o} : entries'[q] = entries[q]
  BY <1>0, AmendIs
<1>2. s \in AllSettled /\ s \in TheBills!Settlement
  BY <1>1, SettlementIs DEF AllSettled, TheBills!Settlement
<1>3. Settlement(o)' = c
  BY <1>1 DEF Settlement
<1>4. /\ \A q \in Procs : Made(q)' <=> Made(q)
      /\ \A q \in Procs \ {o} : Settlement(q)' = Settlement(q)
  BY <1>1 DEF Settlement, Made
<1>5. \A q \in Procs \ {o} : Made(q) => Settlement(q) # s
  <2> SUFFICES ASSUME NEW q \in Procs \ {o}, Made(q), Settlement(q) = s PROVE FALSE
    OBVIOUS
  <2>1. entries[q].bill = entries[o].bill
    BY <1>1, SettlementIs
  <2> QED
    BY <1>1, <2>1 DEF Held, SettledOnce
<1>6. AllReturned' = AllReturned
  <2>1. \A q \in Procs : entries'[q].bill = entries[q].bill /\ entries'[q].active = entries[q].active
    BY <1>1
  <2> QED
    BY <1>4, <2>1 DEF AllReturned
<1>7. funds' = [funds EXCEPT ![s.acct] = IF s.bill \in AllReturned THEN @ ELSE @ + s.amt - n]
  <2>1. s.acct = seen[p].row.acct /\ s.amt = entries[o].amt
    BY <1>0, <1>1 DEF Held, Holds, Settlement, At
  <2>2. s.bill \in AllReturned <=> ~entries[o].active
    BY <1>1, ReturnedIs
  <2>3. funds' = [funds EXCEPT ![seen[p].row.acct] =
                    IF entries[o].active THEN @ + entries[o].amt - n ELSE @]
    BY <1>0 DEF CommitAmend
  <2> QED
    BY <2>1, <2>2, <2>3
<1> HIDE DEF c, s
<1>8. AllSettled' = (AllSettled \ {s}) \cup {c}
  <2>1. AllSettled \ {s} = {Settlement(q) : q \in {x \in Procs \ {o} : Made(x)}}
    BY <1>5 DEF AllSettled, s
  <2>2. AllSettled' = {Settlement(q) : q \in {x \in Procs \ {o} : Made(x)}} \cup {c}
    BY <1>1, <1>3, <1>4 DEF AllSettled
  <2> QED
    BY <2>1, <2>2
<1>9. TheBills!Amend(s, n)
  BY <1>2, <1>6, <1>7, <1>8 DEF TheBills!Amend, c
<1> QED
  BY <1>1, <1>2, <1>9 DEF TheBills!Next

LEMMA BillsStep ==
  ASSUME Amounts = Nat, BillsKept, Held, AllFunded, [Next]_vars
  PROVE  TheBills!Next \/ UNCHANGED <<funds, AllSettled, AllReturned>>
<1>1. CASE entries' = entries /\ funds' = funds
  BY <1>1 DEF AllSettled, AllReturned, Settlement, Made
<1>2. ASSUME NEW p \in Procs, Begin(p) \/ Step(p) \/ Abort(p)
      PROVE  TheBills!Next \/ UNCHANGED <<funds, AllSettled, AllReturned>>
  BY <1>1, <1>2, MoneyMoves, PaymentSettles, UndoReturns, AmendCorrects DEF AllFunded
<1> QED
  BY <1>1, <1>2 DEF Next, Tick, AllOver, vars

LEMMA BillsInit == Init => TheBills!Init
<1> SUFFICES ASSUME Init PROVE TheBills!Init
  OBVIOUS
<1>1. AllSettled = {} /\ AllReturned = {}
  BY DEF Init, AllSettled, AllReturned, Made
<1>2. funds \in [Accounts -> Nat]
  BY FixedExpensesAssumption DEF Init
<1> QED
  BY <1>1, <1>2 DEF TheBills!Init
-----------------------------------------------------------------------------
(* Pending bills follow their template, as long as nobody else edits.      *)

Solo == \A p, q \in Editors : p = q

Follows(x) ==
  LET t == template[x[1]] IN
  /\ Open(x[1])
  /\ bills[x].due = t.amt /\ bills[x].cur = t.cur
  /\ x[2] \in t.dates \/ x[2] < today

Plan == \A x \in Due : Pending(x) => Follows(x)

\* A slot has one request, but for those that read pages again and again.
OneRequest == \A p \in Procs : pc[p] = "idle" => p \in Daemons \/ req[p] = NoRequest

\* What an editor has read is still so: the templates of a page, the template of an
\* update and, once it has looked for them, the pending bills.
Informed(p) ==
  /\ At(p, "page", "read") =>
       \A t \in Templates : seen[p].old[t] # NoRow => template[t] = seen[p].old[t] /\ Open(t)
  /\ pc[p] \in {"read", "locked", "pending", "ready"} /\ req[p].op = "update" =>
       template[req[p].tmpl] = Old(p)
  /\ pc[p] \in {"pending", "ready"} /\ req[p].op = "update" =>
       /\ seen[p].day <= today
       /\ \A d \in Days : Pending(<<req[p].tmpl, d>>) => d \in seen[p].pending

Planned == OneRequest /\ (Solo => Plan /\ \A p \in Procs : Informed(p))

LEMMA StaysOneRequest ==
  ASSUME TypeOK, OneRequest, NEW p \in Procs, Begin(p) \/ Step(p) \/ Abort(p)
  PROVE  OneRequest' /\ Editors \subseteq Editors'
<1>1. \A q \in Procs \ {p} : pc'[q] = pc[q] /\ req'[q] = req[q]
  BY StepMoves DEF Moves
<1>2. CASE Begin(p)
  <2>1. PICK r \in RequestsOf[p] : req' = [req EXCEPT ![p] = r]
    BY <1>2 DEF Begin
  <2>2. /\ pc[p] = "idle" /\ pc'[p] # "idle" /\ req'[p] = r /\ r \in Request /\ r # NoRequest
        /\ p \in Daemons => r.op = "page"
    BY <1>2, <2>1, FixedExpensesAssumption DEF Begin, TypeOK
  <2>3. p \in Daemons \/ req[p] = NoRequest
    BY <2>2 DEF OneRequest
  <2> QED
    BY <1>1, <2>2, <2>3 DEF OneRequest, Editors
<1>3. CASE Step(p) \/ Abort(p)
  <2>1. pc[p] \in Begun /\ req' = req
    BY <1>3, StepKeepsRequest
  <2>2. pc'[p] = "idle" => p \in Daemons
    <3>1. ASSUME NEW how \in Finished, Finish(p, how) PROVE pc'[p] = "idle" => p \in Daemons
      BY <3>1 DEF Finish, Finished, TypeOK
    <3>2. ASSUME NEW label \in Begun, NEW found, Goto(p, label, found) PROVE pc'[p] # "idle"
      BY <3>2 DEF Goto, Begun, TypeOK
    <3>3. CASE Abort(p)
      BY <3>1, <3>3 DEF Abort, Finished
    <3>4. CASE Calendar(p)
      BY <3>1, <3>2, <3>4 DEF Calendar, CreateTemplate, ReadTemplates, FillCalendar, Finished, Begun
    <3>5. CASE Edit(p)
      BY <3>1, <3>2, <3>5 DEF Edit, ReadTemplate, LockTemplate, ReadPending, ReadCalendar,
         CommitUpdate, CommitDelete, Proceed, Finished, Begun
    <3>6. CASE Pay(p)
      BY <3>1, <3>2, <3>6 DEF Pay, ReadBill, LockAccount, CheckBill, CommitPay, Proceed, Refuse,
         Finished, Begun
    <3>7. CASE Correct(p)
      BY <3>1, <3>2, <3>7 DEF Correct, ReadEntry, CommitUndo, CheckAmend, CommitAmend,
         Proceed, Finished, Begun
    <3> QED
      BY <1>3, <3>3, <3>4, <3>5, <3>6, <3>7 DEF Step
  <2> QED
    BY <1>1, <2>1, <2>2 DEF OneRequest, Editors
<1> QED
  BY <1>2, <1>3

\* A step that writes no template and makes no bill pending.
LEMMA PlanStays ==
  ASSUME Plan, template' = template, today' = today,
         \A x \in Due : bills'[x] # bills[x] =>
           ~(bills'[x] # NoRow /\ bills'[x].active /\ bills'[x].paid = 0)
  PROVE  Plan' /\ \A x \in Due : Pending(x)' => Pending(x)
<1> SUFFICES ASSUME NEW x \in Due, Pending(x)' PROVE Pending(x) /\ Follows(x)'
  BY DEF Plan
<1>1. bills'[x] = bills[x]
  BY DEF Pending, Written
<1>2. Pending(x)
  BY <1>1 DEF Pending, Written
<1> QED
  BY <1>1, <1>2 DEF Plan, Follows, Open

\* The calendar of a template is filled: with bills that say what it says.
LEMMA FilledFollows ==
  ASSUME Plan, NEW t \in Templates, NEW row \in Template, row.active, NEW day \in Int,
         bills' = Filled(t, row, day), template'[t] = row, template[t] \in {row, NoRow},
         \A u \in Templates \ {t} : template'[u] = template[u], today' = today
  PROVE  Plan' /\ \A x \in Due : x[1] # t => (Pending(x)' => Pending(x))
<1>0. row # NoRow
  BY FixedExpensesAssumption
<1>1. ASSUME NEW x \in Due, Pending(x)', bills'[x] = bills[x] PROVE Pending(x) /\ Follows(x)'
  <2>1. Pending(x)
    BY <1>1 DEF Pending, Written
  <2>2. Follows(x) /\ Open(x[1])
    BY <2>1 DEF Plan, Follows
  <2>3. x[1] \in Templates /\ template'[x[1]] = template[x[1]]
    BY <2>2 DEF Due, Open
  <2> QED
    BY <1>1, <2>1, <2>2, <2>3 DEF Follows, Open
<1>2. ASSUME NEW x \in Due, bills'[x] # bills[x] PROVE x[1] = t /\ Follows(x)'
  <2>1. x[1] = t /\ x[2] \in row.dates /\ bills'[x] = NewBill(row)
    BY <1>2 DEF Filled, DueDates
  <2> QED
    BY <1>0, <2>1 DEF Follows, Open, NewBill
<1> QED
  BY <1>1, <1>2 DEF Plan

\* An update that commits leaves no pending bill that says anything else.
LEMMA RevisedFollows ==
  ASSUME BillsKept, Held, NEW p \in Procs, CommitUpdate(p), Informed(p), Plan,
         NEW x \in Due, x[1] = req[p].tmpl, Pending(x)'
  PROVE  Follows(x)'
<1> DEFINE t == req[p].tmpl
           r == req[p]
<1>1. /\ pc[p] \in {"locked", "ready"} /\ r.op = "update" /\ r.plan \in Template /\ seen[p] \in Seen
      /\ t \in Templates /\ template[t] \in Template
      /\ New(p) \in Template /\ New(p) # NoRow /\ New(p).active = template[t].active
      /\ template'[t] = New(p) /\ bills'[x] = Revised(p, x) /\ today' = today
  BY UpdateIs DEF CommitUpdate
<1>2. Open(t) /\ template[t] = Old(p)
  BY <1>1 DEF Held, Holds, Informed
<1>3. /\ New(p).amt = IF "amt" \in r.sends THEN r.plan.amt ELSE Old(p).amt
      /\ New(p).cur = IF "cur" \in r.sends THEN r.plan.cur ELSE Old(p).cur
      /\ New(p).dates = IF "dates" \in r.sends THEN r.plan.dates ELSE Old(p).dates
  BY <1>2 DEF New, Merged
<1>4. /\ template'[x[1]] # NoRow /\ template'[x[1]].active
      /\ bills'[x] # NoRow /\ bills'[x].active /\ bills'[x].paid = 0
  BY <1>1, <1>2 DEF Open, Pending, Written
<1>5. SUFFICES /\ bills'[x].due = New(p).amt /\ bills'[x].cur = New(p).cur
               /\ x[2] \in New(p).dates \/ x[2] < today
  BY <1>1, <1>4 DEF Follows, Open
<1>6. CASE Reschedules(p) /\ x[2] \in NewDates(p) \ seen[p].known
  <2>1. bills'[x] = Upserted(p, x)
    BY <1>1, <1>6 DEF Revised, Obsolete
  <2>2. bills[x] \in Bill \cup {NoRow}
    BY DEF BillsKept, TypeOK
  <2>3. Upserted(p, x).due = New(p).amt /\ Upserted(p, x).cur = New(p).cur
    BY <2>2 DEF Upserted, Written, NewBill, Bill
  <2> QED
    BY <1>6, <2>1, <2>3 DEF NewDates, DueDates
<1>7. CASE ~(Reschedules(p) /\ x[2] \in NewDates(p) \ seen[p].known) /\ ~Pending(x)
  <2>1. bills'[x] = bills[x]
    BY <1>1, <1>7 DEF Revised
  <2> QED
    BY <1>4, <1>7, <2>1 DEF Pending, Written
<1>8. CASE ~(Reschedules(p) /\ x[2] \in NewDates(p) \ seen[p].known) /\ Pending(x)
  <2>1. bills[x] \in Bill /\ Follows(x) /\ x = <<t, x[2]>> /\ x[2] \in Days
    BY <1>8 DEF BillsKept, TypeOK, Pending, Written, Plan, Due
  <2>2. /\ bills[x].due = Old(p).amt /\ bills[x].cur = Old(p).cur
        /\ x[2] \in Old(p).dates \/ x[2] < today
    BY <1>2, <2>1 DEF Follows
  <2>3. Reschedules(p) => pc[p] = "ready" /\ x[2] \in seen[p].pending /\ seen[p].day <= today
    <3>1. Reschedules(p) => pc[p] = "ready"
      BY DEF CommitUpdate, At
    <3> QED
      BY <1>1, <1>8, <2>1, <3>1 DEF Informed
  <2>4. /\ Synced(p, bills[x]).due = New(p).amt /\ Synced(p, bills[x]).cur = New(p).cur
    <3>1. /\ Synced(p, bills[x]).due =
               IF Changed(r, Old(p), "amt") THEN r.plan.amt ELSE bills[x].due
          /\ Synced(p, bills[x]).cur =
               IF Changed(r, Old(p), "cur") THEN r.plan.cur ELSE bills[x].cur
      BY <2>1 DEF Synced, Bill
    <3> QED
      BY <1>3, <2>2, <3>1 DEF Changed
  <2>5. CASE Reschedules(p) /\ Obsolete(p, x)
    <3>1. bills'[x] = [Synced(p, bills[x]) EXCEPT !.active = FALSE]
      BY <1>1, <1>8, <2>3, <2>5 DEF Revised
    <3>2. DOMAIN Synced(p, bills[x]) = DOMAIN bills[x]
      BY DEF Synced
    <3>3. ~bills'[x].active
      BY <2>1, <3>1, <3>2 DEF Bill
    <3> QED
      BY <1>4, <3>3
  <2>6. CASE ~(Reschedules(p) /\ Obsolete(p, x))
    <3>1. bills'[x] = Synced(p, bills[x])
      BY <1>1, <1>8, <2>3, <2>6 DEF Revised
    <3>2. x[2] \in New(p).dates \/ x[2] < today
      <4>1. CASE Reschedules(p)
        <5>1. x[2] < seen[p].day \/ x[2] \in NewDates(p)
          <6>1. x[2] \in Int /\ seen[p].day \in Int
            BY <1>1, <2>1, FixedExpensesAssumption DEF Seen, Days
          <6> QED
            BY <2>6, <4>1, <6>1 DEF Obsolete
        <5>2. today \in Int /\ x[2] \in Int /\ seen[p].day \in Int
          BY <1>1, <2>1, FixedExpensesAssumption DEF Seen, Days, BillsKept, TypeOK
        <5> QED
          BY <2>3, <4>1, <5>1, <5>2 DEF NewDates, DueDates
      <4>2. CASE ~Reschedules(p)
        BY <1>3, <2>2, <4>2 DEF Reschedules, Changed
      <4> QED
        BY <4>1, <4>2
    <3> QED
      BY <2>4, <3>1, <3>2
  <2> QED
    BY <2>5, <2>6
<1> QED
  BY <1>6, <1>7, <1>8
\* What a slot has read stays so if templates and pending bills do.
LEMMA StaysInformed ==
  ASSUME BillsKept, NEW q \in Procs, Informed(q), pc'[q] = pc[q], req'[q] = req[q],
         seen'[q] = seen[q], today <= today', today' \in Int,
         \A t \in Templates : template[t] # NoRow => template'[t] = template[t],
         \A x \in Due : template[x[1]] # NoRow /\ Pending(x)' => Pending(x)
  PROVE  Informed(q)'
<1>1. At(q, "page", "read")' =>
        \A t \in Templates : seen'[q].old[t] # NoRow =>
          template'[t] = seen'[q].old[t] /\ template'[t] # NoRow /\ template'[t].active
  BY DEF Informed, At, Open
<1>2. ASSUME pc[q] \in Begun \ {"begun"}, req[q].op = "update"
      PROVE  /\ req[q].tmpl \in Templates /\ seen[q] \in Seen
             /\ template[req[q].tmpl] # NoRow
  <2>1. TypeOK /\ template[req[q].tmpl] \in Template
    BY <1>2 DEF BillsKept, Served
  <2>2. pc[q] \in Begun
    BY <1>2
  <2> QED
    BY <2>1, <2>2, RequestTypes, FixedExpensesAssumption
<1>3. pc[q] \in {"read", "locked", "pending", "ready"} => pc[q] \in Begun \ {"begun"}
  BY DEF Begun
<1>4. pc[q] \in {"read", "locked", "pending", "ready"} /\ req[q].op = "update" =>
        template'[req[q].tmpl] = seen[q].old[req[q].tmpl]
  BY <1>2, <1>3 DEF Informed, Old
<1>5. pc[q] \in {"pending", "ready"} /\ req[q].op = "update" => seen[q].day <= today'
  <2> SUFFICES ASSUME pc[q] \in {"pending", "ready"}, req[q].op = "update"
               PROVE  seen[q].day <= today'
    OBVIOUS
  <2>1. seen[q] \in Seen
    BY <1>2, <1>3
  <2>2. seen[q].day \in Int /\ today \in Int
    BY <2>1, FixedExpensesAssumption DEF Seen, BillsKept, TypeOK
  <2> QED
    BY <2>2 DEF Informed
<1>6. pc[q] \in {"pending", "ready"} /\ req[q].op = "update" =>
        \A d \in Days : Pending(<<req[q].tmpl, d>>)' => d \in seen[q].pending
  <2> SUFFICES ASSUME pc[q] \in {"pending", "ready"}, req[q].op = "update", NEW d \in Days,
                      Pending(<<req[q].tmpl, d>>)'
               PROVE  d \in seen[q].pending
    OBVIOUS
  <2>1. req[q].tmpl \in Templates /\ template[req[q].tmpl] # NoRow
    BY <1>2, <1>3
  <2>2. req'[q].tmpl = req[q].tmpl
    OBVIOUS
  <2>3. \A t \in Templates : t = req[q].tmpl /\ template[t] # NoRow /\ Pending(<<t, d>>)'
                                => Pending(<<t, d>>)
    BY DEF Due
  <2>4. Pending(<<req[q].tmpl, d>>)
    BY <2>1, <2>2, <2>3 DEF Pending, Written
  <2> QED
    BY <2>4 DEF Informed
<1> QED
  BY <1>1, <1>4, <1>5, <1>6 DEF Informed, At, Old, Open, Pending, Written
\* A step of a request that has nothing to do with the calendar.
LEMMA OutsiderKeepsPlan ==
  ASSUME BillsKept, Plan, NEW p \in Procs, CreateTemplate(p) \/ Pay(p) \/ Correct(p)
  PROVE  /\ Plan' /\ today' = today /\ req' = req /\ req[p].op \notin {"update", "delete", "page"}
         /\ \A t \in Templates : template[t] # NoRow => template'[t] = template[t]
         /\ \A x \in Due : template[x[1]] # NoRow /\ Pending(x)' => Pending(x)
<1>0. TypeOK
  BY DEF BillsKept
<1>1. req' = req
  BY StepKeepsRequest DEF Step, Calendar
<1>2. CASE CreateTemplate(p)
  <2> DEFINE t == req[p].tmpl
             row == req[p].plan
  <2>1. /\ pc[p] \in Begun /\ req[p].op = "create" /\ template[t] = NoRow /\ today' = today
        /\ template' = [template EXCEPT ![t] = row] /\ bills' = Filled(t, row, today)
    BY <1>2 DEF CreateTemplate, At, Begun
  <2>2. t \in Templates /\ row \in Template /\ today \in Int
    BY <1>0, <2>1, RequestTypes, FixedExpensesAssumption DEF TypeOK
  <2>3. row.active
    BY <2>1, FixedExpensesAssumption DEF BillsKept, Served
  <2>4. template'[t] = row /\ \A u \in Templates \ {t} : template'[u] = template[u]
    BY <1>0, <2>1, <2>2 DEF TypeOK
  <2> HIDE DEF t, row
  <2>5. Plan' /\ \A x \in Due : x[1] # t => (Pending(x)' => Pending(x))
    BY <2>1, <2>2, <2>3, <2>4, FilledFollows
  <2> QED
    BY <1>1, <2>1, <2>4, <2>5
<1>3. CASE Pays(p)
  <2> DEFINE b == BillOf(p)
  <2>1. /\ req[p].op = "pay" /\ template' = template /\ today' = today
        /\ bills' = [bills EXCEPT ![b] = [@ EXCEPT !.paid = seen[p].due, !.key = req[p].key]]
    BY <1>3 DEF Pays, At
  <2>2. bills'[b].paid # 0 /\ \A x \in Due : x # b => bills'[x] = bills[x]
    BY <1>3, PaysIs
  <2> HIDE DEF b
  <2>3. \A x \in Due : bills'[x] # bills[x] =>
           ~(bills'[x] # NoRow /\ bills'[x].active /\ bills'[x].paid = 0)
    BY <2>2
  <2>4. Plan' /\ \A x \in Due : Pending(x)' => Pending(x)
    BY <2>1, <2>3, PlanStays
  <2> QED
    BY <1>1, <2>1, <2>4
<1>4. CASE (Pay(p) \/ Correct(p)) /\ ~Pays(p)
  <2>1. /\ req[p].op \in {"pay", "undo", "amend"} /\ template' = template /\ today' = today
        /\ bills' = bills
    BY <1>4 DEF Pay, Correct, ReadBill, LockAccount, CheckBill, CommitPay, Pays, ReadEntry,
       CommitUndo, CheckAmend, CommitAmend, Proceed, Refuse, data, At
  <2>2. Plan' /\ \A x \in Due : Pending(x)' => Pending(x)
    BY <2>1, PlanStays
  <2> QED
    BY <1>1, <2>1, <2>2
<1> QED
  BY <1>2, <1>3, <1>4

\* A step of the only request that edits.
LEMMA EditorKeepsPlan ==
  ASSUME BillsKept, Held, Plan, NEW p \in Procs, Informed(p),
         ReadTemplates(p) \/ (\E t \in Templates : FillCalendar(p, t)) \/ Edit(p)
  PROVE  Plan' /\ req' = req /\ req[p].op \in {"update", "delete", "page"}
<1>0. TypeOK
  BY DEF BillsKept
<1>1. /\ req' = req /\ req[p].op \in {"update", "delete", "page"} /\ pc[p] \in Begun
      /\ today' = today
  BY StepKeepsRequest DEF Step, Calendar, Edit, ReadTemplates, FillCalendar, ReadTemplate,
     LockTemplate, ReadPending, ReadCalendar, CommitUpdate, CommitDelete, Proceed, data, At
<1>2. ASSUME NEW t \in Templates, FillCalendar(p, t) PROVE Plan'
  <2> DEFINE row == seen[p].old[t]
  <2>1. /\ template[t] = row /\ Open(t) /\ row # NoRow /\ template' = template
        /\ bills' = Filled(t, row, seen[p].day)
    BY <1>2 DEF FillCalendar, Left, Informed
  <2>2. seen[p] \in Seen
    BY <1>0, <1>1, RequestTypes
  <2>3. row \in Template /\ row.active /\ seen[p].day \in Int
    BY <2>1, <2>2 DEF Seen, Open
  <2> HIDE DEF row
  <2> QED
    BY <1>1, <2>1, <2>3, FilledFollows
<1>3. ASSUME CommitUpdate(p) PROVE Plan'
  <2> DEFINE t == req[p].tmpl
  <2>1. /\ \A u \in Templates \ {t} : template'[u] = template[u]
        /\ \A x \in Due : x[1] # t => bills'[x] = bills[x]
    BY <1>3, UpdateIs
  <2> SUFFICES ASSUME NEW x \in Due, Pending(x)' PROVE Follows(x)'
    BY DEF Plan
  <2>2. CASE x[1] = t
    BY <1>3, <2>2, RevisedFollows
  <2>3. CASE x[1] # t
    <3>1. x[1] \in Templates
      BY DEF Due
    <3>2. bills'[x] = bills[x] /\ template'[x[1]] = template[x[1]]
      BY <2>1, <2>3, <3>1
    <3>3. Pending(x)
      BY <3>2 DEF Pending, Written
    <3> QED
      BY <1>1, <3>2, <3>3 DEF Plan, Follows, Open
  <2> QED
    BY <2>2, <2>3
<1>4. ASSUME CommitDelete(p), Open(req[p].tmpl) PROVE Plan'
  <2> DEFINE t == req[p].tmpl
  <2>1. /\ template' = [template EXCEPT ![t] = [@ EXCEPT !.active = FALSE]]
        /\ bills' = [x \in Due |-> IF x[1] = t /\ Pending(x)
                                   THEN [bills[x] EXCEPT !.active = FALSE] ELSE bills[x]]
    BY <1>4 DEF CommitDelete
  <2>2. \A u \in Templates : u # t => template'[u] = template[u]
    BY <1>0, <2>1 DEF TypeOK
  <2> HIDE DEF t
  <2> SUFFICES ASSUME NEW x \in Due, Pending(x)' PROVE Follows(x)'
    BY DEF Plan
  <2>3. CASE x[1] = t
    <3>1. CASE Pending(x)
      <4>1. bills[x] \in Bill /\ bills'[x] = [bills[x] EXCEPT !.active = FALSE]
        BY <1>0, <2>1, <2>3, <3>1 DEF TypeOK, Pending, Written
      <4>2. ~bills'[x].active
        BY <4>1 DEF Bill
      <4> QED
        BY <4>2 DEF Pending
    <3>2. CASE ~Pending(x)
      BY <2>1, <3>2 DEF Pending, Written
    <3> QED
      BY <3>1, <3>2
  <2>4. CASE x[1] # t
    <3>1. x[1] \in Templates
      BY DEF Due
    <3>2. bills'[x] = bills[x] /\ template'[x[1]] = template[x[1]]
      BY <2>1, <2>2, <2>4, <3>1
    <3>3. Pending(x)
      BY <3>2 DEF Pending, Written
    <3> QED
      BY <1>1, <3>2, <3>3 DEF Plan, Follows, Open
  <2> QED
    BY <2>3, <2>4
<1>5. CASE template' = template /\ bills' = bills
  BY <1>1, <1>5, PlanStays
<1>6. Edit(p) => \/ CommitUpdate(p)
                 \/ CommitDelete(p) /\ Open(req[p].tmpl)
                 \/ template' = template /\ bills' = bills
  BY DEF Edit, ReadTemplate, LockTemplate, ReadPending, ReadCalendar, CommitDelete, Proceed, data
<1>7. ReadTemplates(p) => template' = template /\ bills' = bills
  BY DEF ReadTemplates, data
<1>8. Plan'
  BY <1>2, <1>3, <1>4, <1>5, <1>6, <1>7
<1> QED
  BY <1>1, <1>8
\* What a request reads itself is so when it reads it.
LEMMA OwnReading ==
  ASSUME BillsKept, NEW p \in Procs, Informed(p), Begin(p) \/ Step(p) \/ Abort(p)
  PROVE  Informed(p)'
<1>0. TypeOK
  BY DEF BillsKept
<1> DEFINE Idle == pc'[p] \notin {"read", "locked", "pending", "ready"}
<1>1. CASE Idle
  BY <1>1 DEF Informed, At
<1>2. ASSUME NEW how \in Finished, Finish(p, how) PROVE Informed(p)'
  <2>1. pc'[p] \in {"idle", how}
    BY <1>0, <1>2 DEF Finish, TypeOK
  <2> QED
    BY <1>1, <2>1 DEF Finished
<1>3. CASE Begin(p)
  BY <1>0, <1>1, <1>3 DEF Begin, TypeOK
<1>4. CASE req' = req /\ req[p].op \notin {"page", "update"}
  BY <1>4 DEF Informed, At
<1> HIDE DEF Idle
<1>5. CASE Abort(p)
  BY <1>2, <1>5 DEF Abort, Finished
<1>6. CASE CreateTemplate(p) \/ Pay(p) \/ Correct(p) \/ CommitDelete(p)
  <2>1. req' = req
    BY <1>6, StepKeepsRequest DEF Step, Calendar, Edit
  <2>2. req[p].op \notin {"page", "update"}
    BY <1>6 DEF CreateTemplate, Pay, CommitDelete, ReadBill, LockAccount, CheckBill,
       CommitPay, Correct, ReadEntry, CommitUndo, CheckAmend, CommitAmend, At
  <2> QED
    BY <1>4, <2>1, <2>2
<1>7. CASE ReadTemplates(p)
  <2> DEFINE ts == {t \in Templates : Open(t)}
  <2>1. CASE Goto(p, "read", Read(ts))
    <3>1. pc'[p] = "read" /\ seen'[p] = Read(ts) /\ req' = req
      BY <1>0, <2>1 DEF Goto, TypeOK
    <3>2. template' = template /\ req[p].op = "page"
      BY <1>7 DEF ReadTemplates, data, At
    <3>3. Read(ts).old = [t \in Templates |-> IF t \in ts THEN template[t] ELSE NoRow]
      BY DEF Read, Nothing
    <3> QED
      BY <3>1, <3>2, <3>3 DEF Informed, At, Open
  <2>2. CASE Finish(p, "done")
    BY <1>2, <2>2 DEF Finished
  <2> QED
    BY <1>7, <2>1, <2>2 DEF ReadTemplates
<1>8. ASSUME NEW t \in Templates, FillCalendar(p, t) PROVE Informed(p)'
  <2>1. CASE Goto(p, "read", [seen[p] EXCEPT !.old[t] = NoRow])
    <3>1. pc[p] \in Begun /\ At(p, "page", "read") /\ template' = template
      BY <1>8 DEF FillCalendar, At, Begun
    <3>2. seen[p] \in Seen
      BY <1>0, <3>1, RequestTypes
    <3>3. pc'[p] = "read" /\ seen'[p] = [seen[p] EXCEPT !.old[t] = NoRow] /\ req' = req
      BY <1>0, <2>1 DEF Goto, TypeOK
    <3>4. \A u \in Templates : seen'[p].old[u] = IF u = t THEN NoRow ELSE seen[p].old[u]
      BY <3>2, <3>3 DEF Seen
    <3> QED
      BY <3>1, <3>3, <3>4 DEF Informed, At, Open
  <2>2. CASE Finish(p, "done")
    BY <1>2, <2>2 DEF Finished
  <2> QED
    BY <1>8, <2>1, <2>2 DEF FillCalendar
<1>9. CASE ReadTemplate(p)
  <2> DEFINE t == req[p].tmpl
  <2>1. CASE Goto(p, "read", Read({t}))
    <3>1. pc[p] \in Begun /\ template' = template /\ req[p].op \in {"update", "delete"}
      BY <1>9 DEF ReadTemplate, At, Begun, Proceed, data
    <3>2. t \in Templates
      BY <1>0, <3>1, RequestTypes
    <3>3. pc'[p] = "read" /\ seen'[p] = Read({t}) /\ req' = req
      BY <1>0, <2>1 DEF Goto, TypeOK
    <3>4. Read({t}).old[t] = template[t]
      BY <3>2 DEF Read, Nothing
    <3> QED
      BY <3>1, <3>3, <3>4 DEF Informed, At, Old
  <2>2. CASE Finish(p, "rejected")
    BY <1>2, <2>2 DEF Finished
  <2> QED
    BY <1>9, <2>1, <2>2 DEF ReadTemplate, Proceed
<1>10. CASE LockTemplate(p)
  <2>1. CASE Goto(p, "locked", seen[p])
    <3>1. /\ pc[p] = "read" /\ req[p].op = "update" /\ template' = template /\ req' = req
          /\ pc'[p] = "locked" /\ seen'[p] = seen[p]
      BY <1>0, <1>10, <2>1 DEF LockTemplate, At, Goto, TypeOK, data
    <3> QED
      BY <3>1 DEF Informed, At, Old
  <2>2. CASE Finish(p, "rejected")
    BY <1>2, <2>2 DEF Finished
  <2> QED
    BY <1>10, <2>1, <2>2 DEF LockTemplate
<1>11. CASE ReadPending(p)
  <2> DEFINE t == req[p].tmpl
             ds == {d \in Days : Pending(<<t, d>>)}
             found == [seen[p] EXCEPT !.day = today, !.pending = ds]
  <2>1. /\ pc[p] = "locked" /\ pc[p] \in Begun /\ req[p].op = "update" /\ Goto(p, "pending", found)
        /\ template' = template /\ bills' = bills /\ today' = today
    BY <1>11 DEF ReadPending, At, Begun, data
  <2>2. seen[p] \in Seen /\ today \in Int
    BY <1>0, <2>1, RequestTypes, FixedExpensesAssumption DEF TypeOK
  <2>3. found.old = seen[p].old /\ found.day = today /\ found.pending = ds
    BY <2>2 DEF Seen
  <2>4. \A d \in Days : Pending(<<t, d>>) => d \in ds
    OBVIOUS
  <2> HIDE DEF found, ds
  <2>5. pc'[p] = "pending" /\ seen'[p] = found /\ req' = req
    BY <1>0, <2>1 DEF Goto, TypeOK
  <2> QED
    BY <2>1, <2>2, <2>3, <2>4, <2>5 DEF Informed, At, Old, Pending, Written
<1>12. CASE ReadCalendar(p)
  <2> DEFINE ds == {d \in Days : Written(<<req[p].tmpl, d>>) /\ bills[<<req[p].tmpl, d>>].active}
             found == [seen[p] EXCEPT !.known = ds]
  <2>1. /\ pc[p] = "pending" /\ pc[p] \in Begun /\ req[p].op = "update" /\ Goto(p, "ready", found)
        /\ template' = template /\ bills' = bills /\ today' = today
    BY <1>12 DEF ReadCalendar, At, Begun, data
  <2>2. seen[p] \in Seen
    BY <1>0, <2>1, RequestTypes
  <2>3. found.old = seen[p].old /\ found.day = seen[p].day /\ found.pending = seen[p].pending
    BY <2>2 DEF Seen
  <2> HIDE DEF found, ds
  <2>5. pc'[p] = "ready" /\ seen'[p] = found /\ req' = req
    BY <1>0, <2>1 DEF Goto, TypeOK
  <2> QED
    BY <2>1, <2>2, <2>3, <2>5 DEF Informed, At, Old, Pending, Written
<1>13. CASE CommitUpdate(p)
  BY <1>2, <1>13 DEF CommitUpdate, Finished
<1> QED
  BY <1>3, <1>5, <1>6, <1>7, <1>8, <1>9, <1>10, <1>11, <1>12, <1>13 DEF Step, Calendar, Edit

\* A slot that edits nothing remembers nothing.
LEMMA OutsiderIsInformed ==
  ASSUME TypeOK', NEW q \in Procs, q \notin Editors'
  PROVE  Informed(q)'
<1>1. pc'[q] \in {"read", "locked", "pending", "ready"} => req'[q] \in Request /\ req'[q] # NoRequest
  BY FixedExpensesAssumption DEF TypeOK, Begun
<1>2. pc'[q] \in {"read", "locked", "pending", "ready"} =>
        req'[q].op \notin {"update", "delete", "page"}
  BY <1>1 DEF Editors
<1> QED
  BY <1>2 DEF Informed, At

LEMMA PlannedStays == BillsKept /\ Held /\ Planned /\ [Next]_vars => Planned'
<1> SUFFICES ASSUME BillsKept, Held, Planned, [Next]_vars PROVE Planned'
  OBVIOUS
<1>0. TypeOK /\ BillsKept' /\ TypeOK'
  BY BillsStayKept DEF BillsKept
<1>1. ASSUME NEW p \in Procs, Begin(p) \/ Step(p) \/ Abort(p) PROVE Planned'
  <2>1. OneRequest' /\ Editors \subseteq Editors'
    BY <1>0, <1>1, StaysOneRequest DEF Planned
  <2> SUFFICES ASSUME Solo' PROVE Plan' /\ \A q \in Procs : Informed(q)'
    BY <2>1 DEF Planned
  <2>2. Plan /\ \A q \in Procs : Informed(q)
    BY <2>1 DEF Solo, Planned
  <2>3. /\ Informed(p)'
        /\ \A q \in Procs \ {p} : pc'[q] = pc[q] /\ req'[q] = req[q] /\ seen'[q] = seen[q]
    BY <1>0, <1>1, <2>2, OwnReading, StepMoves DEF Moves
  <2>4. today \in Int
    BY <1>0, FixedExpensesAssumption DEF TypeOK
  <2>5. CASE CreateTemplate(p) \/ Pay(p) \/ Correct(p)
    <3>1. /\ Plan' /\ today' = today
          /\ \A t \in Templates : template[t] # NoRow => template'[t] = template[t]
          /\ \A x \in Due : template[x[1]] # NoRow /\ Pending(x)' => Pending(x)
      BY <2>2, <2>5, OutsiderKeepsPlan
    <3>2. today <= today' /\ today' \in Int
      BY <2>4, <3>1
    <3>3. ASSUME NEW q \in Procs, q # p PROVE Informed(q)'
      BY <2>2, <2>3, <3>1, <3>2, <3>3, StaysInformed
    <3> QED
      BY <2>3, <3>1, <3>3
  <2>6. CASE Begin(p) \/ Abort(p)
    <3>1. template' = template /\ bills' = bills /\ today' = today
      BY <2>6 DEF Begin, Abort, data
    <3>2. Plan' /\ \A x \in Due : Pending(x)' => Pending(x)
      BY <2>2, <3>1, PlanStays
    <3>3. today <= today' /\ today' \in Int
      BY <2>4, <3>1
    <3>4. ASSUME NEW q \in Procs, q # p PROVE Informed(q)'
      BY <2>2, <2>3, <3>1, <3>2, <3>3, <3>4, StaysInformed
    <3> QED
      BY <2>3, <3>2, <3>4
  <2>7. CASE ReadTemplates(p) \/ (\E t \in Templates : FillCalendar(p, t)) \/ Edit(p)
    <3>1. Plan' /\ req' = req /\ req[p].op \in {"update", "delete", "page"}
      BY <2>2, <2>7, EditorKeepsPlan
    <3>2. req[p] # NoRequest
      <4>1. pc[p] \in Begun
        BY <2>7, StepKeepsRequest DEF Step, Calendar
      <4> QED
        BY <1>0, <4>1, RequestTypes, FixedExpensesAssumption
    <3>3. p \in Editors'
      BY <3>1, <3>2 DEF Editors
    <3>4. ASSUME NEW q \in Procs, q # p PROVE Informed(q)'
      <4>1. q \notin Editors'
        BY <3>3, <3>4 DEF Solo
      <4> QED
        BY <1>0, <4>1, OutsiderIsInformed
    <3> QED
      BY <2>3, <3>1, <3>4
  <2> QED
    BY <1>1, <2>5, <2>6, <2>7 DEF Step, Calendar
<1>2. CASE Tick
  <2>1. /\ today' = today + 1 /\ UNCHANGED <<template, bills, pc, req, seen>>
    BY <1>2 DEF Tick
  <2>2. OneRequest' /\ Editors' = Editors
    BY <2>1 DEF Planned, OneRequest, Editors
  <2> SUFFICES ASSUME Solo' PROVE Plan' /\ \A q \in Procs : Informed(q)'
    BY <2>2 DEF Planned
  <2>3. Plan /\ \A q \in Procs : Informed(q)
    BY <2>2 DEF Solo, Planned
  <2>4. today \in Int /\ \A x \in Due : x[2] \in Int
    BY <1>0, FixedExpensesAssumption DEF TypeOK, Due, Days
  <2>5. today <= today' /\ today' \in Int
    BY <2>1, <2>4
  <2>6. \A x \in Due : x[2] < today => x[2] < today'
    BY <2>1, <2>4
  <2>7. \A x \in Due : Pending(x)' <=> Pending(x)
    BY <2>1 DEF Pending, Written
  <2>8. Plan'
    BY <2>1, <2>3, <2>6, <2>7 DEF Plan, Follows, Open
  <2>9. \A q \in Procs : Informed(q)'
    BY <2>1, <2>3, <2>5, <2>7, StaysInformed
  <2> QED
    BY <2>8, <2>9
<1>3. CASE UNCHANGED vars
  BY <1>3 DEF vars, Planned, OneRequest, Solo, Editors, Plan, Follows, Informed, At, Old, Open,
     Pending, Written
<1> QED
  BY <1>1, <1>2, <1>3 DEF Next, AllOver

LEMMA PlannedAtFirst == Init => Planned
<1> SUFFICES ASSUME Init PROVE Planned
  OBVIOUS
<1>1. OneRequest /\ \A p \in Procs : Informed(p)
  BY DEF Init, OneRequest, Informed, At
<1>2. ASSUME NEW x \in Due, Pending(x) PROVE Follows(x)
  <2>1. /\ x[1] \in Templates /\ template[x[1]] = Initial[x[1]] /\ Initial[x[1]] # NoRow
        /\ x[2] \in Initial[x[1]].dates /\ bills[x] = NewBill(Initial[x[1]])
    BY <1>2 DEF Init, Due, Pending, Written, DueDates
  <2>2. Initial[x[1]].active
    BY <2>1, FixedExpensesAssumption
  <2> QED
    BY <2>1, <2>2 DEF Follows, Open, NewBill
<1> QED
  BY <1>1, <1>2 DEF Planned, Plan

-----------------------------------------------------------------------------
(* The theorems on what was promised.                                      *)

\* A payment that is answered with success, the repeated request included, has paid
\* the bill it names with its own key, and nothing ever makes that answer false
\* (payFixedExpense): the bill is asked for again under the unique index of the
\* transaction, and no later write touches what was paid.
THEOREM AnswersAreTrue == Spec => []AnswerIsTrue
<1>1. Init => Asked /\ AnswerIsTrue
  BY DEF Init, Asked, AnswerIsTrue
<1> QED
  BY <1>1, BillsKeptAtFirst, BillsStayKept, StaysAsked, AnswersStay, PTL DEF Spec

\* A bill that was removed with its template is never brought back: an update that
\* could write over it holds the row of the template and has found it open, and
\* pages write only where there is no row (reschedulePayments, generatePayments).
THEOREM RemovedStayRemoved == Spec => RemovedForGood
<1>1. BillsKept /\ Held /\ [Next]_vars =>
        [\A x \in Due : Written(x) /\ ~bills[x].active /\ ~Open(x[1]) => bills'[x] = bills[x]]_vars
  BY RemovedStays
<1> QED
  BY <1>1, BillsKeptAtFirst, BillsStayKept, HeldAtFirst, StaysHeld, PTL DEF Spec, RemovedForGood

\* As long as no two requests edit, delete or fill calendars, a pending bill is one
\* of an open template and says what the template says, whatever payments, deleted
\* transactions, new templates and aborts overlap the edit (updateFixedExpense,
\* deleteFixedExpense, ensureUpcomingPayments).
THEOREM PendingFollowsPlan == Spec => []FollowsPlan
<1>1. Planned => FollowsPlan
  BY DEF Planned, Solo, Plan, Follows, FollowsPlan
<1> QED
  BY <1>1, BillsKeptAtFirst, BillsStayKept, HeldAtFirst, StaysHeld, PlannedAtFirst, PlannedStays,
     PTL DEF Spec

\* Fixed expenses implement the ledger of bills: each is paid once, with money that
\* is there, each key pays one, an edit of the transaction moves the difference, and
\* what was last said to have been paid comes back at most once (payFixedExpense,
\* updateTransaction, deleteTransaction), for every interleaving of the requests, as
\* long as no transaction is edited twice.
THEOREM FixedExpensesAreBills ==
  ASSUME Amounts = Nat, OneEditEach
  PROVE  Spec => ImplementsBills
<1>1. BillsKept /\ Held /\ AllFunded /\ [Next]_vars =>
        [TheBills!Next]_<<funds, AllSettled, AllReturned>>
  BY BillsStep
<1> QED
  BY <1>1, BillsKeptAtFirst, BillsStayKept, HeldAtFirst, StaysHeld, FundedAtFirst, StaysFunded,
     BillsInit, PTL DEF Spec, ImplementsBills, TheBills!Spec
=============================================================================
