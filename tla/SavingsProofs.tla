---------------------------- MODULE SavingsProofs ----------------------------
(***************************************************************************)
(* Theorems about savings goals, for every set of goals, accounts, requests*)
(* and slots: type correctness, that the amount of a goal is what is saved *)
(* in it, that a goal is completed exactly at its target, and that saving  *)
(* is putting money into envelopes.                                        *)
(***************************************************************************)
EXTENDS Savings, TLAPS

\* A contribution and what a deletion has read of it differ in active only.
Same(row, c) == row.goal = c.goal /\ row.acct = c.acct /\ row.amt = c.amt /\ row.key = c.key

\* A deletion that changes the goal holds its row.
Reverts(p) == seen[p].reverts \/ seen[p].reopens

\* A slot serves one request of its menu; one that has made a contribution is
\* through with it.
Serves(p) ==
  /\ req[p] # NoRequest => req[p] \in RequestsOf[p]
  /\ pc[p] \in Begun => req[p] # NoRequest
  /\ pc[p] = "idle" => req[p] = NoRequest \/ p \in Daemons
  /\ Made(p) => pc[p] = "done"

\* What a request relies on at each of its steps: the goal it found was there;
\* a contribution holds the account, which has the money, and then the goal; a
\* deletion has found a contribution and holds the goal it is about to change.
Relies(p) ==
  LET r == req[p] IN
  /\ pc[p] \in {"read", "locked", "ready", "checked"} /\ r.op \in {"contribute", "reconcile"} =>
       goal[r.goal].open # "none"
  /\ pc[p] \in {"locked", "ready"} /\ r.op = "contribute" =>
       lock[r.acct] = p /\ funds[r.acct] >= r.amt
  /\ At(p, "contribute", "ready") => lock[r.goal] = p
  /\ pc[p] \in {"read", "ready"} /\ r.op = "delete" =>
       Made(r.of) /\ seen[p].row \in Contribution /\ Same(seen[p].row, contribs[r.of])
  /\ At(p, "delete", "ready") /\ Reverts(p) => lock[seen[p].row.goal] = p

\* The unique index on the keys, and that only goals that were created hold money.
Tables ==
  /\ \A q, r \in Procs : Made(q) /\ Made(r) /\ contribs[q].key = contribs[r].key => q = r
  /\ \A q \in Procs : Made(q) => goal[contribs[q].goal].open # "none"
  /\ \A g \in Goals : goal[g].open = "none" => saved[g] = 0

\* The inductive invariant.
SavingsInv == TypeOK /\ Tables /\ \A p \in Procs : Serves(p) /\ Relies(p)

-----------------------------------------------------------------------------
\* What no other request may do to one that is under way.
Respects(p) ==
  /\ \A x \in Accounts \cup Goals : lock[x] \notin {NoProc, p} => lock'[x] = lock[x]
  /\ \A g \in Goals : goal[g].open # "none" => goal'[g].open # "none"
  /\ \A q \in Procs \ {p} : Made(q)' = Made(q)
  /\ \A q \in Procs : Made(q) => Made(q)' /\ Same(contribs'[q], contribs[q])
  /\ \A a \in Accounts : lock[a] \notin {NoProc, p} => funds'[a] >= funds[a]

\* Only p moves.
Alone(p) == \A q \in Procs \ {p} : pc'[q] = pc[q] /\ req'[q] = req[q] /\ seen'[q] = seen[q]

\* What a client may ask.
LEMMA RequestIs ==
  ASSUME SavingsInv, NEW p \in Procs, pc[p] \in Begun
  PROVE  /\ req[p] \in RequestsOf[p] /\ req[p] \in Request
         /\ req[p].op \in {"create", "contribute"} => req[p].amt > 0
         /\ p \in Daemons => req[p].op = "reconcile"
         /\ ~Made(p)
BY SavingsAssumption DEF SavingsInv, Serves, Begun

\* What the request of another slot relies on is left to it.
LEMMA OthersRely ==
  ASSUME SavingsInv, NEW p \in Procs, NEW q \in Procs \ {p}, Alone(p), Respects(p), TypeOK'
  PROVE  Serves(q)' /\ Relies(q)'
<1>1. /\ TypeOK /\ Serves(q) /\ Relies(q)
      /\ pc'[q] = pc[q] /\ req'[q] = req[q] /\ seen'[q] = seen[q] /\ q # NoProc
  BY SavingsAssumption DEF SavingsInv, Alone
<1>2. Serves(q)'
  BY <1>1 DEF Serves, Respects
<1>3. Relies(q)'
  <2> SUFFICES ASSUME pc[q] \in Begun PROVE Relies(q)'
    BY <1>1 DEF Relies, Begun, At
  <2>1. /\ req[q].goal \in Goals /\ req[q].acct \in Accounts /\ req[q].of \in Procs
        /\ req[q].amt \in Nat
    BY RequestIs DEF Request
  <2>2. /\ seen[q].row \in Contribution => seen[q].row.goal \in Goals
        /\ funds[req[q].acct] \in Int /\ funds'[req[q].acct] \in Int
    BY <1>1, <2>1 DEF TypeOK, Contribution
  <2>3. ASSUME lock[req[q].acct] = q
        PROVE  /\ lock'[req[q].acct] = q
               /\ funds'[req[q].acct] >= funds[req[q].acct]
    <3>1. q \notin {NoProc, p}
      BY <1>1
    <3> QED
      BY <2>1, <2>2, <2>3, <3>1 DEF Respects
  <2>4. pc[q] \in {"locked", "ready"} /\ req[q].op = "contribute" =>
          lock'[req[q].acct] = q /\ funds'[req[q].acct] >= req[q].amt
    <3>1. SUFFICES ASSUME pc[q] \in {"locked", "ready"}, req[q].op = "contribute"
                   PROVE  lock'[req[q].acct] = q /\ funds'[req[q].acct] >= req[q].amt
      OBVIOUS
    <3>2. lock[req[q].acct] = q /\ funds[req[q].acct] >= req[q].amt
      BY <1>1, <3>1 DEF Relies
    <3> QED
      BY <2>1, <2>2, <2>3, <3>2
  <2> QED
    BY <1>1, <2>1, <2>2, <2>4 DEF Relies, Respects, At, Reverts, Same
<1> QED
  BY <1>2, <1>3
\* The tables and the locks keep their types.
DataTypes ==
  /\ goal \in [Goals -> Goal]
  /\ contribs \in [Procs -> Contribution \cup {NoRow}]
  /\ saved \in [Goals -> Int]
  /\ funds \in [Accounts -> Int]
  /\ lock \in [Accounts \cup Goals -> Procs \cup {NoProc}]

LEMMA NothingTypes == Nothing \in Seen
BY DEF Nothing, Seen

\* A step of p that leaves the others and the tables in order, and p too.
LEMMA StepKept ==
  ASSUME SavingsInv, NEW p \in Procs, Alone(p), Respects(p), TypeOK', Tables',
         Serves(p)', Relies(p)'
  PROVE  SavingsInv'
<1>1. ASSUME NEW q \in Procs PROVE Serves(q)' /\ Relies(q)'
  <2>1. CASE q = p
    BY <2>1
  <2>2. CASE q # p
    BY <2>2, OthersRely
  <2> QED
    BY <2>1, <2>2
<1> QED
  BY <1>1 DEF SavingsInv

\* A request that ends.
LEMMA EndKept ==
  ASSUME SavingsInv, NEW p \in Procs, pc[p] \in Begun, NEW how \in Finished, Finish(p, how),
         Respects(p), DataTypes', Tables', Made(p)' => how = "done" /\ p \notin Daemons
  PROVE  SavingsInv'
<1>1. TypeOK /\ Serves(p) /\ req[p] \in RequestsOf[p] /\ req' = req
  BY RequestIs DEF SavingsInv, Finish
<1>2. pc'[p] = IF p \in Daemons THEN "idle" ELSE how
  BY <1>1 DEF Finish, TypeOK
<1>3. pc'[p] \in {"idle"} \cup Finished /\ pc'[p] \notin Begun
  BY <1>2 DEF Finished, Begun
<1>4. TypeOK'
  BY <1>1, <1>3, NothingTypes DEF DataTypes, TypeOK, Finish, Finished, Begun
<1>5. Alone(p)
  BY <1>1 DEF Alone, Finish, TypeOK
<1>6. Serves(p)' /\ Relies(p)'
  BY <1>1, <1>2, <1>3 DEF Serves, Relies, At, Begun, Finished
<1> QED
  BY <1>4, <1>5, <1>6, StepKept

\* A request that goes on.
LEMMA GotoKept ==
  ASSUME SavingsInv, NEW p \in Procs, pc[p] \in Begun, NEW label \in Begun, NEW found \in Seen,
         Goto(p, label, found), Respects(p), DataTypes', Tables', ~Made(p)', Relies(p)'
  PROVE  SavingsInv'
<1>1. TypeOK /\ Serves(p) /\ req' = req
  BY DEF SavingsInv, Goto
<1>2. TypeOK'
  BY <1>1 DEF DataTypes, TypeOK, Goto, Begun
<1>3. Alone(p) /\ pc'[p] = label
  BY <1>1 DEF Alone, Goto, TypeOK
<1>4. Serves(p)'
  BY <1>1, <1>3 DEF Serves, Begun
<1> QED
  BY <1>2, <1>3, <1>4, StepKept

\* Steps that touch no table, and no lock of another request.
LEMMA ReadsRespect ==
  ASSUME SavingsInv, NEW p \in Procs, UNCHANGED data,
         \A x \in Accounts \cup Goals : lock[x] \notin {NoProc, p} => lock'[x] = lock[x]
  PROVE  Respects(p) /\ Tables'
<1>1. TypeOK /\ Tables
  BY DEF SavingsInv
<1>2. \A a \in Accounts : funds'[a] >= funds[a]
  BY <1>1 DEF TypeOK, data
<1> QED
  BY <1>1, <1>2 DEF Respects, Tables, data, Made, Same

LEMMA ReleaseLeaves ==
  ASSUME SavingsInv, NEW p \in Procs, Release(p)
  PROVE  /\ lock' \in [Accounts \cup Goals -> Procs \cup {NoProc}]
         /\ \A x \in Accounts \cup Goals : lock[x] \notin {NoProc, p} => lock'[x] = lock[x]
BY DEF Release, SavingsInv, TypeOK

LEMMA LockTakes ==
  ASSUME SavingsInv, NEW p \in Procs, NEW x \in Accounts \cup Goals, Free(p, x),
         lock' = [lock EXCEPT ![x] = p]
  PROVE  /\ lock' \in [Accounts \cup Goals -> Procs \cup {NoProc}]
         /\ lock'[x] = p
         /\ \A y \in Accounts \cup Goals : y # x => lock'[y] = lock[y]
         /\ \A y \in Accounts \cup Goals : lock[y] \notin {NoProc, p} => lock'[y] = lock[y]
BY DEF Free, SavingsInv, TypeOK

\* A read step: the request goes on with what it found, or is refused.
LEMMA ProceedKept ==
  ASSUME SavingsInv, NEW p \in Procs, pc[p] \in Begun, NEW ok \in BOOLEAN, NEW label \in Begun,
         NEW found, ok => found \in Seen, Proceed(p, ok, label, found),
         ok => Relies(p)'
  PROVE  SavingsInv'
<1>1. UNCHANGED data /\ lock' = lock
  BY DEF Proceed
<1>2. Respects(p) /\ Tables' /\ DataTypes'
  BY <1>1, ReadsRespect DEF SavingsInv, TypeOK, DataTypes, data
<1>3. ~Made(p)'
  BY <1>1, RequestIs DEF Made, data
<1>4. CASE ok
  BY <1>2, <1>3, <1>4, GotoKept DEF Proceed
<1>5. CASE ~ok
  BY <1>2, <1>3, <1>5, EndKept DEF Proceed, Finished
<1> QED
  BY <1>4, <1>5
-----------------------------------------------------------------------------
(* Each step keeps the invariant.                                          *)

LEMMA BeginKept ==
  ASSUME SavingsInv, NEW p \in Procs, Begin(p)
  PROVE  SavingsInv'
<1>1. TypeOK /\ Serves(p) /\ pc[p] = "idle"
  BY DEF SavingsInv, Begin
<1>2. PICK r \in RequestsOf[p] :
         /\ req' = [req EXCEPT ![p] = r]
         /\ pc' = [pc EXCEPT ![p] = IF AlreadyDone(r) THEN "repeated" ELSE "begun"]
  BY DEF Begin
<1>3. r \in Request /\ (p \in Daemons => ~AlreadyDone(r)) /\ r # NoRequest
  BY SavingsAssumption DEF AlreadyDone
<1>4. UNCHANGED data /\ lock' = lock /\ seen' = seen
  BY DEF Begin
<1>5. Respects(p) /\ Tables' /\ TypeOK'
  <2>1. Respects(p) /\ Tables'
    BY <1>4, ReadsRespect
  <2>2. pc'[p] \in {"begun", "repeated"}
    BY <1>1, <1>2 DEF TypeOK
  <2>3. TypeOK'
    BY <1>1, <1>2, <1>3, <1>4, <2>2 DEF TypeOK, data, Begun, Finished
  <2> QED
    BY <2>1, <2>3
<1>6. Alone(p)
  BY <1>1, <1>2, <1>4 DEF Alone, TypeOK
<1>7. Serves(p)' /\ Relies(p)'
  <2>1. pc'[p] \in {"begun", "repeated"} /\ req'[p] = r /\ ~Made(p)'
    BY <1>1, <1>2, <1>4 DEF TypeOK, Serves, Made, data
  <2> QED
    BY <1>3, <2>1 DEF Serves, Relies, At
<1> QED
  BY <1>5, <1>6, <1>7, StepKept

LEMMA AbortKept ==
  ASSUME SavingsInv, NEW p \in Procs, Abort(p)
  PROVE  SavingsInv'
<1>1. /\ pc[p] \in Begun /\ Finish(p, "aborted") /\ Release(p) /\ UNCHANGED data
      /\ "aborted" \in Finished
  BY DEF Abort, Finished
<1>2. Respects(p) /\ Tables'
  BY <1>1, ReleaseLeaves, ReadsRespect
<1>3. DataTypes' /\ ~Made(p)'
  BY <1>1, ReleaseLeaves, RequestIs DEF SavingsInv, TypeOK, DataTypes, data, Made
<1> QED
  BY <1>1, <1>2, <1>3, EndKept

\* The steps that only check, and those that read.
LEMMA ChecksKept ==
  ASSUME SavingsInv, NEW p \in Procs, CheckUpdate(p) \/ CheckRemove(p)
  PROVE  SavingsInv'
<1>1. pc[p] \in Begun /\ req[p].op \in {"update", "remove"}
  BY DEF CheckUpdate, CheckRemove, At, Begun
<1>2. PICK ok \in BOOLEAN : Proceed(p, ok, "checked", Nothing)
  BY DEF CheckUpdate, CheckRemove
<1>3. ok => Relies(p)'
  <2>1. ok => pc'[p] = "checked" /\ req'[p] = req[p]
    BY <1>2 DEF Proceed, Goto, SavingsInv, TypeOK
  <2> QED
    BY <1>1, <2>1 DEF Relies, At
<1> QED
  BY <1>1, <1>2, <1>3, NothingTypes, ProceedKept DEF Begun

LEMMA ReadGoalKept ==
  ASSUME SavingsInv, NEW p \in Procs, ReadGoal(p)
  PROVE  SavingsInv'
<1> DEFINE ok == goal[req[p].goal].open = "active" /\ goal[req[p].goal].status = "ACTIVE"
<1>1. /\ pc[p] \in Begun /\ req[p].op = "contribute" /\ "read" \in Begun
      /\ Proceed(p, ok, "read", Nothing)
  BY DEF ReadGoal, At, Begun
<1>2. ok => Relies(p)'
  <2>1. ok => pc'[p] = "read" /\ req'[p] = req[p] /\ goal' = goal
    BY <1>1 DEF Proceed, Goto, SavingsInv, TypeOK, data
  <2> QED
    BY <1>1, <2>1 DEF Relies, At
<1> QED
  BY <1>1, <1>2, NothingTypes, ProceedKept

\* What a page has read of a goal.
Shown(n) == [Nothing EXCEPT !.amount = n]

LEMMA ShownSeen ==
  ASSUME NEW n \in Int PROVE Shown(n) \in Seen /\ Shown(n).amount = n
<1>1. PICK found : found = Shown(n)
  OBVIOUS
<1>2. found = [amount |-> n, sum |-> 0, target |-> 0, row |-> NoRow,
               reverts |-> FALSE, reopens |-> FALSE]
  BY <1>1 DEF Shown, Nothing
<1> QED
  BY <1>1, <1>2 DEF Seen

LEMMA ReadAmountKept ==
  ASSUME SavingsInv, NEW p \in Procs, ReadAmount(p)
  PROVE  SavingsInv'
<1> DEFINE g == goal[req[p].goal]
           ok == g.open = "active" /\ g.status # "CANCELLED"
           found == Shown(g.amount)
<1>1. /\ pc[p] \in Begun /\ req[p].op = "reconcile" /\ "read" \in Begun
      /\ Proceed(p, ok, "read", found)
  BY DEF ReadAmount, At, Begun, Shown
<1>2. found \in Seen
  <2>1. g \in Goal
    BY <1>1, RequestIs DEF SavingsInv, TypeOK, Request
  <2>2. g.amount \in Int
    BY <2>1 DEF Goal
  <2> QED
    BY <2>2, ShownSeen
<1>3. ok => Relies(p)'
  <2>1. ok => pc'[p] = "read" /\ req'[p] = req[p] /\ goal' = goal
    BY <1>1 DEF Proceed, Goto, SavingsInv, TypeOK, data
  <2> QED
    BY <1>1, <2>1 DEF Relies, At
<1> QED
  BY <1>1, <1>2, <1>3, ProceedKept

LEMMA SumSeen ==
  ASSUME NEW s \in Seen, NEW n \in Int
  PROVE  [s EXCEPT !.sum = n] \in Seen
BY DEF Seen

LEMMA SumContributionsKept ==
  ASSUME SavingsInv, NEW p \in Procs, SumContributions(p)
  PROVE  SavingsInv'
<1> DEFINE sum == IF goal[req[p].goal].open = "active" THEN saved[req[p].goal] ELSE 0
           found == [seen[p] EXCEPT !.sum = sum]
<1>1. /\ pc[p] = "read" /\ req[p].op = "reconcile" /\ {"read", "checked"} \subseteq Begun
      /\ UNCHANGED data /\ lock' = lock /\ "done" \in Finished
      /\ Goto(p, "checked", found) \/ Finish(p, "done")
  BY DEF SumContributions, At, Begun, Finished
<1>2. Respects(p) /\ Tables' /\ DataTypes' /\ ~Made(p)'
  BY <1>1, ReadsRespect, RequestIs DEF SavingsInv, TypeOK, DataTypes, data, Made
<1>3. CASE Goto(p, "checked", found)
  <2>1. found \in Seen
    <3>1. saved[req[p].goal] \in Int /\ seen[p] \in Seen
      BY <1>1, RequestIs DEF SavingsInv, TypeOK, Request
    <3>2. sum \in Int
      BY <3>1
    <3> HIDE DEF sum
    <3> QED
      BY <3>1, <3>2, SumSeen
  <2>2. Relies(p)'
    <3>1. pc'[p] = "checked" /\ req'[p] = req[p] /\ goal' = goal /\ Relies(p)
      BY <1>1, <1>3 DEF Goto, SavingsInv, TypeOK, data
    <3> QED
      BY <1>1, <3>1 DEF Relies, At
  <2> QED
    BY <1>1, <1>2, <1>3, <2>1, <2>2, GotoKept
<1>4. CASE Finish(p, "done")
  BY <1>1, <1>2, <1>4, EndKept
<1> QED
  BY <1>1, <1>3, <1>4
LEMMA LockAccountKept ==
  ASSUME SavingsInv, NEW p \in Procs, LockAccount(p)
  PROVE  SavingsInv'
<1> DEFINE a == req[p].acct
<1>1. /\ pc[p] = "read" /\ req[p].op = "contribute" /\ {"read", "locked"} \subseteq Begun
      /\ UNCHANGED data /\ lock[a] = NoProc /\ "rejected" \in Finished
      /\ \/ funds[a] >= req[p].amt /\ Goto(p, "locked", Nothing) /\ lock' = [lock EXCEPT ![a] = p]
         \/ Finish(p, "rejected") /\ lock' = lock
  BY DEF LockAccount, At, Begun, Finished
<1>2. a \in Accounts /\ ~Made(p) /\ ~Made(p)'
  BY <1>1, RequestIs DEF Request, Made, data
<1>3. CASE funds[a] >= req[p].amt /\ Goto(p, "locked", Nothing) /\ lock' = [lock EXCEPT ![a] = p]
  <2>1. Respects(p) /\ Tables' /\ DataTypes' /\ lock'[a] = p
    BY <1>1, <1>2, <1>3, LockTakes, ReadsRespect DEF SavingsInv, TypeOK, DataTypes, data, Free
  <2>2. Relies(p)'
    <3>1. pc'[p] = "locked" /\ req'[p] = req[p] /\ goal' = goal /\ funds' = funds /\ Relies(p)
      BY <1>1, <1>3 DEF Goto, SavingsInv, TypeOK, data
    <3> QED
      BY <1>1, <1>3, <2>1, <3>1 DEF Relies, At
  <2> QED
    BY <1>1, <1>2, <1>3, <2>1, <2>2, NothingTypes, GotoKept
<1>4. CASE Finish(p, "rejected") /\ lock' = lock
  <2>1. Respects(p) /\ Tables' /\ DataTypes'
    BY <1>1, <1>4, ReadsRespect DEF SavingsInv, TypeOK, DataTypes, data
  <2> QED
    BY <1>1, <1>2, <1>4, <2>1, EndKept
<1> QED
  BY <1>1, <1>3, <1>4

LEMMA LockGoalKept ==
  ASSUME SavingsInv, NEW p \in Procs, LockGoal(p)
  PROVE  SavingsInv'
<1> DEFINE g == req[p].goal
<1>1. /\ pc[p] = "locked" /\ req[p].op = "contribute" /\ {"ready", "locked"} \subseteq Begun
      /\ UNCHANGED data /\ Free(p, g) /\ Goto(p, "ready", Nothing)
      /\ lock' = [lock EXCEPT ![g] = p]
  BY DEF LockGoal, At, Begun
<1>2. g \in Goals /\ req[p].acct \in Accounts /\ ~Made(p)'
  BY <1>1, RequestIs DEF Request, Made, data
<1>3. Respects(p) /\ Tables' /\ DataTypes' /\ lock'[g] = p
  BY <1>1, <1>2, LockTakes, ReadsRespect DEF SavingsInv, TypeOK, DataTypes, data
<1>4. Relies(p)'
  <2>1. pc'[p] = "ready" /\ req'[p] = req[p] /\ goal' = goal /\ funds' = funds /\ Relies(p)
    BY <1>1 DEF Goto, SavingsInv, TypeOK, data
  <2>2. lock'[req[p].acct] = p
    BY <1>1, <1>2, <2>1, LockTakes DEF Relies
  <2> QED
    BY <1>1, <1>3, <2>1, <2>2 DEF Relies, At
<1> QED
  BY <1>1, <1>2, <1>3, <1>4, NothingTypes, GotoKept

\* A contribution is made: its row, the money on its way, and the goal.
Made1(p) ==
  LET r == req[p] IN
  /\ contribs' = [contribs EXCEPT ![p] = [goal |-> r.goal, acct |-> r.acct, amt |-> r.amt,
                                          key |-> r.key, active |-> TRUE]]
  /\ saved' = [saved EXCEPT ![r.goal] = @ + r.amt]
  /\ funds' = [funds EXCEPT ![r.acct] = @ - r.amt]
  /\ goal' = [goal EXCEPT ![r.goal] = Raised(@, r.amt)]

\* A goal with another amount and status.
Changed(g, n, s) == [g EXCEPT !.amount = n, !.status = s]

LEMMA GoalChanges ==
  ASSUME NEW g \in Goal, NEW n \in Int, NEW s \in Statuses
  PROVE  /\ Changed(g, n, s) \in Goal
         /\ Changed(g, n, s).open = g.open /\ Changed(g, n, s).target = g.target
         /\ Changed(g, n, s).amount = n /\ Changed(g, n, s).status = s
<1>1. g = [open |-> g.open, status |-> g.status, amount |-> g.amount, target |-> g.target]
  BY DEF Goal
<1>2. PICK h : h = Changed(g, n, s)
  OBVIOUS
<1>3. h = [open |-> g.open, status |-> s, amount |-> n, target |-> g.target]
  BY <1>1, <1>2 DEF Changed
<1> QED
  BY <1>2, <1>3 DEF Goal

LEMMA RaisedTypes ==
  ASSUME NEW g \in Goal, NEW n \in Nat
  PROVE  /\ Raised(g, n) \in Goal /\ Raised(g, n).open = g.open
         /\ Raised(g, n).amount = g.amount + n /\ Raised(g, n).target = g.target
         /\ Raised(g, n).status =
              IF g.status = "ACTIVE" /\ g.amount + n >= g.target THEN "COMPLETED" ELSE g.status
<1> DEFINE s == IF g.status = "ACTIVE" /\ g.amount + n >= g.target THEN "COMPLETED" ELSE g.status
<1>1. g.amount + n \in Int
  BY DEF Goal
<1>2. s \in Statuses
  BY DEF Goal, Statuses
<1>3. Raised(g, n) = Changed(g, g.amount + n, s)
  BY DEF Raised, Changed, Goal
<1> QED
  BY <1>1, <1>2, <1>3, GoalChanges

LEMMA MadeTypes ==
  ASSUME SavingsInv, NEW p \in Procs, At(p, "contribute", "ready"), Made1(p)
  PROVE  /\ contribs'[p] \in Contribution /\ contribs'[p].active
         /\ Same(contribs'[p], req[p])
         /\ \A q \in Procs \ {p} : contribs'[q] = contribs[q]
         /\ contribs' \in [Procs -> Contribution \cup {NoRow}]
         /\ goal' \in [Goals -> Goal]
         /\ \A g \in Goals : goal'[g].open = goal[g].open
         /\ saved' \in [Goals -> Int] /\ funds' \in [Accounts -> Int]
<1>1. /\ req[p].goal \in Goals /\ req[p].acct \in Accounts /\ req[p].amt \in Nat
      /\ req[p].key \in Keys /\ TypeOK
  BY RequestIs DEF At, Begun, Request, SavingsInv
<1>2. contribs'[p] \in Contribution /\ contribs'[p].active /\ Same(contribs'[p], req[p])
  BY <1>1 DEF Made1, TypeOK, Contribution, Same
<1>3. Raised(goal[req[p].goal], req[p].amt) \in Goal
      /\ Raised(goal[req[p].goal], req[p].amt).open = goal[req[p].goal].open
  BY <1>1, RaisedTypes DEF TypeOK
<1>4. goal' \in [Goals -> Goal] /\ \A g \in Goals : goal'[g].open = goal[g].open
  BY <1>1, <1>3 DEF TypeOK, Made1
<1>5. saved' \in [Goals -> Int] /\ funds' \in [Accounts -> Int]
  BY <1>1 DEF TypeOK, Made1
<1>6. /\ contribs' \in [Procs -> Contribution \cup {NoRow}]
      /\ \A q \in Procs \ {p} : contribs'[q] = contribs[q]
  BY <1>1, <1>2 DEF TypeOK, Made1
<1> QED
  BY <1>2, <1>4, <1>5, <1>6

LEMMA CommitContributionKept ==
  ASSUME SavingsInv, NEW p \in Procs, CommitContribution(p)
  PROVE  SavingsInv'
<1> DEFINE r == req[p]
<1>1. /\ At(p, "contribute", "ready") /\ pc[p] \in Begun /\ Release(p)
      /\ {"done", "repeated", "rejected"} \subseteq Finished
      /\ \/ \E how \in {"repeated", "rejected"} : Finish(p, how) /\ UNCHANGED data
         \/ ~KeyTaken(r.key) /\ Made1(p) /\ Finish(p, "done")
  BY DEF CommitContribution, At, Begun, Finished, Made1
<1>2. /\ TypeOK /\ Tables /\ Relies(p) /\ ~Made(p) /\ p \notin Daemons
      /\ r.goal \in Goals /\ r.acct \in Accounts /\ r.amt \in Nat /\ r.key \in Keys
  BY <1>1, RequestIs DEF SavingsInv, At, Begun, Request
<1>3. ASSUME NEW how \in {"repeated", "rejected"}, Finish(p, how), UNCHANGED data
      PROVE  SavingsInv'
  <2>1. Respects(p) /\ Tables' /\ DataTypes' /\ ~Made(p)'
    BY <1>1, <1>2, <1>3, ReleaseLeaves, ReadsRespect DEF SavingsInv, TypeOK, DataTypes, data, Made
  <2> QED
    BY <1>1, <1>3, <2>1, EndKept
<1>4. CASE ~KeyTaken(r.key) /\ Made1(p) /\ Finish(p, "done")
  <2>1. /\ contribs'[p] \in Contribution /\ Same(contribs'[p], r)
        /\ \A q \in Procs \ {p} : contribs'[q] = contribs[q]
        /\ \A g \in Goals : goal'[g].open = goal[g].open
        /\ DataTypes'
    BY <1>1, <1>4, MadeTypes, ReleaseLeaves DEF DataTypes
  <2>2. Made(p)' /\ \A q \in Procs \ {p} : Made(q)' = Made(q)
    BY <2>1, SavingsAssumption DEF Made
  <2>3. Respects(p)
    <3>1. \A a \in Accounts : lock[a] \notin {NoProc, p} => funds'[a] >= funds[a]
      <4>1. lock[r.acct] = p
        BY <1>1, <1>2 DEF Relies, At
      <4>2. \A a \in Accounts \ {r.acct} : funds'[a] = funds[a] /\ funds[a] \in Int
        BY <1>2, <1>4 DEF Made1, TypeOK
      <4> QED
        BY <4>1, <4>2
    <3>2. \A q \in Procs : Made(q) => Made(q)' /\ Same(contribs'[q], contribs[q])
      BY <1>2, <2>1, <2>2 DEF Same
    <3> QED
      BY <1>1, <2>1, <2>2, <3>1, <3>2, ReleaseLeaves DEF Respects
  <2>4. Tables'
    <3>1. \A q, x \in Procs : Made(q)' /\ Made(x)' /\ contribs'[q].key = contribs'[x].key => q = x
      BY <1>2, <1>4, <2>1, <2>2 DEF Tables, KeyTaken, Same
    <3>2. goal[r.goal].open # "none"
      BY <1>1, <1>2 DEF Relies, At
    <3>3. \A q \in Procs : Made(q)' => goal'[contribs'[q].goal].open # "none"
      <4> SUFFICES ASSUME NEW q \in Procs, Made(q)' PROVE goal'[contribs'[q].goal].open # "none"
        OBVIOUS
      <4>1. CASE q = p
        BY <1>2, <2>1, <3>2, <4>1 DEF Same
      <4>2. CASE q # p
        BY <1>2, <2>1, <2>2, <4>2 DEF Tables, TypeOK, Contribution, Made
      <4> QED
        BY <4>1, <4>2
    <3>4. \A g \in Goals : goal'[g].open = "none" => saved'[g] = 0
      BY <1>2, <1>4, <2>1, <3>2 DEF Tables, TypeOK, Made1
    <3> QED
      BY <3>1, <3>3, <3>4 DEF Tables
  <2> QED
    BY <1>1, <1>2, <1>4, <2>1, <2>3, <2>4, EndKept
<1> QED
  BY <1>1, <1>3, <1>4
\* A step that writes goals only, and none back to not being there.
LEMMA GoalsKept ==
  ASSUME SavingsInv, NEW p \in Procs, pc[p] \in Begun, Finish(p, "done"),
         goal' \in [Goals -> Goal],
         \A g \in Goals : goal[g].open # "none" => goal'[g].open # "none",
         UNCHANGED <<contribs, saved, funds, lock>>
  PROVE  SavingsInv'
<1>1. TypeOK /\ Tables /\ ~Made(p)' /\ "done" \in Finished
  BY RequestIs DEF SavingsInv, Made, Finished
<1>2. Respects(p)
  <2>1. \A a \in Accounts : funds'[a] >= funds[a]
    BY <1>1 DEF TypeOK
  <2> QED
    BY <2>1 DEF Respects, Made, Same
<1>3. Tables'
  BY <1>1 DEF Tables, Made, TypeOK, Contribution
<1> QED
  BY <1>1, <1>2, <1>3, EndKept DEF DataTypes, TypeOK

LEMMA CreateGoalKept ==
  ASSUME SavingsInv, NEW p \in Procs, CreateGoal(p)
  PROVE  SavingsInv'
<1>1. /\ pc[p] \in Begun /\ Finish(p, "done") /\ UNCHANGED <<contribs, saved, funds, lock>>
      /\ goal' = [goal EXCEPT ![req[p].goal] = [open |-> "active", status |-> "ACTIVE",
                                                amount |-> 0, target |-> req[p].amt]]
  BY DEF CreateGoal, At, Begun
<1>2. req[p].goal \in Goals /\ req[p].amt \in Nat /\ TypeOK
  BY <1>1, RequestIs DEF Request, SavingsInv
<1>3. PICK h : h = [open |-> "active", status |-> "ACTIVE", amount |-> 0, target |-> req[p].amt]
  OBVIOUS
<1>4. h \in Goal /\ h.open = "active"
  BY <1>2, <1>3 DEF Goal, Statuses
<1>5. goal' \in [Goals -> Goal] /\ \A g \in Goals : goal[g].open # "none" => goal'[g].open # "none"
  BY <1>1, <1>2, <1>3, <1>4 DEF TypeOK
<1> QED
  BY <1>1, <1>5, GoalsKept

LEMMA EditedTypes ==
  ASSUME NEW g \in Goal, NEW r \in Request
  PROVE  /\ Edited(g, r) \in Goal
         /\ Edited(g, r).open = g.open /\ Edited(g, r).amount = g.amount
<1>1. g = [open |-> g.open, status |-> g.status, amount |-> g.amount, target |-> g.target]
  BY DEF Goal
<1>2. PICK t \in Nat : t = IF r.amt = 0 THEN g.target ELSE r.amt
  BY DEF Request, Goal
<1>3. PICK s \in Statuses : s = IF r.status = "same" THEN g.status ELSE r.status
  BY DEF Request, Goal
<1>4. PICK h : h = Edited(g, r)
  OBVIOUS
<1>5. h = [open |-> g.open, status |-> s, amount |-> g.amount, target |-> t]
  BY <1>1, <1>2, <1>3, <1>4 DEF Edited
<1> QED
  BY <1>4, <1>5 DEF Goal

LEMMA CommitUpdateKept ==
  ASSUME SavingsInv, NEW p \in Procs, CommitUpdate(p)
  PROVE  SavingsInv'
<1>1. /\ pc[p] \in Begun /\ Finish(p, "done") /\ UNCHANGED <<contribs, saved, funds, lock>>
      /\ goal' = [goal EXCEPT ![req[p].goal] = Edited(goal[req[p].goal], req[p])]
  BY DEF CommitUpdate, At, Begun
<1>2. req[p].goal \in Goals /\ req[p] \in Request /\ TypeOK
  BY <1>1, RequestIs DEF Request, SavingsInv
<1>3. /\ Edited(goal[req[p].goal], req[p]) \in Goal
      /\ Edited(goal[req[p].goal], req[p]).open = goal[req[p].goal].open
  BY <1>2, EditedTypes DEF TypeOK
<1>4. goal' \in [Goals -> Goal] /\ \A g \in Goals : goal[g].open # "none" => goal'[g].open # "none"
  BY <1>1, <1>2, <1>3 DEF TypeOK
<1> QED
  BY <1>1, <1>4, GoalsKept

LEMMA CommitRemoveKept ==
  ASSUME SavingsInv, NEW p \in Procs, CommitRemove(p)
  PROVE  SavingsInv'
<1>1. /\ pc[p] \in Begun /\ Finish(p, "done") /\ UNCHANGED <<contribs, saved, funds, lock>>
      /\ goal' = [goal EXCEPT ![req[p].goal].open = "deleted"]
  BY DEF CommitRemove, At, Begun
<1>2. req[p].goal \in Goals /\ TypeOK
  BY <1>1, RequestIs DEF Request, SavingsInv
<1>3. goal' \in [Goals -> Goal] /\ \A g \in Goals : goal[g].open # "none" => goal'[g].open # "none"
  BY <1>1, <1>2 DEF TypeOK, Goal
<1> QED
  BY <1>1, <1>3, GoalsKept

LEMMA CommitReconcileKept ==
  ASSUME SavingsInv, NEW p \in Procs, CommitReconcile(p)
  PROVE  SavingsInv'
<1>1. /\ pc[p] \in Begun /\ Finish(p, "done") /\ UNCHANGED <<contribs, saved, funds, lock>>
      /\ goal' = [goal EXCEPT ![req[p].goal].amount = seen[p].sum] \/ goal' = goal
  BY DEF CommitReconcile, At, Begun
<1>2. req[p].goal \in Goals /\ seen[p].sum \in Int /\ TypeOK
  BY <1>1, RequestIs DEF Request, SavingsInv, TypeOK, Seen
<1>3. goal' \in [Goals -> Goal] /\ \A g \in Goals : goal[g].open # "none" => goal'[g].open # "none"
  BY <1>1, <1>2 DEF TypeOK, Goal
<1> QED
  BY <1>1, <1>3, GoalsKept

\* What a deletion has read: the contribution and the target of its goal.
Found(row, n) == [Nothing EXCEPT !.row = row, !.target = n]

LEMMA FoundTypes ==
  ASSUME NEW row \in Contribution \cup {NoRow}, NEW n \in Nat
  PROVE  /\ Found(row, n) \in Seen /\ Found(row, n).row = row /\ Found(row, n).target = n
         /\ Found(row, n).reverts = FALSE /\ Found(row, n).reopens = FALSE
<1>1. PICK found : found = Found(row, n)
  OBVIOUS
<1>2. found = [amount |-> 0, sum |-> 0, target |-> n, row |-> row,
               reverts |-> FALSE, reopens |-> FALSE]
  BY <1>1 DEF Found, Nothing
<1> QED
  BY <1>1, <1>2 DEF Seen

LEMMA ReadContributionKept ==
  ASSUME SavingsInv, NEW p \in Procs, ReadContribution(p)
  PROVE  SavingsInv'
<1> DEFINE q == req[p].of
           n == IF Made(q) THEN goal[contribs[q].goal].target ELSE 0
           ok == Made(q) /\ contribs[q].active
<1>1. /\ pc[p] \in Begun /\ req[p].op = "delete" /\ "read" \in Begun
      /\ Proceed(p, ok, "read", Found(contribs[q], n))
  BY DEF ReadContribution, At, Begun, Found
<1>2. q \in Procs /\ TypeOK
  BY <1>1, RequestIs DEF Request, SavingsInv
<1>3. contribs[q] \in Contribution \cup {NoRow} /\ n \in Nat
  <2>1. contribs[q] \in Contribution \cup {NoRow}
    BY <1>2 DEF TypeOK
  <2>2. CASE Made(q)
    <3>1. goal[contribs[q].goal] \in Goal
      BY <1>2, <2>1, <2>2 DEF Made, Contribution, TypeOK
    <3> QED
      BY <2>1, <2>2, <3>1 DEF Goal
  <2>3. CASE ~Made(q)
    BY <2>1, <2>3
  <2> QED
    BY <2>2, <2>3
<1> HIDE DEF n
<1>4. /\ Found(contribs[q], n) \in Seen /\ Found(contribs[q], n).row = contribs[q]
  BY <1>3, FoundTypes
<1>5. ok => Relies(p)'
  <2> SUFFICES ASSUME ok PROVE Relies(p)'
    OBVIOUS
  <2>1. /\ pc'[p] = "read" /\ req'[p] = req[p] /\ seen'[p] = Found(contribs[q], n)
        /\ contribs' = contribs
    BY <1>1 DEF Proceed, Goto, SavingsInv, TypeOK, data
  <2>2. contribs[q] \in Contribution
    BY <1>3 DEF Made
  <2> QED
    BY <1>1, <1>4, <2>1, <2>2 DEF Relies, At, Made, Same
<1> QED
  BY <1>1, <1>4, <1>5, ProceedKept
LEMMA RevertGoalKept ==
  ASSUME SavingsInv, NEW p \in Procs, RevertGoal(p)
  PROVE  SavingsInv'
<1> DEFINE row == seen[p].row
           g == goal[row.goal]
           reverts == g.amount >= row.amt
           left == IF reverts THEN g.amount - row.amt ELSE g.amount
           reopens == g.status = "COMPLETED" /\ left < seen[p].target
           found == [seen[p] EXCEPT !.reverts = reverts, !.reopens = reopens]
<1>1. /\ pc[p] = "read" /\ req[p].op = "delete" /\ {"read", "ready"} \subseteq Begun
      /\ reverts \/ reopens => Free(p, row.goal)
      /\ lock' = IF reverts \/ reopens THEN [lock EXCEPT ![row.goal] = p] ELSE lock
      /\ Goto(p, "ready", found)
      /\ UNCHANGED data
  BY DEF RevertGoal, At, Begun
<1>2. TypeOK /\ Relies(p) /\ row \in Contribution /\ row.goal \in Goals /\ ~Made(p)'
  BY <1>1, RequestIs DEF SavingsInv, Relies, Contribution, Made, data
<1>3. PICK x \in BOOLEAN : x <=> reverts
  OBVIOUS
<1>4. PICK y \in BOOLEAN : y <=> reopens
  OBVIOUS
<1>5. PICK s : s = found
  OBVIOUS
<1> HIDE DEF reverts, reopens
<1>6. s \in Seen /\ s.row = row /\ s.reverts = reverts /\ s.reopens = reopens
  <2>1. seen[p] \in Seen
    BY <1>2 DEF TypeOK
  <2>2. reverts \in BOOLEAN /\ reopens \in BOOLEAN
    BY DEF reverts, reopens
  <2>3. s = [amount |-> seen[p].amount, sum |-> seen[p].sum, target |-> seen[p].target,
             row |-> row, reverts |-> reverts, reopens |-> reopens]
    BY <1>5, <2>1 DEF Seen
  <2> QED
    BY <2>1, <2>2, <2>3 DEF Seen
<1> HIDE DEF found
<1>7. /\ Respects(p) /\ Tables' /\ DataTypes'
      /\ reverts \/ reopens => lock'[row.goal] = p
  <2>1. CASE reverts \/ reopens
    BY <1>1, <1>2, <2>1, LockTakes, ReadsRespect DEF TypeOK, DataTypes, data
  <2>2. CASE ~(reverts \/ reopens)
    BY <1>1, <1>2, <2>2, ReadsRespect DEF TypeOK, DataTypes, data
  <2> QED
    BY <2>1, <2>2
<1>8. Relies(p)'
  <2>1. pc'[p] = "ready" /\ req'[p] = req[p] /\ contribs' = contribs /\ seen'[p] = s
    BY <1>1, <1>2, <1>5 DEF Goto, TypeOK, data
  <2> QED
    BY <1>1, <1>2, <1>6, <1>7, <2>1 DEF Relies, At, Reverts, Made
<1> QED
  BY <1>1, <1>2, <1>5, <1>6, <1>7, <1>8, GotoKept

LEMMA LoweredTypes ==
  ASSUME NEW g \in Goal, NEW s \in Seen, s.row \in Contribution
  PROVE  /\ Lowered(g, s) \in Goal
         /\ Lowered(g, s).open = g.open /\ Lowered(g, s).target = g.target
         /\ Lowered(g, s).amount = IF s.reverts THEN g.amount - s.row.amt ELSE g.amount
         /\ Lowered(g, s).status = IF s.reopens THEN "ACTIVE" ELSE g.status
<1>1. PICK n \in Int : n = IF s.reverts THEN g.amount - s.row.amt ELSE g.amount
  BY DEF Goal, Seen, Contribution
<1>2. PICK t \in Statuses : t = IF s.reopens THEN "ACTIVE" ELSE g.status
  BY DEF Goal, Seen, Statuses
<1>3. Lowered(g, s) = Changed(g, n, t)
  BY <1>1, <1>2 DEF Lowered, Changed, Goal
<1> QED
  BY <1>1, <1>2, <1>3, GoalChanges

LEMMA CommitDeletionKept ==
  ASSUME SavingsInv, NEW p \in Procs, CommitDeletion(p)
  PROVE  SavingsInv'
<1> DEFINE q == req[p].of
           row == seen[p].row
           n == IF contribs[q].active THEN row.amt ELSE 0
<1>1. /\ pc[p] = "ready" /\ req[p].op = "delete" /\ "ready" \in Begun /\ "done" \in Finished
      /\ contribs' = [contribs EXCEPT ![q] = [@ EXCEPT !.active = FALSE]]
      /\ saved' = [saved EXCEPT ![row.goal] = @ - n]
      /\ funds' = [funds EXCEPT ![row.acct] = @ + n]
      /\ goal' = [goal EXCEPT ![row.goal] = Lowered(@, seen[p])]
      /\ Finish(p, "done") /\ Release(p)
  BY DEF CommitDeletion, At, Begun, Finished
<1>2. /\ TypeOK /\ Tables /\ Relies(p) /\ ~Made(p) /\ q \in Procs /\ Made(q)
      /\ row \in Contribution /\ Same(row, contribs[q]) /\ contribs[q] \in Contribution
      /\ seen[p] \in Seen
  <2>1. TypeOK /\ Tables /\ Relies(p) /\ ~Made(p) /\ q \in Procs
    BY <1>1, RequestIs DEF SavingsInv, Request
  <2> QED
    BY <1>1, <2>1 DEF Relies, TypeOK, Made
<1>3. n \in Nat /\ row.goal \in Goals /\ row.acct \in Accounts
  BY <1>2 DEF Contribution
<1> HIDE DEF n
<1>4. DataTypes' /\ \A g \in Goals : goal'[g].open = goal[g].open
  <2>1. /\ Lowered(goal[row.goal], seen[p]) \in Goal
        /\ Lowered(goal[row.goal], seen[p]).open = goal[row.goal].open
    BY <1>2, <1>3, LoweredTypes DEF TypeOK
  <2>2. goal' \in [Goals -> Goal] /\ \A g \in Goals : goal'[g].open = goal[g].open
    BY <1>1, <1>2, <1>3, <2>1 DEF TypeOK
  <2>3. contribs' \in [Procs -> Contribution \cup {NoRow}]
    BY <1>1, <1>2 DEF TypeOK, Contribution
  <2>4. saved' \in [Goals -> Int] /\ funds' \in [Accounts -> Int]
    BY <1>1, <1>2, <1>3 DEF TypeOK
  <2> QED
    BY <1>1, <2>2, <2>3, <2>4, ReleaseLeaves DEF DataTypes
<1>5. \A x \in Procs : (Made(x) <=> Made(x)') /\ (Made(x) => Same(contribs'[x], contribs[x]))
  <2> SUFFICES ASSUME NEW x \in Procs
               PROVE  (Made(x) <=> Made(x)') /\ (Made(x) => Same(contribs'[x], contribs[x]))
    OBVIOUS
  <2>1. CASE x = q
    <3>1. PICK c : c = contribs'[q]
      OBVIOUS
    <3>2. c = [contribs[q] EXCEPT !.active = FALSE]
      BY <1>1, <1>2, <3>1 DEF TypeOK
    <3>3. c \in Contribution /\ Same(c, contribs[q])
      BY <1>2, <3>2 DEF Contribution, Same
    <3> QED
      BY <1>2, <2>1, <3>1, <3>3, SavingsAssumption DEF Made
  <2>2. CASE x # q
    BY <1>1, <1>2, <2>2 DEF TypeOK, Made, Same
  <2> QED
    BY <2>1, <2>2
<1>6. Respects(p)
  <2>1. \A a \in Accounts : funds'[a] >= funds[a]
    BY <1>1, <1>2, <1>3 DEF TypeOK
  <2>2. \A x \in Accounts \cup Goals : lock[x] \notin {NoProc, p} => lock'[x] = lock[x]
    BY <1>1, ReleaseLeaves
  <2>3. \A x \in Procs \ {p} : Made(x)' = Made(x)
    BY <1>5 DEF Made
  <2> QED
    BY <1>4, <1>5, <2>1, <2>2, <2>3 DEF Respects
<1>7. Tables'
  <2>1. \A x, y \in Procs : Made(x)' /\ Made(y)' /\ contribs'[x].key = contribs'[y].key => x = y
    BY <1>2, <1>5 DEF Tables, Same
  <2>2. \A x \in Procs : Made(x)' => goal'[contribs'[x].goal].open # "none"
    <3> SUFFICES ASSUME NEW x \in Procs, Made(x)' PROVE goal'[contribs'[x].goal].open # "none"
      OBVIOUS
    <3>1. Made(x) /\ contribs[x] \in Contribution /\ contribs'[x].goal = contribs[x].goal
      BY <1>2, <1>5 DEF Same, Made, TypeOK
    <3> QED
      BY <1>2, <1>4, <3>1 DEF Tables, Contribution
  <2>3. goal[row.goal].open # "none"
    BY <1>2 DEF Tables, Same
  <2>4. \A g \in Goals : goal'[g].open = "none" => saved'[g] = 0
    BY <1>1, <1>2, <1>4, <2>3 DEF Tables, TypeOK
  <2> QED
    BY <2>1, <2>2, <2>4 DEF Tables
<1>8. ~Made(p)'
  BY <1>2, <1>5
<1> QED
  BY <1>1, <1>4, <1>6, <1>7, <1>8, EndKept

LEMMA SavingsStep ==
  ASSUME SavingsInv, NEW p \in Procs, Step(p)
  PROVE  SavingsInv'
<1>1. CASE EditGoal(p)
  BY <1>1, CreateGoalKept, ChecksKept, CommitUpdateKept, CommitRemoveKept DEF EditGoal
<1>2. CASE Contribute(p)
  BY <1>2, ReadGoalKept, LockAccountKept, LockGoalKept, CommitContributionKept DEF Contribute
<1>3. CASE Delete(p)
  BY <1>3, ReadContributionKept, RevertGoalKept, CommitDeletionKept DEF Delete
<1>4. CASE Reconcile(p)
  BY <1>4, ReadAmountKept, SumContributionsKept, CommitReconcileKept DEF Reconcile
<1> QED
  BY <1>1, <1>2, <1>3, <1>4 DEF Step

LEMMA SavingsInvInit == Init => SavingsInv
<1> SUFFICES ASSUME Init PROVE SavingsInv
  OBVIOUS
<1>1. TypeOK
  <2>1. goal \in [Goals -> Goal]
    <3> SUFFICES ASSUME NEW g \in Goals
                 PROVE  [open |-> IF Target[g] = 0 THEN "none" ELSE "active",
                         status |-> Reached(Legacy[g], Target[g]),
                         amount |-> Legacy[g], target |-> Target[g]] \in Goal
      BY DEF Init
    <3>1. Legacy[g] \in Nat /\ Target[g] \in Nat
      BY SavingsAssumption
    <3>2. Reached(Legacy[g], Target[g]) \in Statuses
      BY DEF Reached, Statuses
    <3> QED
      BY <3>1, <3>2 DEF Goal
  <2>2. funds \in [Accounts -> Int]
    BY SavingsAssumption DEF Init
  <2> QED
    BY <2>1, <2>2, NothingTypes DEF Init, TypeOK, Begun
<1>2. \A p \in Procs : ~Made(p) /\ pc[p] = "idle" /\ req[p] = NoRequest
  BY DEF Init, Made
<1>3. Tables
  BY <1>2 DEF Tables, Init
<1> QED
  BY <1>1, <1>2, <1>3 DEF SavingsInv, Serves, Relies, At, Begun

LEMMA SavingsInvKept ==
  ASSUME SavingsInv, [Next]_vars
  PROVE  SavingsInv'
<1>1. CASE UNCHANGED vars
  BY <1>1 DEF vars, SavingsInv, TypeOK, Tables, Serves, Relies, At, Reverts, Made, Same
<1>2. ASSUME NEW p \in Procs, Begin(p) \/ Step(p) \/ Abort(p) PROVE SavingsInv'
  BY <1>2, BeginKept, SavingsStep, AbortKept
<1> QED
  BY <1>1, <1>2 DEF Next, AllOver

\* The inductive invariant of savings goals.
THEOREM SavingsInvariant == Spec => []SavingsInv
BY SavingsInvInit, SavingsInvKept, PTL DEF Spec
\* Every variable keeps its type, for any number of goals, accounts and requests.
THEOREM SavingsTypeCorrect == Spec => []TypeOK
<1>1. SavingsInv => TypeOK
  BY DEF SavingsInv
<1> QED
  BY <1>1, SavingsInvariant, PTL

-----------------------------------------------------------------------------
(* The amount a goal shows is what is saved in it.  No deletion is under   *)
(* way, so what is saved only grows: a reconciliation that found less than *)
(* that is about to write a sum that is greater than what it read, and the *)
(* amount is no longer what it read.                                       *)

\* A goal that shows the truth.
Truthful(g) == goal[g].open = "active" /\ Legacy[g] = 0

\* What a reconciliation knows of the goal it reads.
Judged(p) ==
  LET g == req[p].goal IN
  Truthful(g) =>
    /\ At(p, "reconcile", "read") => seen[p].amount <= saved[g]
    /\ At(p, "reconcile", "checked") => seen[p].amount < seen[p].sum /\ seen[p].sum <= saved[g]

Tracking ==
  NoneAsked({"delete"}) =>
    /\ \A g \in Goals : Truthful(g) => goal[g].amount = saved[g]
    /\ \A p \in Procs : Judged(p)

LEMMA TrackingInit == Init => Tracking
<1> SUFFICES ASSUME Init PROVE Tracking
  OBVIOUS
<1>1. \A g \in Goals : Truthful(g) => goal[g].amount = saved[g]
  BY SavingsAssumption DEF Init, Truthful
<1>2. \A p \in Procs : Judged(p)
  BY DEF Init, Judged, At
<1> QED
  BY <1>1, <1>2 DEF Tracking

\* The step of a request changes none of the requests.
LEMMA RequestsStay ==
  ASSUME NEW p \in Procs, Step(p) \/ Abort(p)
  PROVE  req' = req
BY DEF Step, EditGoal, Contribute, Delete, Reconcile, CreateGoal, CheckUpdate, CommitUpdate,
       CheckRemove, CommitRemove, ReadGoal, LockAccount, LockGoal, CommitContribution,
       ReadContribution, RevertGoal, CommitDeletion, ReadAmount, SumContributions,
       CommitReconcile, Abort, Proceed, Goto, Finish
\* What is asked stays asked.
LEMMA NoneAskedBefore ==
  ASSUME SavingsInv, NEW ops, NEW p \in Procs, Begin(p) \/ Step(p) \/ Abort(p), NoneAsked(ops)'
  PROVE  NoneAsked(ops)
<1>1. CASE Step(p) \/ Abort(p)
  BY <1>1, RequestsStay DEF NoneAsked
<1>2. CASE Begin(p)
  <2>1. TypeOK /\ Serves(p) /\ pc[p] = "idle"
    BY <1>2 DEF SavingsInv, Begin
  <2>2. PICK r \in RequestsOf[p] : req' = [req EXCEPT ![p] = r]
    BY <1>2 DEF Begin
  <2>3. r \in Request /\ r # NoRequest /\ (p \in Daemons => r.op = "reconcile")
    BY SavingsAssumption
  <2>4. req[p] # NoRequest => req[p].op = "reconcile" /\ r.op = "reconcile"
    BY <2>1, <2>3, SavingsAssumption DEF Serves
  <2>5. \A q \in Procs \ {p} : req'[q] = req[q]
    BY <2>1, <2>2 DEF TypeOK
  <2>6. req'[p] = r
    BY <2>1, <2>2 DEF TypeOK
  <2> QED
    BY <2>3, <2>4, <2>5, <2>6 DEF NoneAsked
<1> QED
  BY <1>1, <1>2

\* The others' knowledge of a goal lasts while what is saved only grows.
LEMMA JudgedStays ==
  ASSUME SavingsInv, NEW p \in Procs, NEW q \in Procs \ {p}, Judged(q), Alone(p),
         saved' \in [Goals -> Int],
         \A g \in Goals : Truthful(g)' /\ goal[g].open # "none" =>
           Truthful(g) /\ saved'[g] >= saved[g]
  PROVE  Judged(q)'
<1> SUFFICES ASSUME pc[q] \in {"read", "checked"}, req[q].op = "reconcile",
                    Truthful(req[q].goal)'
             PROVE  Judged(q)'
  BY DEF Judged, At, Alone
<1>1. /\ req[q].goal \in Goals /\ goal[req[q].goal].open # "none"
      /\ seen[q].amount \in Int /\ seen[q].sum \in Int
      /\ saved[req[q].goal] \in Int /\ saved'[req[q].goal] \in Int
      /\ req'[q] = req[q] /\ pc'[q] = pc[q] /\ seen'[q] = seen[q]
  BY RequestIs DEF SavingsInv, Relies, Begun, Request, TypeOK, Seen, Alone
<1>2. Truthful(req[q].goal) /\ saved'[req[q].goal] >= saved[req[q].goal]
  BY <1>1
<1> QED
  BY <1>1, <1>2 DEF Judged, At

\* A step that changes neither the amounts nor what is saved.
LEMMA QuietTracking ==
  ASSUME SavingsInv, SavingsInv', NEW p \in Procs, Alone(p),
         \A g \in Goals : Truthful(g) => goal[g].amount = saved[g],
         \A q \in Procs : Judged(q),
         \A g \in Goals : Truthful(g)' => Truthful(g) /\ goal'[g].amount = goal[g].amount,
         saved' = saved,
         Judged(p)'
  PROVE  Tracking'
<1>1. \A q \in Procs : Judged(q)'
  <2> SUFFICES ASSUME NEW q \in Procs, q # p PROVE Judged(q)'
    OBVIOUS
  <2>1. saved' \in [Goals -> Int] /\ \A g \in Goals : saved'[g] >= saved[g]
    BY DEF SavingsInv, TypeOK
  <2> QED
    BY <2>1, JudgedStays
<1>2. \A g \in Goals : Truthful(g)' => goal'[g].amount = saved'[g]
  OBVIOUS
<1> QED
  BY <1>1, <1>2 DEF Tracking

\* The moves of a request.
LEMMA EndMoves ==
  ASSUME SavingsInv, NEW p \in Procs, NEW how \in Finished, Finish(p, how)
  PROVE  Alone(p) /\ pc'[p] \in {"idle"} \cup Finished
BY DEF SavingsInv, TypeOK, Alone, Finish, Finished

LEMMA GotoMoves ==
  ASSUME SavingsInv, NEW p \in Procs, NEW label, NEW found, Goto(p, label, found)
  PROVE  Alone(p) /\ pc'[p] = label /\ seen'[p] = found /\ req'[p] = req[p]
BY DEF SavingsInv, TypeOK, Alone, Goto

\* Requests other than reconciliations know nothing of a goal.
LEMMA OnlyPagesJudge ==
  ASSUME SavingsInv, NEW p \in Procs, pc[p] \in Begun, req' = req, req[p].op # "reconcile"
  PROVE  Judged(p)'
BY DEF Judged, At

LEMMA EndJudged ==
  ASSUME NEW p \in Procs, pc'[p] \in {"idle"} \cup Finished
  PROVE  Judged(p)'
BY DEF Judged, At, Finished
LEMMA StepAlone ==
  ASSUME SavingsInv, NEW p \in Procs, Begin(p) \/ Step(p) \/ Abort(p)
  PROVE  Alone(p)
<1>1. TypeOK
  BY DEF SavingsInv
<1>2. (\E label, found : Goto(p, label, found)) \/ (\E how : Finish(p, how)) => Alone(p)
  BY <1>1 DEF Alone, Goto, Finish, TypeOK
<1>3. CASE Begin(p)
  BY <1>1, <1>3 DEF Begin, Alone, TypeOK
<1>4. CASE Abort(p)
  BY <1>2, <1>4 DEF Abort
<1>5. CASE EditGoal(p)
  BY <1>2, <1>5 DEF EditGoal, CreateGoal, CheckUpdate, CommitUpdate, CheckRemove, CommitRemove,
                    Proceed
<1>6. CASE Contribute(p)
  BY <1>2, <1>6 DEF Contribute, ReadGoal, LockAccount, LockGoal, CommitContribution, Proceed
<1>7. CASE Delete(p)
  BY <1>2, <1>7 DEF Delete, ReadContribution, RevertGoal, CommitDeletion, Proceed
<1>8. CASE Reconcile(p)
  BY <1>2, <1>8 DEF Reconcile, ReadAmount, SumContributions, CommitReconcile, Proceed
<1> QED
  BY <1>3, <1>4, <1>5, <1>6, <1>7, <1>8 DEF Step

\* A step that changes no table, of a request that is no reconciliation.
LEMMA ReadTracking ==
  ASSUME SavingsInv, SavingsInv', NEW p \in Procs, Alone(p), NoneAsked({"delete"}), Tracking,
         UNCHANGED data,
         pc'[p] \in {"idle"} \cup Finished \/ (req'[p] = req[p] /\ req[p].op # "reconcile")
           \/ Judged(p)' \/ pc'[p] = "begun"
  PROVE  Tracking'
<1>1. Judged(p)'
  BY EndJudged DEF Judged, At
<1>2. \A g \in Goals : Truthful(g)' => Truthful(g) /\ goal'[g].amount = goal[g].amount
  BY DEF Truthful, data
<1> QED
  BY <1>1, <1>2, QuietTracking DEF Tracking, data

LEMMA TrackingReads ==
  ASSUME SavingsInv, SavingsInv', NEW p \in Procs, Alone(p), NoneAsked({"delete"}), Tracking,
         \/ CheckUpdate(p) \/ CheckRemove(p) \/ ReadGoal(p) \/ LockAccount(p) \/ LockGoal(p)
         \/ ReadContribution(p) \/ RevertGoal(p)
  PROVE  Tracking'
<1>1. UNCHANGED data /\ req' = req /\ req[p].op # "reconcile"
  BY DEF CheckUpdate, CheckRemove, ReadGoal, LockAccount, LockGoal, ReadContribution, RevertGoal,
         At, Proceed, Goto, Finish
<1> QED
  BY <1>1, ReadTracking

LEMMA TrackingReadAmount ==
  ASSUME SavingsInv, SavingsInv', NEW p \in Procs, Alone(p), NoneAsked({"delete"}), Tracking,
         ReadAmount(p)
  PROVE  Tracking'
<1> DEFINE g == goal[req[p].goal]
           ok == g.open = "active" /\ g.status # "CANCELLED"
<1>1. /\ pc[p] \in Begun /\ req[p].op = "reconcile"
      /\ Proceed(p, ok, "read", Shown(g.amount))
  BY DEF ReadAmount, At, Begun, Shown
<1>2. req[p].goal \in Goals /\ g.amount \in Int /\ UNCHANGED data
  BY <1>1, RequestIs DEF SavingsInv, TypeOK, Request, Goal, Proceed
<1>3. CASE ok
  <2>1. pc'[p] = "read" /\ seen'[p] = Shown(g.amount) /\ req'[p] = req[p]
    BY <1>1, <1>3, GotoMoves DEF Proceed
  <2>2. seen'[p].amount = g.amount
    BY <1>2, <2>1, ShownSeen
  <2>3. Judged(p)'
    BY <1>2, <2>1, <2>2 DEF Judged, At, Tracking, Truthful, data
  <2> QED
    BY <1>2, <2>3, ReadTracking
<1>4. CASE ~ok
  BY <1>1, <1>2, <1>4, EndMoves, ReadTracking DEF Proceed, Finished
<1> QED
  BY <1>3, <1>4

LEMMA TrackingSum ==
  ASSUME SavingsInv, SavingsInv', NEW p \in Procs, Alone(p), NoneAsked({"delete"}), Tracking,
         SumContributions(p)
  PROVE  Tracking'
<1> DEFINE g == req[p].goal
           sum == IF goal[g].open = "active" THEN saved[g] ELSE 0
<1>1. /\ pc[p] = "read" /\ pc[p] \in Begun /\ req[p].op = "reconcile" /\ UNCHANGED data
      /\ \/ seen[p].amount # sum /\ Goto(p, "checked", [seen[p] EXCEPT !.sum = sum])
         \/ Finish(p, "done")
  BY DEF SumContributions, At, Begun, Differs
<1>2. g \in Goals /\ saved[g] \in Int /\ seen[p] \in Seen
  BY <1>1, RequestIs DEF SavingsInv, TypeOK, Request
<1>3. CASE seen[p].amount # sum /\ Goto(p, "checked", [seen[p] EXCEPT !.sum = sum])
  <2>1. pc'[p] = "checked" /\ req'[p] = req[p]
    BY <1>3, GotoMoves
  <2>2. seen'[p].amount = seen[p].amount /\ seen'[p].sum = sum
    <3>1. PICK n \in Int : n = sum
      BY <1>2
    <3> HIDE DEF sum
    <3>2. seen'[p] = [seen[p] EXCEPT !.sum = n]
      BY <1>3, <3>1, GotoMoves
    <3> QED
      BY <1>2, <3>1, <3>2 DEF Seen
  <2>3. Truthful(g) => seen[p].amount <= saved[g]
    BY <1>1 DEF Tracking, Judged, At
  <2>4. seen[p].amount \in Int
    BY <1>2 DEF Seen
  <2>5. Truthful(g)' => Truthful(g) /\ sum = saved[g] /\ saved'[g] = saved[g]
    BY <1>1, <2>1 DEF Truthful, data
  <2>6. Truthful(g)' => seen'[p].amount < seen'[p].sum /\ seen'[p].sum <= saved'[g]
    BY <1>2, <1>3, <2>2, <2>3, <2>4, <2>5
  <2>7. Judged(p)'
    BY <2>1, <2>6 DEF Judged, At
  <2> QED
    BY <1>1, <2>7, ReadTracking
<1>4. CASE Finish(p, "done")
  BY <1>1, <1>4, EndMoves, ReadTracking DEF Finished
<1> QED
  BY <1>1, <1>3, <1>4

\* Creating, editing and deleting a goal.
LEMMA TrackingEdits ==
  ASSUME SavingsInv, SavingsInv', NEW p \in Procs, Alone(p), NoneAsked({"delete"}), Tracking,
         CommitUpdate(p) \/ CommitRemove(p)
  PROVE  Tracking'
<1>1. /\ pc[p] \in Begun /\ Finish(p, "done") /\ saved' = saved
      /\ \/ goal' = [goal EXCEPT ![req[p].goal] = Edited(goal[req[p].goal], req[p])]
         \/ goal' = [goal EXCEPT ![req[p].goal].open = "deleted"]
  BY DEF CommitUpdate, CommitRemove, At, Begun
<1>2. TypeOK /\ req[p] \in Request /\ req[p].goal \in Goals
  BY <1>1, RequestIs DEF SavingsInv, Request
<1>3. \A g \in Goals : Truthful(g)' => Truthful(g) /\ goal'[g].amount = goal[g].amount
  <2>1. /\ Edited(goal[req[p].goal], req[p]).open = goal[req[p].goal].open
        /\ Edited(goal[req[p].goal], req[p]).amount = goal[req[p].goal].amount
    BY <1>2, EditedTypes DEF TypeOK
  <2>2. CASE goal' = [goal EXCEPT ![req[p].goal] = Edited(goal[req[p].goal], req[p])]
    BY <1>2, <2>1, <2>2 DEF Truthful, TypeOK
  <2>3. CASE goal' = [goal EXCEPT ![req[p].goal].open = "deleted"]
    BY <1>2, <2>3 DEF Truthful, TypeOK, Goal
  <2> QED
    BY <1>1, <2>2, <2>3
<1>4. Judged(p)'
  BY <1>1, EndMoves, EndJudged DEF Finished
<1> QED
  BY <1>1, <1>3, <1>4, QuietTracking DEF Tracking
LEMMA TrackingCreate ==
  ASSUME SavingsInv, SavingsInv', NEW p \in Procs, Alone(p), NoneAsked({"delete"}), Tracking,
         CreateGoal(p)
  PROVE  Tracking'
<1> DEFINE g == req[p].goal
<1>1. /\ pc[p] \in Begun /\ Finish(p, "done") /\ saved' = saved /\ goal[g].open = "none"
      /\ goal' = [goal EXCEPT ![g] = [open |-> "active", status |-> "ACTIVE",
                                      amount |-> 0, target |-> req[p].amt]]
  BY DEF CreateGoal, At, Begun
<1>2. TypeOK /\ g \in Goals /\ saved[g] = 0 /\ saved' \in [Goals -> Int]
  BY <1>1, RequestIs DEF SavingsInv, Request, Tables, TypeOK
<1> HIDE DEF g
<1>3. \A x \in Goals : Truthful(x)' => goal'[x].amount = saved'[x]
  BY <1>1, <1>2 DEF TypeOK, Tracking, Truthful
<1>4. \A x \in Goals : Truthful(x)' /\ goal[x].open # "none" => Truthful(x) /\ saved'[x] >= saved[x]
  BY <1>1, <1>2 DEF TypeOK, Truthful
<1>5. \A q \in Procs : Judged(q)'
  BY <1>1, <1>2, <1>4, EndMoves, EndJudged, JudgedStays DEF Finished, Tracking
<1> QED
  BY <1>3, <1>5 DEF Tracking

LEMMA TrackingContribution ==
  ASSUME SavingsInv, SavingsInv', NEW p \in Procs, Alone(p), NoneAsked({"delete"}), Tracking,
         CommitContribution(p)
  PROVE  Tracking'
<1> DEFINE r == req[p]
<1>1. /\ At(p, "contribute", "ready") /\ pc[p] \in Begun
      /\ \/ \E how \in {"repeated", "rejected"} : Finish(p, how) /\ UNCHANGED data
         \/ Made1(p) /\ Finish(p, "done")
  BY DEF CommitContribution, At, Begun, Made1
<1>2. TypeOK /\ r.goal \in Goals /\ r.amt \in Nat
  BY <1>1, RequestIs DEF SavingsInv, Request
<1>3. ASSUME NEW how \in {"repeated", "rejected"}, Finish(p, how), UNCHANGED data
      PROVE  Tracking'
  BY <1>3, EndMoves, ReadTracking DEF Finished
<1>4. CASE Made1(p) /\ Finish(p, "done")
  <2>1. /\ \A g \in Goals \ {r.goal} : goal'[g] = goal[g] /\ saved'[g] = saved[g]
        /\ goal'[r.goal].open = goal[r.goal].open
        /\ goal'[r.goal].amount = goal[r.goal].amount + r.amt
        /\ saved'[r.goal] = saved[r.goal] + r.amt
    BY <1>2, <1>4, RaisedTypes DEF Made1, TypeOK
  <2>2. \A g \in Goals : Truthful(g)' => goal'[g].amount = saved'[g]
    BY <1>2, <2>1 DEF Truthful, Tracking
  <2>3. saved' \in [Goals -> Int]
    BY DEF SavingsInv, TypeOK
  <2>4. \A g \in Goals : Truthful(g)' => Truthful(g) /\ saved'[g] >= saved[g]
    BY <1>2, <2>1, <2>3 DEF Truthful, TypeOK
  <2>5. \A q \in Procs : Judged(q)'
    BY <1>4, <2>3, <2>4, EndMoves, EndJudged, JudgedStays DEF Finished, Tracking
  <2> QED
    BY <2>2, <2>5 DEF Tracking
<1> QED
  BY <1>1, <1>3, <1>4

\* An amount that shows the truth is not what a correction was judged by.
LEMMA TrackingReconcile ==
  ASSUME SavingsInv, SavingsInv', NEW p \in Procs, Alone(p), NoneAsked({"delete"}), Tracking,
         CommitReconcile(p)
  PROVE  Tracking'
<1> DEFINE g == req[p].goal
<1>1. /\ At(p, "reconcile", "checked") /\ pc[p] \in Begun /\ Finish(p, "done") /\ saved' = saved
      /\ \/ goal' = goal
         \/ goal[g].amount = seen[p].amount /\ goal' = [goal EXCEPT ![g].amount = seen[p].sum]
  BY DEF CommitReconcile, At, Begun, Unmoved
<1>2. /\ TypeOK /\ g \in Goals /\ seen[p].amount \in Int /\ seen[p].sum \in Int
      /\ saved[g] \in Int
  BY <1>1, RequestIs DEF SavingsInv, Request, TypeOK, Seen
<1>3. Truthful(g) => goal[g].amount # seen[p].amount
  BY <1>1, <1>2 DEF Tracking, Judged
<1>4. \A x \in Goals : Truthful(x)' => Truthful(x) /\ goal'[x].amount = goal[x].amount
  <2> HIDE DEF g
  <2>1. CASE goal' = goal
    BY <2>1 DEF Truthful
  <2>2. CASE ~Truthful(g) /\ goal' = [goal EXCEPT ![g].amount = seen[p].sum]
    BY <1>2, <2>2 DEF Truthful, TypeOK, Goal
  <2> QED
    BY <1>1, <1>3, <2>1, <2>2
<1>5. Judged(p)'
  BY <1>1, EndMoves, EndJudged DEF Finished
<1> QED
  BY <1>1, <1>4, <1>5, QuietTracking DEF Tracking

LEMMA TrackingStep ==
  ASSUME SavingsInv, SavingsInv', NEW p \in Procs, Step(p), NoneAsked({"delete"}), Tracking
  PROVE  Tracking'
<1>1. Alone(p)
  BY StepAlone
<1>2. CASE EditGoal(p)
  BY <1>1, <1>2, TrackingReads, TrackingEdits, TrackingCreate DEF EditGoal
<1>3. CASE Contribute(p)
  BY <1>1, <1>3, TrackingReads, TrackingContribution DEF Contribute
<1>4. CASE Delete(p)
  <2>1. ~CommitDeletion(p)
    <3>1. CommitDeletion(p) => pc[p] \in Begun /\ req[p].op = "delete"
      BY DEF CommitDeletion, At, Begun
    <3> QED
      BY <3>1, RequestIs, SavingsAssumption DEF NoneAsked
  <2> QED
    BY <1>1, <1>4, <2>1, TrackingReads DEF Delete
<1>5. CASE Reconcile(p)
  BY <1>1, <1>5, TrackingReadAmount, TrackingSum, TrackingReconcile DEF Reconcile
<1> QED
  BY <1>2, <1>3, <1>4, <1>5 DEF Step

LEMMA TrackingNext ==
  ASSUME SavingsInv, SavingsInv', Tracking, [Next]_vars
  PROVE  Tracking'
<1>1. CASE UNCHANGED vars
  BY <1>1 DEF vars, Tracking, NoneAsked, Truthful, Judged, At
<1>2. ASSUME NEW p \in Procs, Begin(p) \/ Step(p) \/ Abort(p) PROVE Tracking'
  <2> SUFFICES ASSUME NoneAsked({"delete"})' PROVE Tracking'
    BY DEF Tracking
  <2>1. NoneAsked({"delete"}) /\ Alone(p)
    BY <1>2, NoneAskedBefore, StepAlone
  <2>2. CASE Begin(p)
    <3>1. UNCHANGED data /\ pc'[p] \in {"begun", "repeated"}
      BY <2>2 DEF Begin, SavingsInv, TypeOK
    <3> QED
      BY <2>1, <3>1, ReadTracking DEF Finished
  <2>3. CASE Abort(p)
    <3>1. UNCHANGED data /\ pc'[p] \in {"idle"} \cup Finished
      BY <2>3, EndMoves DEF Abort, Finished
    <3> QED
      BY <2>1, <3>1, ReadTracking
  <2>4. CASE Step(p)
    BY <2>1, <2>4, TrackingStep
  <2> QED
    BY <1>2, <2>2, <2>3, <2>4
<1> QED
  BY <1>1, <1>2 DEF Next, AllOver

\* No increment is lost to a reconciliation: as long as no contribution is deleted, a
\* goal that showed the truth at first always shows what has been saved in it.
THEOREM SavingsCacheTracksSaved == Spec => []CacheTracksSaved
<1>1. Tracking => CacheTracksSaved
  BY DEF Tracking, CacheTracksSaved, Truthful
<1> QED
  BY <1>1, SavingsInvariant, TrackingInit, TrackingNext, PTL DEF Spec
-----------------------------------------------------------------------------
(* A goal is completed exactly as long as it shows its target.  A deletion *)
(* decides under the lock of the goal what it takes back and whether the   *)
(* goal opens again, by a target that only an update could change.         *)

\* What a deletion has decided about the goal.
Weighed(p) ==
  LET row == seen[p].row
      g == goal[row.goal]
      left == IF seen[p].reverts THEN g.amount - row.amt ELSE g.amount
  IN
  /\ pc[p] \in {"read", "ready"} /\ req[p].op = "delete" => seen[p].target = g.target
  /\ At(p, "delete", "ready") /\ Reverts(p) =>
       (seen[p].reopens <=> g.status = "COMPLETED" /\ left < seen[p].target)

Exact(g) == g.open = "active" => g.status = Reached(g.amount, g.target)

Completing ==
  NoneAsked({"update", "reconcile"}) => (\A g \in Goals : Exact(goal[g])) /\ \A p \in Procs : Weighed(p)

LEMMA CompletingInit == Init => Completing
<1> SUFFICES ASSUME Init PROVE Completing
  OBVIOUS
<1>1. \A g \in Goals : Exact(goal[g])
  BY DEF Init, Exact
<1>2. \A p \in Procs : Weighed(p)
  BY DEF Init, Weighed, At
<1> QED
  BY <1>1, <1>2 DEF Completing

\* What a deletion has decided lasts while nobody else writes the goal it holds,
\* and nobody the target of a goal.
LEMMA WeighedStays ==
  ASSUME SavingsInv, NEW p \in Procs, NEW q \in Procs \ {p}, Weighed(q), Alone(p),
         \A g \in Goals : goal[g].open # "none" =>
           /\ goal'[g].target = goal[g].target
           /\ lock[g] \notin {NoProc, p} => goal'[g] = goal[g]
  PROVE  Weighed(q)'
<1> SUFFICES ASSUME pc[q] \in {"read", "ready"}, req[q].op = "delete" PROVE Weighed(q)'
  BY DEF Weighed, At, Alone
<1>1. req'[q] = req[q] /\ pc'[q] = pc[q] /\ seen'[q] = seen[q] /\ q \notin {p, NoProc}
  BY SavingsAssumption DEF Alone
<1>2. /\ seen[q].row.goal \in Goals /\ goal[seen[q].row.goal].open # "none"
      /\ At(q, "delete", "ready") /\ Reverts(q) => lock[seen[q].row.goal] = q
  <2>1. /\ Relies(q) /\ Tables /\ TypeOK /\ req[q].of \in Procs
    BY RequestIs DEF SavingsInv, Begun, Request
  <2>2. Made(req[q].of) /\ seen[q].row \in Contribution /\ Same(seen[q].row, contribs[req[q].of])
    BY <2>1 DEF Relies
  <2> QED
    BY <2>1, <2>2 DEF Relies, Tables, Contribution, Same
<1>3. goal'[seen[q].row.goal].target = goal[seen[q].row.goal].target
  BY <1>2
<1>4. At(q, "delete", "ready") /\ Reverts(q) => goal'[seen[q].row.goal] = goal[seen[q].row.goal]
  BY <1>1, <1>2
<1> QED
  BY <1>1, <1>3, <1>4 DEF Weighed, At, Reverts

\* A step that leaves every other goal alone that somebody holds, and the targets.
LEMMA WritesComplete ==
  ASSUME SavingsInv, NEW p \in Procs, Alone(p), Completing, NoneAsked({"update", "reconcile"}),
         \A g \in Goals : goal[g].open # "none" =>
           /\ goal'[g].target = goal[g].target
           /\ lock[g] \notin {NoProc, p} => goal'[g] = goal[g],
         \A g \in Goals : goal'[g] # goal[g] => Exact(goal'[g]),
         Weighed(p)'
  PROVE  Completing'
<1>1. \A q \in Procs : Weighed(q)'
  BY WeighedStays DEF Completing
<1>2. \A g \in Goals : Exact(goal'[g])
  BY DEF Completing
<1> QED
  BY <1>1, <1>2 DEF Completing, Exact

LEMMA ReadsComplete ==
  ASSUME SavingsInv, NEW p \in Procs, Alone(p), Completing, NoneAsked({"update", "reconcile"}),
         goal' = goal,
         \/ pc'[p] \notin {"read", "ready"} \/ Weighed(p)'
         \/ pc[p] \in Begun /\ req' = req /\ req[p].op # "delete"
  PROVE  Completing'
<1>1. Weighed(p)'
  BY DEF Weighed, At
<1> QED
  BY <1>1, WritesComplete

LEMMA CompletingReads ==
  ASSUME SavingsInv, NEW p \in Procs, Alone(p), Completing, NoneAsked({"update", "reconcile"}),
         \/ CheckUpdate(p) \/ CheckRemove(p) \/ ReadGoal(p) \/ LockAccount(p) \/ LockGoal(p)
  PROVE  Completing'
<1>1. goal' = goal /\ pc[p] \in Begun /\ req' = req /\ req[p].op # "delete"
  BY DEF CheckUpdate, CheckRemove, ReadGoal, LockAccount, LockGoal, At, Proceed, Goto, Finish,
         data, Begun
<1> QED
  BY <1>1, ReadsComplete

LEMMA CompletingReadContribution ==
  ASSUME SavingsInv, NEW p \in Procs, Alone(p), Completing, NoneAsked({"update", "reconcile"}),
         ReadContribution(p)
  PROVE  Completing'
<1> DEFINE q == req[p].of
           n == IF Made(q) THEN goal[contribs[q].goal].target ELSE 0
           ok == Made(q) /\ contribs[q].active
<1>1. /\ pc[p] \in Begun /\ req[p].op = "delete"
      /\ Proceed(p, ok, "read", Found(contribs[q], n)) /\ goal' = goal
  BY DEF ReadContribution, At, Begun, Found, Proceed, data
<1>2. q \in Procs /\ TypeOK
  BY <1>1, RequestIs DEF Request, SavingsInv
<1>3. CASE ok
  <2>1. contribs[q] \in Contribution /\ n \in Nat /\ n = goal[contribs[q].goal].target
    BY <1>2, <1>3 DEF TypeOK, Made, Contribution, Goal
  <2>2. /\ pc'[p] = "read" /\ req'[p] = req[p] /\ seen'[p] = Found(contribs[q], n)
    BY <1>1, <1>3, GotoMoves DEF Proceed
  <2>3. seen'[p].row = contribs[q] /\ seen'[p].target = n
    <3> HIDE DEF n
    <3>1. /\ Found(contribs[q], n).row = contribs[q]
          /\ Found(contribs[q], n).target = n
      BY <2>1, FoundTypes
    <3> QED
      BY <2>2, <3>1
  <2>4. Weighed(p)'
    BY <1>1, <2>1, <2>2, <2>3 DEF Weighed, At
  <2> QED
    BY <1>1, <2>4, ReadsComplete
<1>4. CASE ~ok
  <2>1. pc'[p] \notin {"read", "ready"}
    BY <1>1, <1>4, EndMoves DEF Proceed, Finished
  <2> QED
    BY <1>1, <2>1, ReadsComplete
<1> QED
  BY <1>3, <1>4
LEMMA CompletingRevert ==
  ASSUME SavingsInv, NEW p \in Procs, Alone(p), Completing, NoneAsked({"update", "reconcile"}),
         RevertGoal(p)
  PROVE  Completing'
<1> DEFINE row == seen[p].row
           g == goal[row.goal]
           reverts == g.amount >= row.amt
           left == IF reverts THEN g.amount - row.amt ELSE g.amount
           reopens == g.status = "COMPLETED" /\ left < seen[p].target
           found == [seen[p] EXCEPT !.reverts = reverts, !.reopens = reopens]
<1>1. /\ pc[p] = "read" /\ req[p].op = "delete" /\ goal' = goal
      /\ Goto(p, "ready", found)
  BY DEF RevertGoal, At, data
<1>2. seen[p] \in Seen /\ seen[p].target = g.target
  BY <1>1 DEF SavingsInv, TypeOK, Completing, Weighed
<1>3. PICK s : s = found
  OBVIOUS
<1>4. s.row = row /\ s.target = seen[p].target /\ s.reverts = reverts /\ s.reopens = reopens
  <2> HIDE DEF reverts, reopens
  <2>1. s = [amount |-> seen[p].amount, sum |-> seen[p].sum, target |-> seen[p].target,
             row |-> row, reverts |-> reverts, reopens |-> reopens]
    BY <1>2, <1>3 DEF Seen
  <2> QED
    BY <2>1
<1>5. pc'[p] = "ready" /\ req'[p] = req[p] /\ seen'[p] = s
  BY <1>1, <1>3, GotoMoves
<1>6. Weighed(p)'
  <2>1. seen'[p].reopens <=>
          g.status = "COMPLETED" /\ (IF seen'[p].reverts THEN g.amount - row.amt ELSE g.amount) < seen[p].target
    BY <1>4, <1>5
  <2> HIDE DEF found
  <2> QED
    BY <1>1, <1>2, <1>4, <1>5, <2>1 DEF Weighed, At
<1> QED
  BY <1>1, <1>6, ReadsComplete

LEMMA CompletingCreate ==
  ASSUME SavingsInv, NEW p \in Procs, Alone(p), Completing, NoneAsked({"update", "reconcile"}),
         CreateGoal(p)
  PROVE  Completing'
<1> DEFINE g == req[p].goal
<1>1. /\ pc[p] \in Begun /\ Finish(p, "done") /\ goal[g].open = "none"
      /\ goal' = [goal EXCEPT ![g] = [open |-> "active", status |-> "ACTIVE",
                                      amount |-> 0, target |-> req[p].amt]]
      /\ req[p].op = "create"
  BY DEF CreateGoal, At, Begun
<1>2. TypeOK /\ g \in Goals /\ req[p].amt > 0 /\ req[p].amt \in Nat
  BY <1>1, RequestIs DEF SavingsInv, Request
<1> HIDE DEF g
<1>3. \A x \in Goals \ {g} : goal'[x] = goal[x]
  BY <1>1, <1>2 DEF TypeOK
<1>4. Exact(goal'[g])
  BY <1>1, <1>2 DEF TypeOK, Exact, Reached
<1>5. Weighed(p)'
  BY <1>1, EndMoves DEF Finished, Weighed, At
<1> QED
  BY <1>1, <1>3, <1>4, <1>5, WritesComplete

LEMMA CompletingRemove ==
  ASSUME SavingsInv, NEW p \in Procs, Alone(p), Completing, NoneAsked({"update", "reconcile"}),
         CommitRemove(p)
  PROVE  Completing'
<1> DEFINE g == req[p].goal
<1>1. /\ pc[p] \in Begun /\ Finish(p, "done") /\ Free(p, g)
      /\ goal' = [goal EXCEPT ![g].open = "deleted"]
  BY DEF CommitRemove, At, Begun
<1>2. TypeOK /\ g \in Goals
  BY <1>1, RequestIs DEF SavingsInv, Request
<1> HIDE DEF g
<1>3. /\ \A x \in Goals \ {g} : goal'[x] = goal[x]
      /\ goal'[g].open = "deleted" /\ goal'[g].target = goal[g].target
      /\ lock[g] \in {NoProc, p}
  BY <1>1, <1>2 DEF TypeOK, Goal, Free
<1>4. Exact(goal'[g])
  BY <1>3 DEF Exact
<1>5. Weighed(p)'
  BY <1>1, EndMoves DEF Finished, Weighed, At
<1> QED
  BY <1>3, <1>4, <1>5, WritesComplete

LEMMA CompletingContribution ==
  ASSUME SavingsInv, NEW p \in Procs, Alone(p), Completing, NoneAsked({"update", "reconcile"}),
         CommitContribution(p)
  PROVE  Completing'
<1> DEFINE r == req[p]
           g == goal[r.goal]
<1>1. /\ At(p, "contribute", "ready") /\ pc[p] \in Begun
      /\ \/ \E how \in {"repeated", "rejected"} : Finish(p, how) /\ UNCHANGED data
         \/ Made1(p) /\ Finish(p, "done")
  BY DEF CommitContribution, At, Begun, Made1
<1>2. TypeOK /\ r.goal \in Goals /\ r.amt \in Nat /\ g \in Goal /\ lock[r.goal] = p
  <2>1. TypeOK /\ r.goal \in Goals /\ r.amt \in Nat /\ Relies(p)
    BY <1>1, RequestIs DEF SavingsInv, Request
  <2> QED
    BY <1>1, <2>1 DEF Relies, TypeOK
<1>3. Weighed(p)'
  <2>1. pc'[p] \in {"idle"} \cup Finished
    BY <1>1, EndMoves DEF Finished
  <2> QED
    BY <2>1 DEF Finished, Weighed, At
<1>4. CASE UNCHANGED data
  BY <1>3, <1>4, WritesComplete DEF data
<1>5. CASE Made1(p)
  <2>1. goal'[r.goal] = Raised(g, r.amt) /\ \A x \in Goals \ {r.goal} : goal'[x] = goal[x]
    BY <1>2, <1>5 DEF Made1, TypeOK
  <2>2. Exact(g)
    BY <1>2 DEF Completing
  <2>3. /\ Raised(g, r.amt).open = g.open
        /\ Raised(g, r.amt).amount = g.amount + r.amt /\ Raised(g, r.amt).target = g.target
        /\ Raised(g, r.amt).status =
             IF g.status = "ACTIVE" /\ g.amount + r.amt >= g.target THEN "COMPLETED" ELSE g.status
    BY <1>2, RaisedTypes
  <2>4. Exact(goal'[r.goal])
    BY <1>2, <2>1, <2>2, <2>3 DEF Exact, Reached, Goal
  <2> QED
    BY <1>2, <1>3, <2>1, <2>3, <2>4, WritesComplete
<1> QED
  BY <1>1, <1>4, <1>5

LEMMA CompletingDeletion ==
  ASSUME SavingsInv, NEW p \in Procs, Alone(p), Completing, NoneAsked({"update", "reconcile"}),
         CommitDeletion(p)
  PROVE  Completing'
<1> DEFINE row == seen[p].row
           g == goal[row.goal]
<1>1. /\ pc[p] = "ready" /\ req[p].op = "delete" /\ pc[p] \in Begun /\ Finish(p, "done")
      /\ goal' = [goal EXCEPT ![row.goal] = Lowered(@, seen[p])]
  BY DEF CommitDeletion, At, Begun
<1>2. /\ TypeOK /\ Relies(p) /\ row \in Contribution /\ row.goal \in Goals /\ row.amt \in Nat
      /\ seen[p] \in Seen /\ g \in Goal
  <2>1. TypeOK /\ Relies(p)
    BY DEF SavingsInv
  <2> QED
    BY <1>1, <2>1 DEF Relies, TypeOK, Contribution
<1>3. Weighed(p)'
  BY <1>1, EndMoves DEF Finished, Weighed, At
<1>4. /\ goal'[row.goal] = Lowered(g, seen[p])
      /\ \A x \in Goals \ {row.goal} : goal'[x] = goal[x]
  BY <1>1, <1>2 DEF TypeOK
<1>5. /\ Lowered(g, seen[p]) \in Goal
      /\ Lowered(g, seen[p]).open = g.open /\ Lowered(g, seen[p]).target = g.target
      /\ Lowered(g, seen[p]).amount = IF seen[p].reverts THEN g.amount - row.amt ELSE g.amount
      /\ Lowered(g, seen[p]).status = IF seen[p].reopens THEN "ACTIVE" ELSE g.status
  BY <1>2, LoweredTypes
<1>6. CASE Reverts(p)
  <2>1. /\ Exact(g) /\ seen[p].target = g.target
        /\ seen[p].reopens <=> g.status = "COMPLETED"
             /\ (IF seen[p].reverts THEN g.amount - row.amt ELSE g.amount) < seen[p].target
    BY <1>1, <1>2, <1>6 DEF Completing, Weighed, At
  <2>2. Exact(goal'[row.goal])
    BY <1>2, <1>4, <1>5, <2>1 DEF Exact, Reached, Goal
  <2>3. lock[row.goal] = p
    BY <1>1, <1>2, <1>6 DEF Relies, At
  <2> QED
    BY <1>2, <1>3, <1>4, <1>5, <2>2, <2>3, WritesComplete
<1>7. CASE ~Reverts(p)
  <2>1. Lowered(g, seen[p]) = g
    BY <1>2, <1>5, <1>7 DEF Goal, Reverts
  <2>2. \A x \in Goals : goal'[x] = goal[x]
    BY <1>4, <2>1
  <2> QED
    BY <1>3, <2>2, WritesComplete
<1> QED
  BY <1>6, <1>7

LEMMA CompletingStep ==
  ASSUME SavingsInv, NEW p \in Procs, Step(p), NoneAsked({"update", "reconcile"}), Completing
  PROVE  Completing'
<1>1. Alone(p)
  BY StepAlone
<1>2. ~CommitUpdate(p) /\ ~Reconcile(p)
  <2>1. CommitUpdate(p) \/ Reconcile(p) => pc[p] \in Begun /\ req[p].op \in {"update", "reconcile"}
    BY DEF CommitUpdate, Reconcile, ReadAmount, SumContributions, CommitReconcile, At, Begun
  <2> QED
    BY <2>1, RequestIs, SavingsAssumption DEF NoneAsked
<1>3. CASE EditGoal(p)
  BY <1>1, <1>2, <1>3, CompletingReads, CompletingCreate, CompletingRemove DEF EditGoal
<1>4. CASE Contribute(p)
  BY <1>1, <1>4, CompletingReads, CompletingContribution DEF Contribute
<1>5. CASE Delete(p)
  BY <1>1, <1>5, CompletingReadContribution, CompletingRevert, CompletingDeletion DEF Delete
<1> QED
  BY <1>2, <1>3, <1>4, <1>5 DEF Step

LEMMA CompletingNext ==
  ASSUME SavingsInv, Completing, [Next]_vars
  PROVE  Completing'
<1>1. CASE UNCHANGED vars
  BY <1>1 DEF vars, Completing, NoneAsked, Exact, Weighed, At, Reverts
<1>2. ASSUME NEW p \in Procs, Begin(p) \/ Step(p) \/ Abort(p) PROVE Completing'
  <2> SUFFICES ASSUME NoneAsked({"update", "reconcile"})' PROVE Completing'
    BY DEF Completing
  <2>1. NoneAsked({"update", "reconcile"}) /\ Alone(p)
    BY <1>2, NoneAskedBefore, StepAlone
  <2>2. CASE Begin(p)
    <3>1. goal' = goal /\ pc'[p] \in {"begun", "repeated"}
      BY <2>2 DEF Begin, SavingsInv, TypeOK, data
    <3> QED
      BY <2>1, <3>1, ReadsComplete
  <2>3. CASE Abort(p)
    <3>1. goal' = goal /\ pc'[p] \in {"idle"} \cup Finished
      BY <2>3, EndMoves DEF Abort, Finished, data
    <3> QED
      BY <2>1, <3>1, ReadsComplete DEF Finished
  <2>4. CASE Step(p)
    BY <2>1, <2>4, CompletingStep
  <2> QED
    BY <1>2, <2>2, <2>3, <2>4
<1> QED
  BY <1>1, <1>2 DEF Next, AllOver

\* However contributions, deletions and the end of a goal overlap: a goal that users
\* only pay into and take back from is completed exactly as long as it shows its target.
THEOREM SavingsCompletedIffReached == Spec => []CompletedIffReached
<1>1. Completing => CompletedIffReached
  BY DEF Completing, CompletedIffReached, Exact
<1> QED
  BY <1>1, SavingsInvariant, CompletingInit, CompletingNext, PTL DEF Spec
-----------------------------------------------------------------------------
(* Saving is putting money into envelopes: a contribution that commits puts*)
(* one aside, a deletion that commits first opens it, and no other step    *)
(* moves money.                                                            *)

Moved == TheEnvelopes!Next \/ UNCHANGED <<funds, Held, UsedKeys>>

LEMMA NothingMoved == ASSUME UNCHANGED <<contribs, funds>> PROVE Moved
BY DEF Moved, Held, UsedKeys, Made

LEMMA EnvelopeIs ==
  ASSUME Amounts = Nat, NEW c \in Contribution
  PROVE  /\ EnvelopeOf(c) \in TheEnvelopes!Envelope
         /\ EnvelopeOf(c).goal = c.goal /\ EnvelopeOf(c).acct = c.acct
         /\ EnvelopeOf(c).amt = c.amt /\ EnvelopeOf(c).key = c.key
BY DEF EnvelopeOf, Contribution, TheEnvelopes!Envelope

\* A contribution that is made is saved.
LEMMA SavedMoves ==
  ASSUME Amounts = Nat, SavingsInv, NEW p \in Procs, CommitContribution(p)
  PROVE  Moved
<1> DEFINE r == req[p]
<1>1. /\ At(p, "contribute", "ready") /\ pc[p] \in Begun
      /\ UNCHANGED data \/ (~KeyTaken(r.key) /\ Made1(p))
  BY DEF CommitContribution, At, Begun, Made1
<1>2. CASE UNCHANGED data
  BY <1>2, NothingMoved DEF data
<1>3. CASE ~KeyTaken(r.key) /\ Made1(p)
  <2>1. PICK c : c = contribs'[p]
    OBVIOUS
  <2>2. PICK e : e = EnvelopeOf(c)
    OBVIOUS
  <2>3. /\ c \in Contribution /\ c.active /\ Same(c, r) /\ ~Made(p) /\ TypeOK
        /\ \A q \in Procs \ {p} : contribs'[q] = contribs[q]
    BY <1>1, <1>3, <2>1, MadeTypes, RequestIs DEF SavingsInv
  <2>4. /\ e \in TheEnvelopes!Envelope
        /\ e.acct = r.acct /\ e.amt = r.amt /\ e.key = r.key
    BY <2>2, <2>3, EnvelopeIs DEF Same
  <2>5. e.key \notin UsedKeys
    BY <1>3, <2>4 DEF KeyTaken, UsedKeys
  <2>6. funds[e.acct] >= e.amt
    BY <1>1, <2>4 DEF SavingsInv, Relies, At
  <2>7. funds' = [funds EXCEPT ![e.acct] = @ - e.amt]
    BY <1>3, <2>4 DEF Made1
  <2>8. Made(p)' /\ \A q \in Procs \ {p} : Made(q)' = Made(q)
    BY <2>1, <2>3, SavingsAssumption DEF Made
  <2>9. Held' = Held \cup {e}
    <3>1. ASSUME NEW x, x \in Held' PROVE x \in Held \cup {e}
      BY <2>1, <2>2, <2>3, <2>8, <3>1 DEF Held
    <3>2. ASSUME NEW x, x \in Held PROVE x \in Held'
      <4>1. PICK q \in Procs : Made(q) /\ contribs[q].active /\ x = EnvelopeOf(contribs[q])
        BY <3>2 DEF Held
      <4>2. q # p
        BY <2>3, <4>1
      <4> QED
        BY <2>3, <2>8, <4>1, <4>2 DEF Held
    <3>3. e \in Held'
      BY <2>1, <2>2, <2>3, <2>8 DEF Held
    <3> QED
      BY <3>1, <3>2, <3>3
  <2>10. UsedKeys' = UsedKeys \cup {e.key}
    <3>1. ASSUME NEW x, x \in UsedKeys' PROVE x \in UsedKeys \cup {e.key}
      BY <2>1, <2>3, <2>4, <2>8, <3>1 DEF UsedKeys, Same
    <3>2. ASSUME NEW x, x \in UsedKeys PROVE x \in UsedKeys'
      <4>1. PICK q \in Procs : Made(q) /\ x = contribs[q].key
        BY <3>2 DEF UsedKeys
      <4>2. q # p
        BY <2>3, <4>1
      <4> QED
        BY <2>3, <2>8, <4>1, <4>2 DEF UsedKeys
    <3>3. e.key \in UsedKeys'
      BY <2>1, <2>3, <2>4, <2>8 DEF UsedKeys, Same
    <3> QED
      BY <3>1, <3>2, <3>3
  <2>11. TheEnvelopes!Save(e)
    BY <2>5, <2>6, <2>7, <2>9, <2>10 DEF TheEnvelopes!Save
  <2> QED
    BY <2>4, <2>11 DEF Moved, TheEnvelopes!Next
<1> QED
  BY <1>1, <1>2, <1>3

\* A deletion gives back what is in the envelope, unless another one already has.
LEMMA GivenBackMoves ==
  ASSUME Amounts = Nat, SavingsInv, NEW p \in Procs, CommitDeletion(p)
  PROVE  Moved
<1> DEFINE q == req[p].of
           row == seen[p].row
           n == IF contribs[q].active THEN row.amt ELSE 0
<1>1. /\ pc[p] = "ready" /\ req[p].op = "delete" /\ pc[p] \in Begun
      /\ contribs' = [contribs EXCEPT ![q] = [@ EXCEPT !.active = FALSE]]
      /\ funds' = [funds EXCEPT ![row.acct] = @ + n]
  BY DEF CommitDeletion, At, Begun
<1>2. /\ TypeOK /\ Tables /\ q \in Procs /\ Made(q)
      /\ row \in Contribution /\ Same(row, contribs[q]) /\ contribs[q] \in Contribution
  <2>1. TypeOK /\ Tables /\ Relies(p) /\ q \in Procs
    BY <1>1, RequestIs DEF SavingsInv, Request
  <2> QED
    BY <1>1, <2>1 DEF Relies, TypeOK, Made
<1>3. PICK c : c = contribs'[q]
  OBVIOUS
<1>4. c \in Contribution /\ ~c.active /\ Same(c, contribs[q])
  <2>1. c = [contribs[q] EXCEPT !.active = FALSE]
    BY <1>1, <1>2, <1>3 DEF TypeOK
  <2> QED
    BY <1>2, <2>1 DEF Contribution, Same
<1>5. \A x \in Procs : (Made(x)' <=> Made(x)) /\ (x # q => contribs'[x] = contribs[x])
  BY <1>1, <1>2, <1>3, <1>4, SavingsAssumption DEF Made, TypeOK
<1>6. PICK e : e = EnvelopeOf(contribs[q])
  OBVIOUS
<1>7. /\ e \in TheEnvelopes!Envelope
      /\ e.acct = row.acct /\ e.amt = row.amt /\ e.key = contribs[q].key
  BY <1>2, <1>6, EnvelopeIs DEF Same
<1>8. UsedKeys' = UsedKeys
  <2>1. \A x \in Procs : Made(x) => contribs'[x].key = contribs[x].key
    BY <1>3, <1>4, <1>5 DEF Same
  <2> QED
    BY <1>5, <2>1 DEF UsedKeys
<1>9. Held' = Held \ {e}
  <2>1. ASSUME NEW x, x \in Held' PROVE x \in Held \ {e}
    <3>1. PICK y \in Procs : Made(y)' /\ contribs'[y].active /\ x = EnvelopeOf(contribs'[y])
      BY <2>1 DEF Held
    <3>2. y # q /\ Made(y) /\ contribs'[y] = contribs[y] /\ contribs[y] \in Contribution
      BY <1>2, <1>3, <1>4, <1>5, <3>1 DEF TypeOK, Made
    <3>3. x.key = contribs[y].key
      BY <3>1, <3>2, EnvelopeIs
    <3>4. x # e
      BY <1>2, <1>7, <3>2, <3>3 DEF Tables
    <3> QED
      BY <3>1, <3>2, <3>4 DEF Held
  <2>2. ASSUME NEW x, x \in Held, x # e PROVE x \in Held'
    <3>1. PICK y \in Procs : Made(y) /\ contribs[y].active /\ x = EnvelopeOf(contribs[y])
      BY <2>2 DEF Held
    <3>2. y # q
      BY <1>6, <2>2, <3>1
    <3> QED
      BY <1>5, <3>1, <3>2 DEF Held
  <2> QED
    BY <2>1, <2>2
<1>10. CASE contribs[q].active
  <2>1. funds' = [funds EXCEPT ![e.acct] = @ + e.amt]
    BY <1>1, <1>7, <1>10
  <2>2. e \in Held
    BY <1>2, <1>6, <1>10 DEF Held
  <2>3. TheEnvelopes!GiveBack(e)
    BY <1>8, <1>9, <2>1, <2>2 DEF TheEnvelopes!GiveBack
  <2> QED
    BY <1>7, <2>3 DEF Moved, TheEnvelopes!Next
<1>11. CASE ~contribs[q].active
  <2>1. funds' = funds
    <3>1. row.acct \in Accounts /\ funds[row.acct] + n = funds[row.acct]
      BY <1>2, <1>11 DEF TypeOK, Contribution
    <3> HIDE DEF n
    <3> QED
      BY <1>1, <1>2, <3>1 DEF TypeOK
  <2>2. e \notin Held
    <3> SUFFICES ASSUME e \in Held PROVE FALSE
      OBVIOUS
    <3>1. PICK y \in Procs : Made(y) /\ contribs[y].active /\ e = EnvelopeOf(contribs[y])
      BY DEF Held
    <3>2. contribs[y] \in Contribution
      BY <1>2, <3>1 DEF TypeOK, Made
    <3>3. contribs[y].key = contribs[q].key
      BY <1>7, <3>1, <3>2, EnvelopeIs
    <3> QED
      BY <1>2, <1>11, <3>1, <3>3 DEF Tables
  <2> QED
    BY <1>8, <1>9, <2>1, <2>2 DEF Moved
<1> QED
  BY <1>10, <1>11

LEMMA EnvelopesStep ==
  ASSUME Amounts = Nat, SavingsInv, [Next]_vars
  PROVE  Moved
<1>1. CASE UNCHANGED vars
  BY <1>1, NothingMoved DEF vars
<1>2. ASSUME NEW p \in Procs, Step(p) PROVE Moved
  <2>1. CASE EditGoal(p)
    BY <2>1, NothingMoved DEF EditGoal, CreateGoal, CheckUpdate, CommitUpdate, CheckRemove,
                              CommitRemove, Proceed, data
  <2>2. CASE Contribute(p)
    BY <2>2, SavedMoves, NothingMoved DEF Contribute, ReadGoal, LockAccount, LockGoal, Proceed, data
  <2>3. CASE Delete(p)
    BY <2>3, GivenBackMoves, NothingMoved DEF Delete, ReadContribution, RevertGoal, Proceed, data
  <2>4. CASE Reconcile(p)
    BY <2>4, NothingMoved DEF Reconcile, ReadAmount, SumContributions, CommitReconcile, Proceed,
                              data
  <2> QED
    BY <1>2, <2>1, <2>2, <2>3, <2>4 DEF Step
<1>3. ASSUME NEW p \in Procs, Begin(p) \/ Abort(p) PROVE Moved
  BY <1>3, NothingMoved DEF Begin, Abort, data
<1> QED
  BY <1>1, <1>2, <1>3 DEF Next, AllOver

LEMMA EnvelopesInit == Init => TheEnvelopes!Init
<1> SUFFICES ASSUME Init PROVE TheEnvelopes!Init
  OBVIOUS
<1>1. \A q \in Procs : ~Made(q)
  BY DEF Init, Made
<1>2. Held = {} /\ UsedKeys = {}
  BY <1>1 DEF Held, UsedKeys
<1>3. funds \in [Accounts -> Nat]
  BY SavingsAssumption DEF Init
<1> QED
  BY <1>2, <1>3 DEF TheEnvelopes!Init

\* However requests overlap, abort and are retried: each contribution puts money aside
\* once, only money that is there, and its deletion gives it back once.
THEOREM SavingsAreEnvelopes ==
  ASSUME Amounts = Nat
  PROVE  Spec => ImplementsEnvelopes
<1>1. SavingsInv /\ [Next]_vars => [TheEnvelopes!Next]_<<funds, Held, UsedKeys>>
  BY EnvelopesStep DEF Moved
<1> QED
  BY <1>1, EnvelopesInit, SavingsInvariant, PTL DEF Spec, ImplementsEnvelopes, TheEnvelopes!Spec
=============================================================================
