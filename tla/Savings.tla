------------------------------- MODULE Savings -------------------------------
(***************************************************************************)
(* Savings goals (savings.actions.ts, savings.service.ts) and the deletion *)
(* of a transaction that funds a contribution (transaction.actions.ts): a  *)
(* contribution moves money from an account to a goal; the amount a goal   *)
(* shows is a cache of its active contributions, changed by increments and *)
(* corrected whenever a page reads it.                                     *)
(*                                                                         *)
(* Requests are processes as in Ledger: reads in some steps, one commit.   *)
(* Here the rows of goals are locked too: an UPDATE of a row holds it until*)
(* the transaction ends, and waits for it only when the row it sees meets  *)
(* its WHERE.  The caches of the accounts are left to Ledger.              *)
(***************************************************************************)
EXTENDS Integers, FiniteSets

CONSTANTS
  Goals, Accounts,
  Opening,      \* what each account holds at first
  Legacy,       \* the amount a goal shows at first; no contribution is behind it
  Target,       \* targetAmountCents at first; 0: the goal does not exist yet
  Procs,        \* request slots; a slot serves one request
  Daemons,      \* the slots that read pages again and again
  Keys,         \* idempotency keys of the clients
  RequestsOf,   \* the requests each slot may be given
  MaxInFlight,  \* how many requests run at the same time
  Amounts,      \* the sums that are put aside: Nat, or the part of it a run meets
  NoProc, NoRow, NoRequest

Ops == {"create", "contribute", "delete", "update", "remove", "reconcile"}
Statuses == {"ACTIVE", "COMPLETED", "CANCELLED"}

\* amt is the amount of a contribution, or the target of a goal that is created
\* or updated (0: the field is absent); of is the slot whose contribution a
\* deletion is about; "same" is an absent status.
Request == [op : Ops, goal : Goals, acct : Accounts, amt : Nat, key : Keys,
            of : Procs, status : Statuses \cup {"same"}]

\* A contribution and the transaction that funds it: they are made together,
\* share the key, and are deleted together.
Contribution == [goal : Goals, acct : Accounts, amt : Nat, key : Keys, active : BOOLEAN]

ASSUME SavingsAssumption ==
  /\ Opening \in [Accounts -> Nat]
  /\ Legacy \in [Goals -> Nat]
  /\ Target \in [Goals -> Nat]
  /\ Daemons \subseteq Procs
  /\ Accounts \cap Goals = {}
  /\ MaxInFlight \in Nat \ {0}
  /\ NoProc \notin Procs
  /\ NoRow \notin Contribution
  /\ NoRequest \notin Request
  /\ \A p \in Procs : \A r \in RequestsOf[p] :
       /\ r \in Request
       /\ r.op \in {"create", "contribute"} => r.amt > 0
       /\ p \in Daemons => r.op = "reconcile"

VARIABLES
  goal,      \* the SavingsGoal rows
  contribs,  \* the contribution each slot has made
  saved,     \* SUM(amountCents) over the active contributions of a goal
  funds,     \* the true balance of each account
  lock,      \* the process that holds the row of an account or of a goal
  pc, req, seen

data == <<goal, contribs, saved, funds>>
vars == <<goal, contribs, saved, funds, lock, pc, req, seen>>

Goal == [open : {"none", "active", "deleted"}, status : Statuses, amount : Int, target : Nat]

Begun == {"begun", "read", "checked", "locked", "ready"}
Finished == {"done", "repeated", "rejected", "aborted"}

Nothing == [amount |-> 0, sum |-> 0, target |-> 0, row |-> NoRow,
            reverts |-> FALSE, reopens |-> FALSE]
Seen == [amount : Int, sum : Int, target : Nat, row : Contribution \cup {NoRow},
         reverts : BOOLEAN, reopens : BOOLEAN]

\* Every variable keeps its type; a process that has begun has a request.
TypeOK ==
  /\ goal \in [Goals -> Goal]
  /\ contribs \in [Procs -> Contribution \cup {NoRow}]
  /\ saved \in [Goals -> Int]
  /\ funds \in [Accounts -> Int]
  /\ lock \in [Accounts \cup Goals -> Procs \cup {NoProc}]
  /\ pc \in [Procs -> {"idle"} \cup Begun \cup Finished]
  /\ req \in [Procs -> Request \cup {NoRequest}]
  /\ seen \in [Procs -> Seen]
  /\ \A p \in Procs : pc[p] \in Begun => req[p] \in Request

Reached(amount, target) == IF amount >= target THEN "COMPLETED" ELSE "ACTIVE"

Init ==
  /\ goal = [g \in Goals |->
               [open |-> IF Target[g] = 0 THEN "none" ELSE "active",
                status |-> Reached(Legacy[g], Target[g]),
                amount |-> Legacy[g], target |-> Target[g]]]
  /\ contribs = [p \in Procs |-> NoRow]
  /\ saved = [g \in Goals |-> 0]
  /\ funds = Opening
  /\ lock = [x \in Accounts \cup Goals |-> NoProc]
  /\ pc = [p \in Procs |-> "idle"]
  /\ req = [p \in Procs |-> NoRequest]
  /\ seen = [p \in Procs |-> Nothing]

-----------------------------------------------------------------------------
(* The control of a request.                                               *)

InFlight == {p \in Procs : pc[p] \in Begun}

At(p, op, label) == pc[p] = label /\ req[p].op = op

Goto(p, label, found) ==
  /\ pc' = [pc EXCEPT ![p] = label]
  /\ seen' = [seen EXCEPT ![p] = found]
  /\ UNCHANGED req

Finish(p, how) ==
  /\ pc' = [pc EXCEPT ![p] = IF p \in Daemons THEN "idle" ELSE how]
  /\ seen' = [seen EXCEPT ![p] = Nothing]
  /\ UNCHANGED req

Proceed(p, ok, label, found) ==
  /\ IF ok THEN Goto(p, label, found) ELSE Finish(p, "rejected")
  /\ UNCHANGED <<data, lock>>

Free(p, x) == lock[x] \in {NoProc, p}

Release(p) == lock' = [x \in DOMAIN lock |-> IF lock[x] = p THEN NoProc ELSE lock[x]]

Made(q) == contribs[q] # NoRow

\* The unique indexes on idempotencyKey, of the contribution and of its transaction.
KeyTaken(k) == \E q \in Procs : Made(q) /\ contribs[q].key = k

\* The request has been served: its key belongs to a contribution to its goal.
AlreadyDone(r) ==
  /\ r.op = "contribute"
  /\ \E q \in Procs : Made(q) /\ contribs[q].key = r.key /\ contribs[q].goal = r.goal

Begin(p) ==
  /\ pc[p] = "idle"
  /\ Cardinality(InFlight) < MaxInFlight
  /\ \E r \in RequestsOf[p] :
       /\ req' = [req EXCEPT ![p] = r]
       /\ pc' = [pc EXCEPT ![p] = IF AlreadyDone(r) THEN "repeated" ELSE "begun"]
  /\ UNCHANGED <<data, lock, seen>>

Abort(p) ==
  /\ pc[p] \in Begun
  /\ Finish(p, "aborted")
  /\ Release(p)
  /\ UNCHANGED data

-----------------------------------------------------------------------------
(* createSavingsGoal, updateSavingsGoal, deleteSavingsGoal: no transaction;*)
(* the checks are one read, the write another.                             *)

\* The id of a goal that is created is new.
CreateGoal(p) ==
  LET g == req[p].goal IN
  /\ At(p, "create", "begun")
  /\ goal[g].open = "none"
  /\ goal' = [goal EXCEPT ![g] = [open |-> "active", status |-> "ACTIVE",
                                  amount |-> 0, target |-> req[p].amt]]
  /\ Finish(p, "done")
  /\ UNCHANGED <<contribs, saved, funds, lock>>

\* The target stays above what is saved; a goal is completed by hand only when
\* its present target is reached.
CheckUpdate(p) ==
  LET g == goal[req[p].goal]
      r == req[p]
  IN
  /\ At(p, "update", "begun")
  /\ Proceed(p,
             /\ g.open = "active"
             /\ r.amt # 0 => r.amt >= g.amount
             /\ r.status = "COMPLETED" => g.amount >= g.target,
             "checked", Nothing)

\* A field that is absent stays as it is.
Edited(g, r) ==
  [g EXCEPT !.target = IF r.amt = 0 THEN @ ELSE r.amt,
            !.status = IF r.status = "same" THEN @ ELSE r.status]

CommitUpdate(p) ==
  LET g == req[p].goal IN
  /\ At(p, "update", "checked")
  /\ Free(p, g)
  /\ goal' = [goal EXCEPT ![g] = Edited(@, req[p])]
  /\ Finish(p, "done")
  /\ UNCHANGED <<contribs, saved, funds, lock>>

CheckRemove(p) ==
  LET g == req[p].goal IN
  /\ At(p, "remove", "begun")
  /\ Proceed(p,
             /\ goal[g].open = "active"
             /\ ~ \E q \in Procs : Made(q) /\ contribs[q].goal = g /\ contribs[q].active,
             "checked", Nothing)

CommitRemove(p) ==
  LET g == req[p].goal IN
  /\ At(p, "remove", "checked")
  /\ Free(p, g)
  /\ goal' = [goal EXCEPT ![g].open = "deleted"]
  /\ Finish(p, "done")
  /\ UNCHANGED <<contribs, saved, funds, lock>>

-----------------------------------------------------------------------------
(* contributeToGoal: the account is locked before the funds check, the     *)
(* goal by the increment.                                                  *)

ReadGoal(p) ==
  LET g == goal[req[p].goal] IN
  /\ At(p, "contribute", "begun")
  /\ Proceed(p, g.open = "active" /\ g.status = "ACTIVE", "read", Nothing)

\* Slip of LockAccount: the balance is read without the lock.
LockAccountLater(p) ==
  LET a == req[p].acct IN
  /\ At(p, "contribute", "read")
  /\ Proceed(p, funds[a] >= req[p].amt, "locked", Nothing)

LockAccount(p) ==
  LET a == req[p].acct IN
  /\ At(p, "contribute", "read")
  /\ lock[a] = NoProc
  /\ IF funds[a] >= req[p].amt
     THEN Goto(p, "locked", Nothing) /\ lock' = [lock EXCEPT ![a] = p]
     ELSE Finish(p, "rejected") /\ UNCHANGED lock
  /\ UNCHANGED data

LockGoal(p) ==
  LET g == req[p].goal IN
  /\ At(p, "contribute", "locked")
  /\ Free(p, g)
  /\ Goto(p, "ready", Nothing)
  /\ lock' = [lock EXCEPT ![g] = p]
  /\ UNCHANGED data

\* Slip of Raised: the goal completes only beyond its target.
RaisedBeyond(g, n) ==
  [g EXCEPT !.amount = @ + n,
            !.status = IF @ = "ACTIVE" /\ g.amount + n > g.target THEN "COMPLETED" ELSE @]

\* The increment, and the completion of an active goal that reaches its target.
Raised(g, n) ==
  [g EXCEPT !.amount = @ + n,
            !.status = IF @ = "ACTIVE" /\ g.amount + n >= g.target THEN "COMPLETED" ELSE @]

\* A key that was taken in the meantime violates a unique index; that counts as
\* a repetition when it is of a contribution to the same goal.
CommitContribution(p) ==
  LET r == req[p] IN
  /\ At(p, "contribute", "ready")
  /\ Free(p, r.acct)
  /\ IF KeyTaken(r.key)
     THEN Finish(p, IF AlreadyDone(r) THEN "repeated" ELSE "rejected") /\ UNCHANGED data
     ELSE /\ contribs' = [contribs EXCEPT ![p] =
                            [goal |-> r.goal, acct |-> r.acct, amt |-> r.amt,
                             key |-> r.key, active |-> TRUE]]
          /\ saved' = [saved EXCEPT ![r.goal] = @ + r.amt]
          /\ funds' = [funds EXCEPT ![r.acct] = @ - r.amt]
          /\ goal' = [goal EXCEPT ![r.goal] = Raised(@, r.amt)]
          /\ Finish(p, "done")
  /\ Release(p)

-----------------------------------------------------------------------------
(* deleteTransaction, of the transaction that funds a contribution.        *)

ReadContribution(p) ==
  LET q == req[p].of IN
  /\ At(p, "delete", "begun")
  /\ Proceed(p, Made(q) /\ contribs[q].active, "read",
             [Nothing EXCEPT !.row = contribs[q],
                             !.target = IF Made(q) THEN goal[contribs[q].goal].target ELSE 0])

\* Two conditional updates of the goal: the amount is taken back when it is
\* there, and a completed goal that falls below the target that was read is
\* active again.
RevertGoal(p) ==
  LET row == seen[p].row
      g == goal[row.goal]
      reverts == g.amount >= row.amt
      left == IF reverts THEN g.amount - row.amt ELSE g.amount
      reopens == g.status = "COMPLETED" /\ left < seen[p].target
  IN
  /\ At(p, "delete", "read")
  /\ reverts \/ reopens => Free(p, row.goal)
  /\ lock' = IF reverts \/ reopens THEN [lock EXCEPT ![row.goal] = p] ELSE lock
  /\ Goto(p, "ready", [seen[p] EXCEPT !.reverts = reverts, !.reopens = reopens])
  /\ UNCHANGED data

Lowered(g, found) ==
  [g EXCEPT !.amount = IF found.reverts THEN @ - found.row.amt ELSE @,
            !.status = IF found.reopens THEN "ACTIVE" ELSE @]

\* The account is updated last; a second deletion changes the goal again, but
\* the transaction counts once.
CommitDeletion(p) ==
  LET q == req[p].of
      row == seen[p].row
      n == IF contribs[q].active THEN row.amt ELSE 0
  IN
  /\ At(p, "delete", "ready")
  /\ Free(p, row.acct)
  /\ contribs' = [contribs EXCEPT ![q] = [@ EXCEPT !.active = FALSE]]
  /\ saved' = [saved EXCEPT ![row.goal] = @ - n]
  /\ funds' = [funds EXCEPT ![row.acct] = @ + n]
  /\ goal' = [goal EXCEPT ![row.goal] = Lowered(@, seen[p])]
  /\ Finish(p, "done")
  /\ Release(p)

-----------------------------------------------------------------------------
(* reconcileGoalBalances, before every page that shows goals.  The goals of*)
(* a user are read together; each is a request of its own here.            *)

ReadAmount(p) ==
  LET g == goal[req[p].goal] IN
  /\ At(p, "reconcile", "begun")
  /\ Proceed(p, g.open = "active" /\ g.status # "CANCELLED", "read",
             [Nothing EXCEPT !.amount = g.amount])

\* Slip of Differs: only an amount that is too high is corrected.
DiffersAbove(shown, sum) == shown > sum

Differs(shown, sum) == shown # sum

\* The contributions of a goal that is gone are not read.
SumContributions(p) ==
  LET g == req[p].goal
      sum == IF goal[g].open = "active" THEN saved[g] ELSE 0
  IN
  /\ At(p, "reconcile", "read")
  /\ IF Differs(seen[p].amount, sum)
     THEN Goto(p, "checked", [seen[p] EXCEPT !.sum = sum])
     ELSE Finish(p, "done")
  /\ UNCHANGED <<data, lock>>

\* Slip of Unmoved: the amount that was read is no condition of the update.
UnmovedAlways(shown, read) == TRUE

Unmoved(shown, read) == shown = read

\* UPDATE ... WHERE currentAmountCents = the amount that was read.
CommitReconcile(p) ==
  LET g == req[p].goal
      matches == Unmoved(goal[g].amount, seen[p].amount)
  IN
  /\ At(p, "reconcile", "checked")
  /\ matches => Free(p, g)
  /\ goal' = IF matches THEN [goal EXCEPT ![g].amount = seen[p].sum] ELSE goal
  /\ Finish(p, "done")
  /\ UNCHANGED <<contribs, saved, funds, lock>>

-----------------------------------------------------------------------------
EditGoal(p) == CreateGoal(p) \/ CheckUpdate(p) \/ CommitUpdate(p)
                 \/ CheckRemove(p) \/ CommitRemove(p)
Contribute(p) == ReadGoal(p) \/ LockAccount(p) \/ LockGoal(p) \/ CommitContribution(p)
Delete(p) == ReadContribution(p) \/ RevertGoal(p) \/ CommitDeletion(p)
Reconcile(p) == ReadAmount(p) \/ SumContributions(p) \/ CommitReconcile(p)

Step(p) == EditGoal(p) \/ Contribute(p) \/ Delete(p) \/ Reconcile(p)

AllOver == (\A p \in Procs \ Daemons : pc[p] \in Finished) /\ UNCHANGED vars

Next == (\E p \in Procs : Begin(p) \/ Step(p) \/ Abort(p)) \/ AllOver

Spec == Init /\ [][Next]_vars

-----------------------------------------------------------------------------
(* Fairness.  A handler that has begun goes on; of a cycle of waiting      *)
(* transactions PostgreSQL rolls one back; pages are read again and again, *)
(* and not every reading of one is cut off.                                *)

\* The row a transaction that holds another one is about to update.
Wanted(p) == IF req[p].op = "contribute" THEN req[p].goal ELSE seen[p].row.acct

Cycle(S) ==
  /\ S # {}
  /\ \A p \in S : At(p, "contribute", "locked") \/ At(p, "delete", "ready")
  /\ S = {lock[Wanted(p)] : p \in S}

BreakDeadlock == \E S \in SUBSET Procs : Cycle(S) /\ \E p \in S : Abort(p)

FairSpec ==
  /\ Spec
  /\ \A p \in Procs : WF_vars(Step(p))
  /\ WF_vars(BreakDeadlock)
  /\ \A p \in Daemons :
       /\ WF_vars(Begin(p))
       /\ SF_vars(ReadAmount(p)) /\ SF_vars(SumContributions(p)) /\ SF_vars(CommitReconcile(p))

-----------------------------------------------------------------------------
(* Properties.                                                             *)

NoneAsked(ops) == \A p \in Procs : req[p] # NoRequest => req[p].op \notin ops

\* An increment is never lost to a reconciliation (savings.service.ts:140): of
\* a goal none of whose contributions is deleted, and which showed the truth at
\* first, the amount always is what has been saved.
CacheTracksSaved ==
  NoneAsked({"delete"}) =>
    \A g \in Goals : goal[g].open = "active" /\ Legacy[g] = 0 => goal[g].amount = saved[g]

\* A goal that users only pay into and take back from is completed exactly as
\* long as it shows its target (savings.actions.ts:422, transaction.actions.ts:453).
CompletedIffReached ==
  NoneAsked({"update", "reconcile"}) =>
    \A g \in Goals : goal[g].open = "active" =>
      goal[g].status = Reached(goal[g].amount, goal[g].target)

\* Every request that has begun is answered, although a contribution locks the
\* account before the goal and a deletion the goal before the account.
RequestsTerminate ==
  \A p \in Procs \ Daemons : pc[p] \in Begun ~> pc[p] \in Finished

\* Pages that are read again and again end up showing every goal that is not
\* cancelled at what has been saved in it.
EventuallyReconciled ==
  <>[](\A g \in Goals : goal[g].open = "active" /\ goal[g].status # "CANCELLED" =>
         goal[g].amount = saved[g])

\* The envelopes of Envelopes: the active contributions.
EnvelopeOf(c) == [goal |-> c.goal, acct |-> c.acct, amt |-> c.amt, key |-> c.key]

Held == {EnvelopeOf(contribs[q]) : q \in {x \in Procs : Made(x) /\ contribs[x].active}}

UsedKeys == {contribs[q].key : q \in {x \in Procs : Made(x)}}

TheEnvelopes == INSTANCE Envelopes WITH money <- funds, held <- Held, used <- UsedKeys

\* However requests overlap, each contribution puts money aside once, only money
\* that is there, and gives it back once.
ImplementsEnvelopes == TheEnvelopes!Spec
=============================================================================
