------------------------------- MODULE Ledger -------------------------------
(***************************************************************************)
(* Accounts and their transactions: the double-entry core that every money *)
(* action of the application goes through (transaction.actions.ts,         *)
(* transfer.actions.ts, account.actions.ts, credit-card.actions.ts,        *)
(* reconciliation.service.ts).                                             *)
(*                                                                         *)
(* The database is PostgreSQL at its default isolation level, READ         *)
(* COMMITTED: a statement sees what was committed when it started, and the *)
(* writes of a transaction appear together when it commits.  A request is  *)
(* a process that reads in some steps, keeps what it read in `seen', and   *)
(* writes in one last step, its commit.  SELECT ... FOR UPDATE on an       *)
(* Account row is `lock'.  A commit that updates an Account row, or inserts*)
(* a Transaction that references it, waits until no other process holds    *)
(* that lock (the UPDATE and the foreign-key check both need the row).     *)
(***************************************************************************)
EXTENDS Integers, FiniteSets

CONSTANTS
  Accounts,      \* Account ids; an id stands for the idempotency key of its creation
  Cards,         \* the accounts of type CREDIT_CARD
  Parent,        \* parentAccountId: an account that has one is a POCKET
  Opening,       \* the balance an account is opened with
  InitiallyOpen, \* the accounts that exist in the initial state
  CreditLimit,   \* creditLimitCents of a card
  Procs,         \* request slots; a slot serves one request
  Keys,          \* idempotency keys the clients generate
  RequestsOf,    \* the requests each slot may be given
  MaxInFlight,   \* how many requests run at the same time
  NoAccount, NoProc, NoRow, NoRequest,
  ServerKey      \* stands for crypto.randomUUID(): a key nobody else has

Ops == {"open", "create", "update", "delete", "transfer", "reverse", "pay",
        "close", "closeCard", "reconcile"}
Kinds == {"INCOME", "EXPENSE", "TRANSFER_OUT", "TRANSFER_IN", "CREDIT_PAYMENT"}

\* The rows a run can create: the opening movement of an account, the movement
\* a request makes on its own account, and the one it makes on the other.  The
\* slot is the transferId of the last two.
OpeningRow(a) == <<a, "opening">>
Main(p) == <<p, "main">>
Other(p) == <<p, "other">>
RowIds == {OpeningRow(a) : a \in Accounts} \cup {Main(p) : p \in Procs}
            \cup {Other(p) : p \in Procs}

Request == [op : Ops, acct : Accounts, to : Accounts, amt : Int,
            key : Keys \cup {ServerKey}, row : RowIds, of : Procs]

Row == [acct : Accounts, amt : Int, kind : Kinds, key : Keys \cup {ServerKey},
        active : BOOLEAN]

\* What the schemas guarantee of a request (finance.ts, transaction.schema.ts,
\* credit-card.schema.ts): amounts that move are positive, a transfer has two
\* ends, an income on a card is refused, the fields an operation does not take
\* are not looked at.
WellFormed(r) ==
  /\ r.op \in {"transfer", "pay"} => r.amt > 0 /\ r.acct # r.to
  /\ r.op = "create" => r.amt # 0 /\ (r.acct \in Cards => r.amt < 0)
  /\ r.op \in {"transfer", "pay", "create"} => r.key \in Keys

ASSUME LedgerAssumption ==
  /\ Cards \subseteq Accounts
  /\ InitiallyOpen \subseteq Accounts
  /\ Opening \in [Accounts -> Nat]
  /\ \A a \in Accounts : a \in Cards \/ Parent[a] # NoAccount => Opening[a] = 0
  /\ CreditLimit \in [Cards -> Nat]
  /\ Parent \in [Accounts -> Accounts \cup {NoAccount}]
  /\ \A p \in Procs : \A r \in RequestsOf[p] : r \in Request /\ WellFormed(r)
  /\ MaxInFlight \in Nat \ {0}
  /\ NoAccount \notin Accounts
  /\ NoProc \notin Procs
  /\ ServerKey \notin Keys
  /\ NoRow \notin Row
  /\ NoRequest \notin Request

VARIABLES
  status,  \* "none", "active" or "deleted": whether the Account exists, and its isActive
  cached,  \* Account.balanceCents
  rows,    \* the Transaction table
  total,   \* SUM(amountCents) over the active rows of an account
  lock,    \* the process that holds the Account row FOR UPDATE
  pc, req, \* how far each request has come, and what it asks for
  seen     \* what each request has read so far

data == <<status, cached, rows, total>>
vars == <<status, cached, rows, total, lock, pc, req, seen>>

Begun == {"begun", "row", "read", "checked", "ready", "locked"}
Finished == {"done", "repeated", "rejected", "aborted"}

Nothing == [cached |-> 0, other |-> 0, total |-> 0, row |-> NoRow]
Seen == [cached : Int, other : Int, total : Int, row : Row \cup {NoRow}]

\* Every variable keeps its type; an account that is locked is locked by a
\* process, and a process that has begun has a request.
TypeOK ==
  /\ status \in [Accounts -> {"none", "active", "deleted"}]
  /\ cached \in [Accounts -> Int]
  /\ rows \in [RowIds -> Row \cup {NoRow}]
  /\ total \in [Accounts -> Int]
  /\ lock \in [Accounts -> Procs \cup {NoProc}]
  /\ pc \in [Procs -> {"idle"} \cup Begun \cup Finished]
  /\ req \in [Procs -> Request \cup {NoRequest}]
  /\ seen \in [Procs -> Seen]
  /\ \A p \in Procs : pc[p] \in Begun => req[p] \in Request

NewRow(a, n, kind, key) ==
  [acct |-> a, amt |-> n, kind |-> kind, key |-> key, active |-> TRUE]

Init ==
  /\ status = [a \in Accounts |-> IF a \in InitiallyOpen THEN "active" ELSE "none"]
  /\ cached = [a \in Accounts |-> IF a \in InitiallyOpen THEN Opening[a] ELSE 0]
  /\ total = cached
  /\ rows = [i \in RowIds |->
               IF \E a \in InitiallyOpen : i = OpeningRow(a) /\ Opening[a] > 0
               THEN NewRow(i[1], Opening[i[1]], "INCOME", ServerKey)
               ELSE NoRow]
  /\ lock = [a \in Accounts |-> NoProc]
  /\ pc = [p \in Procs |-> "idle"]
  /\ req = [p \in Procs |-> NoRequest]
  /\ seen = [p \in Procs |-> Nothing]

-----------------------------------------------------------------------------
(* The control of a request.                                               *)

InFlight == {p \in Procs : pc[p] \in Begun}

At(p, op, label) == pc[p] = label /\ req[p].op = op

Goto(p, label, found) ==
  /\ pc' = [pc EXCEPT ![p] = label]
  /\ seen' = [seen EXCEPT ![p] = found]
  /\ UNCHANGED req

Finish(p, how) ==
  /\ pc' = [pc EXCEPT ![p] = how]
  /\ seen' = [seen EXCEPT ![p] = Nothing]
  /\ UNCHANGED req

Free(p, a) == lock[a] \in {NoProc, p}

\* Slip of Release: the lock outlives the transaction.
ReleaseNothing(p) == UNCHANGED lock

\* COMMIT and ROLLBACK alike let go of every row lock.
Release(p) == lock' = [a \in Accounts |-> IF lock[a] = p THEN NoProc ELSE lock[a]]

\* A read step: the request goes on with what it found, or is refused.
Proceed(p, ok, label, found) ==
  /\ IF ok THEN Goto(p, label, found) ELSE Finish(p, "rejected")
  /\ UNCHANGED <<data, lock>>

-----------------------------------------------------------------------------
(* The Transaction table.                                                  *)

Exists(i) == rows[i] # NoRow
Active(i) == Exists(i) /\ rows[i].active

\* Slip of KeyTaken: only the debit of a pair is looked at.
KeyTakenByDebit(k) == k \in Keys /\ \E i \in RowIds : Exists(i) /\ rows[i].amt < 0 /\ rows[i].key = k

\* The unique index on idempotencyKey; findByIdempotencyKey looks at soft-deleted rows too.
KeyTaken(k) == k \in Keys /\ \E i \in RowIds : Exists(i) /\ rows[i].key = k

SetActive(i, on) == [rows EXCEPT ![i] = [@ EXCEPT !.active = on]]

\* The movements of the account other than its opening one.
Movements(a) == {i \in RowIds \ {OpeningRow(a)} : Active(i) /\ rows[i].acct = a}

Pockets(a) == {b \in Accounts : Parent[b] = a /\ status[b] = "active"}

IsPocket(a) == Parent[a] # NoAccount

\* assertValidTransferPair: a pocket exchanges money with its parent and its
\* siblings only, a card with nobody.
ValidPair(from, to) ==
  /\ from \notin Cards /\ to \notin Cards
  /\ IF IsPocket(from)
     THEN to = Parent[from] \/ (IsPocket(to) /\ Parent[to] = Parent[from])
     ELSE Parent[to] = from \/ ~IsPocket(to)

\* Slip of CanSpend: the limit is held against the charge, not against the debt.
CanSpendPerCharge(a, n) ==
  \/ n >= 0
  \/ a \notin Cards /\ total[a] + n >= 0
  \/ a \in Cards /\ -n <= CreditLimit[a]

\* What each handler asks of the true balance before it takes money out.
CanSpend(a, n) ==
  \/ n >= 0
  \/ a \notin Cards /\ total[a] + n >= 0
  \/ a \in Cards /\ total[a] + n \in -CreditLimit[a] .. CreditLimit[a]

CanDelete(row) == row.acct \in Cards \/ total[row.acct] - row.amt >= 0

CanUpdate(row, n) == row.kind = "EXPENSE" => total[row.acct] - row.amt + n >= 0

SignFits(kind, n) == (kind = "EXPENSE" => n < 0) /\ (kind = "INCOME" => n > 0)

CanDebit(a, n) == total[a] >= n

-----------------------------------------------------------------------------
(* A request arrives.  The idempotency check comes first, on its own and   *)
(* before the transaction.                                                 *)

AlreadyDone(r) ==
  \/ r.op = "open" /\ status[r.acct] # "none"
  \/ r.op \in {"create", "transfer", "pay"} /\ KeyTaken(r.key)

Begin(p) ==
  /\ pc[p] = "idle"
  /\ Cardinality(InFlight) < MaxInFlight
  /\ \E r \in RequestsOf[p] :
       /\ req' = [req EXCEPT ![p] = r]
       /\ pc' = [pc EXCEPT ![p] = IF AlreadyDone(r) THEN "repeated" ELSE "begun"]
  /\ UNCHANGED <<data, lock, seen>>

\* A request that has begun goes down with the server, or its transaction is
\* rolled back: it timed out (5 s), lost the connection, or was the victim
\* PostgreSQL chose in a deadlock with locks this model does not show.
Abort(p) ==
  /\ pc[p] \in Begun
  /\ Finish(p, "aborted")
  /\ Release(p)
  /\ UNCHANGED data

-----------------------------------------------------------------------------
(* createTransaction                                                       *)

ReadAccount(p) ==
  LET a == req[p].acct IN
  /\ At(p, "create", "begun")
  /\ Proceed(p, status[a] = "active", "read", [Nothing EXCEPT !.cached = cached[a]])

CheckFunds(p) ==
  /\ At(p, "create", "read")
  /\ Proceed(p, CanSpend(req[p].acct, req[p].amt), "checked", seen[p])

\* The insert, then the cache from the balance read at first.  A key that was
\* taken since the idempotency check violates the unique index.
CommitCreate(p) ==
  LET a == req[p].acct
      n == req[p].amt
  IN
  /\ At(p, "create", "checked")
  /\ Free(p, a)
  /\ IF KeyTaken(req[p].key)
     THEN Finish(p, "rejected") /\ UNCHANGED data
     ELSE /\ rows' = [rows EXCEPT ![Main(p)] =
                        NewRow(a, n, IF n > 0 THEN "INCOME" ELSE "EXPENSE", req[p].key)]
          /\ total' = [total EXCEPT ![a] = @ + n]
          /\ cached' = [cached EXCEPT ![a] = seen[p].cached + n]
          /\ Finish(p, "done")
          /\ UNCHANGED status
  /\ UNCHANGED lock

-----------------------------------------------------------------------------
(* deleteTransaction and updateTransaction.  Neither locks anything, and   *)
(* neither looks at transferId: one leg of a transfer can go alone.        *)

ReadRow(p) ==
  LET i == req[p].row IN
  /\ At(p, "delete", "begun") \/ At(p, "update", "begun")
  /\ Proceed(p, Active(i), "row", [Nothing EXCEPT !.row = rows[i]])

ReadRowAccount(p) ==
  LET a == seen[p].row.acct
      fits == /\ status[a] = "active"
              /\ SignFits(seen[p].row.kind, req[p].amt)
  IN
  /\ At(p, "delete", "row") \/ At(p, "update", "row")
  /\ Proceed(p, req[p].op = "update" => fits, "read",
             [seen[p] EXCEPT !.cached = cached[a]])

CheckRowFunds(p) ==
  /\ At(p, "delete", "read") \/ At(p, "update", "read")
  /\ Proceed(p,
             IF req[p].op = "delete" THEN CanDelete(seen[p].row)
                                     ELSE CanUpdate(seen[p].row, req[p].amt),
             "checked", seen[p])

\* The row is soft-deleted whether or not it still is active; the cache is
\* reverted from the values read at first.
CommitDelete(p) ==
  LET i == req[p].row
      a == seen[p].row.acct
  IN
  /\ At(p, "delete", "checked")
  /\ Free(p, a)
  /\ cached' = [cached EXCEPT ![a] = seen[p].cached - seen[p].row.amt]
  /\ total' = [total EXCEPT ![a] = IF Active(i) THEN @ - rows[i].amt ELSE @]
  /\ rows' = SetActive(i, FALSE)
  /\ Finish(p, "done")
  /\ UNCHANGED <<status, lock>>

\* Slip of CommitUpdate: the new amount is added, the old one is not taken back.
CommitUpdateAdds(p) ==
  LET i == req[p].row
      a == seen[p].row.acct
      old == seen[p].row.amt
      new == req[p].amt
  IN
  /\ At(p, "update", "checked")
  /\ new # old => Free(p, a)
  /\ cached' = [cached EXCEPT ![a] = IF new # old THEN seen[p].cached + new ELSE @]
  /\ total' = [total EXCEPT ![a] = IF Active(i) THEN @ - rows[i].amt + new ELSE @]
  /\ rows' = [rows EXCEPT ![i] = [@ EXCEPT !.amt = new]]
  /\ Finish(p, "done")
  /\ UNCHANGED <<status, lock>>

CommitUpdate(p) ==
  LET i == req[p].row
      a == seen[p].row.acct
      old == seen[p].row.amt
      new == req[p].amt
  IN
  /\ At(p, "update", "checked")
  /\ new # old => Free(p, a)
  /\ cached' = [cached EXCEPT ![a] = IF new # old THEN seen[p].cached - old + new ELSE @]
  /\ total' = [total EXCEPT ![a] = IF Active(i) THEN @ - rows[i].amt + new ELSE @]
  /\ rows' = [rows EXCEPT ![i] = [@ EXCEPT !.amt = new]]
  /\ Finish(p, "done")
  /\ UNCHANGED <<status, lock>>

-----------------------------------------------------------------------------
(* transferBetweenAccounts, payCreditCard and reverseTransfer: money moves *)
(* from req.acct to req.to.  Only the source is locked.                    *)

\* The findUnique calls of one tick are one SELECT: both accounts are read at
\* once.  What is read of the destination's cache is written back at the end.
ReadPair(p) ==
  LET from == req[p].acct
      to == req[p].to
  IN
  /\ At(p, "transfer", "begun")
  /\ Proceed(p,
             status[from] = "active" /\ status[to] = "active" /\ ValidPair(from, to),
             "read", [Nothing EXCEPT !.other = cached[to]])

ReadCard(p) ==
  LET card == req[p].to IN
  /\ At(p, "pay", "begun")
  /\ Proceed(p, status[card] = "active" /\ card \in Cards, "row",
             [Nothing EXCEPT !.other = cached[card]])

\* assertPayableCardDebt, then the checks of the source account.
CheckDebt(p) ==
  /\ At(p, "pay", "row")
  /\ Proceed(p,
             /\ total[req[p].to] < 0
             /\ req[p].amt <= -total[req[p].to]
             /\ status[req[p].acct] = "active"
             /\ req[p].acct \notin Cards,
             "read", seen[p])

\* Slip of LockSource: the balances are read again, but the row is not locked.
LockSourceUnlocked(p) ==
  LET from == req[p].acct IN
  /\ At(p, "transfer", "read") \/ At(p, "pay", "read")
  /\ IF CanDebit(from, req[p].amt)
     THEN Goto(p, "locked", [seen[p] EXCEPT !.cached = cached[from]])
     ELSE Finish(p, "rejected")
  /\ UNCHANGED <<data, lock>>

\* Under the lock, the source's cache and true balance are read again; its
\* isActive is not.
LockSource(p) ==
  LET from == req[p].acct IN
  /\ At(p, "transfer", "read") \/ At(p, "pay", "read")
  /\ lock[from] = NoProc
  /\ IF CanDebit(from, req[p].amt)
     THEN /\ Goto(p, "locked", [seen[p] EXCEPT !.cached = cached[from]])
          /\ lock' = [lock EXCEPT ![from] = p]
     ELSE Finish(p, "rejected") /\ UNCHANGED lock
  /\ UNCHANGED data

\* The two movements of a transfer: the source's carries the client's key; of a
\* card payment, the card's does.
DebitRow(r) ==
  IF r.op = "pay" THEN NewRow(r.acct, -r.amt, "EXPENSE", ServerKey)
                  ELSE NewRow(r.acct, -r.amt, "TRANSFER_OUT", r.key)
CreditRow(r) ==
  IF r.op = "pay" THEN NewRow(r.to, r.amt, "CREDIT_PAYMENT", r.key)
                  ELSE NewRow(r.to, r.amt, "TRANSFER_IN", ServerKey)

\* Slip of CommitMove: the debit stays although the row of the key is refused.
CommitMoveHalf(p) ==
  LET from == req[p].acct
      to == req[p].to
      n == req[p].amt
      refused == KeyTaken(req[p].key)
      both == [rows EXCEPT ![Main(p)] = DebitRow(req[p]), ![Other(p)] = CreditRow(req[p])]
  IN
  /\ pc[p] = "locked"
  /\ Free(p, to)
  /\ rows' = IF refused THEN [both EXCEPT ![Other(p)] = NoRow] ELSE both
  /\ total' = [total EXCEPT ![from] = @ - n, ![to] = IF refused THEN @ ELSE @ + n]
  /\ cached' = [cached EXCEPT ![from] = seen[p].cached - n, ![to] = seen[p].other + n]
  /\ Finish(p, IF refused THEN "rejected" ELSE "done")
  /\ UNCHANGED status
  /\ Release(p)

CommitMove(p) ==
  LET from == req[p].acct
      to == req[p].to
      n == req[p].amt
  IN
  /\ pc[p] = "locked"
  /\ Free(p, to)
  /\ IF KeyTaken(req[p].key)
     THEN /\ Finish(p, IF req[p].op = "pay" THEN "repeated" ELSE "rejected")
          /\ UNCHANGED data
     ELSE /\ rows' = [rows EXCEPT ![Main(p)] = DebitRow(req[p]), ![Other(p)] = CreditRow(req[p])]
          /\ total' = [total EXCEPT ![from] = @ - n, ![to] = @ + n]
          /\ cached' = [cached EXCEPT ![from] = seen[p].cached - n,
                                      ![to] = seen[p].other + n]
          /\ Finish(p, "done")
          /\ UNCHANGED status
  /\ Release(p)

\* Slip of ReadTransfer: the legs are sorted the wrong way round.
ReadTransferAgain(p) ==
  LET legs == {Main(req[p].of), Other(req[p].of)} IN
  /\ At(p, "reverse", "begun")
  /\ \/ \E debit, credit \in legs :
          /\ debit # credit /\ Active(debit) /\ Active(credit)
          /\ rows[credit].amt <= rows[debit].amt
          /\ rows[credit].amt # 0
          /\ rows[credit].acct # rows[debit].acct
          /\ req' = [req EXCEPT ![p] = [@ EXCEPT
                       !.op = "transfer", !.acct = rows[credit].acct,
                       !.to = rows[debit].acct, !.key = ServerKey,
                       !.amt = IF rows[credit].amt < 0 THEN -rows[credit].amt
                                                       ELSE rows[credit].amt]]
          /\ UNCHANGED <<pc, seen>>
     \/ Finish(p, "rejected")
  /\ UNCHANGED <<data, lock>>

\* getTransferDetails takes the active rows of the transfer, the smaller amount
\* first, and wants exactly two.  The reversal is a transfer the other way with
\* a key of its own, so nothing stops a second reversal; it may come too late.
ReadTransfer(p) ==
  LET legs == {Main(req[p].of), Other(req[p].of)} IN
  /\ At(p, "reverse", "begun")
  /\ \/ \E debit, credit \in legs :
          /\ debit # credit /\ Active(debit) /\ Active(credit)
          /\ rows[debit].amt <= rows[credit].amt
          /\ rows[credit].amt # 0
          /\ rows[credit].acct # rows[debit].acct
          /\ req' = [req EXCEPT ![p] = [@ EXCEPT
                       !.op = "transfer", !.acct = rows[credit].acct,
                       !.to = rows[debit].acct, !.key = ServerKey,
                       !.amt = IF rows[credit].amt < 0 THEN -rows[credit].amt
                                                       ELSE rows[credit].amt]]
          /\ UNCHANGED <<pc, seen>>
     \/ Finish(p, "rejected")
  /\ UNCHANGED <<data, lock>>

-----------------------------------------------------------------------------
(* createBankAccount, createCreditCard; deleteBankAccount, deleteCreditCard.*)

ReadParent(p) ==
  LET parent == Parent[req[p].acct] IN
  /\ At(p, "open", "begun")
  /\ Proceed(p, parent = NoAccount \/ (status[parent] = "active" /\ ~IsPocket(parent)),
             "checked", Nothing)

\* The pocket's foreign key needs the row of its parent.
CommitOpen(p) ==
  LET a == req[p].acct IN
  /\ At(p, "open", "checked")
  /\ IsPocket(a) => Free(p, Parent[a])
  /\ IF status[a] # "none"
     THEN Finish(p, "rejected") /\ UNCHANGED data
     ELSE /\ status' = [status EXCEPT ![a] = "active"]
          /\ cached' = [cached EXCEPT ![a] = Opening[a]]
          /\ total' = [total EXCEPT ![a] = Opening[a]]
          /\ rows' = IF Opening[a] = 0 THEN rows
                     ELSE [rows EXCEPT ![OpeningRow(a)] =
                             NewRow(a, Opening[a], "INCOME", ServerKey)]
          /\ Finish(p, "done")
  /\ UNCHANGED lock

\* The checks of deleteBankAccount are three reads before the transaction.
ReadBalance(p) ==
  LET a == req[p].acct IN
  /\ At(p, "close", "begun")
  /\ Proceed(p, status[a] = "active", "row", [Nothing EXCEPT !.total = total[a]])

\* Slip of CountMovements: a balance other than zero is no obstacle.
CountMovementsSkipped(p) ==
  /\ At(p, "close", "row")
  /\ Proceed(p, TRUE, "read", seen[p])

CountMovements(p) ==
  /\ At(p, "close", "row")
  /\ Proceed(p, seen[p].total = 0 \/ Movements(req[p].acct) = {}, "read", seen[p])

CheckPockets(p) ==
  /\ At(p, "close", "read")
  /\ Proceed(p, \A b \in Pockets(req[p].acct) : total[b] = 0, "checked", seen[p])

ReadCardBalance(p) ==
  LET a == req[p].acct IN
  /\ At(p, "closeCard", "begun")
  /\ Proceed(p, status[a] = "active" /\ a \in Cards /\ total[a] >= 0, "checked", Nothing)

\* An account that held its opening balance loses the opening movement with it;
\* the cache stays as it is.
CommitClose(p) ==
  LET a == req[p].acct
      i == OpeningRow(a)
      drop == seen[p].total # 0 /\ Active(i)
  IN
  /\ At(p, "close", "checked") \/ At(p, "closeCard", "checked")
  /\ Free(p, a)
  /\ status' = [status EXCEPT ![a] = "deleted"]
  /\ rows' = IF drop THEN SetActive(i, FALSE) ELSE rows
  /\ total' = [total EXCEPT ![a] = IF drop THEN @ - rows[i].amt ELSE @]
  /\ Finish(p, "done")
  /\ UNCHANGED <<cached, lock>>

-----------------------------------------------------------------------------
(* reconcileAccount: no transaction, no lock, an unconditional write.      *)

ReadCached(p) ==
  LET a == req[p].acct IN
  /\ At(p, "reconcile", "begun")
  /\ Proceed(p, status[a] = "active", "read", [Nothing EXCEPT !.cached = cached[a]])

\* Slip of Drifted: only a cache that shows too much is corrected.
DriftedAbove(read, true) == read > true

Drifted(read, true) == read # true

ReadTotal(p) ==
  LET a == req[p].acct IN
  /\ At(p, "reconcile", "read")
  /\ IF Drifted(seen[p].cached, total[a])
     THEN Goto(p, "checked", [seen[p] EXCEPT !.total = total[a]])
     ELSE Finish(p, "done")
  /\ UNCHANGED <<data, lock>>

CommitReconcile(p) ==
  LET a == req[p].acct IN
  /\ At(p, "reconcile", "checked")
  /\ Free(p, a)
  /\ cached' = [cached EXCEPT ![a] = seen[p].total]
  /\ Finish(p, "done")
  /\ UNCHANGED <<status, rows, total, lock>>

-----------------------------------------------------------------------------
Create(p) == ReadAccount(p) \/ CheckFunds(p) \/ CommitCreate(p)
Amend(p) == ReadRow(p) \/ ReadRowAccount(p) \/ CheckRowFunds(p)
              \/ CommitDelete(p) \/ CommitUpdate(p)
Move(p) == ReadTransfer(p) \/ ReadPair(p) \/ ReadCard(p) \/ CheckDebt(p)
             \/ LockSource(p) \/ CommitMove(p)
OpenClose(p) == ReadParent(p) \/ CommitOpen(p) \/ ReadBalance(p) \/ CountMovements(p)
                  \/ CheckPockets(p) \/ ReadCardBalance(p) \/ CommitClose(p)
Reconcile(p) == ReadCached(p) \/ ReadTotal(p) \/ CommitReconcile(p)

\* A request that has begun takes its next step.
Step(p) == Create(p) \/ Amend(p) \/ Move(p) \/ OpenClose(p) \/ Reconcile(p)

AllOver == (\A p \in Procs : pc[p] \in Finished) /\ UNCHANGED vars

Next == (\E p \in Procs : Begin(p) \/ Step(p) \/ Abort(p)) \/ AllOver

Spec == Init /\ [][Next]_vars

-----------------------------------------------------------------------------
(* Fairness.  A handler that has begun goes on: its awaits return.  The    *)
(* deadlock detector rolls back one transaction of every cycle of waiting. *)

\* A set of requests that hold their source and wait for one another's.
Cycle(S) ==
  /\ S # {}
  /\ \A p \in S : pc[p] = "locked"
  /\ S = {lock[req[p].to] : p \in S}

BreakDeadlock == \E S \in SUBSET Procs : Cycle(S) /\ \E p \in S : Abort(p)

FairSpec ==
  /\ Spec
  /\ \A p \in Procs : WF_vars(Step(p))
  /\ WF_vars(BreakDeadlock)

-----------------------------------------------------------------------------
(* Properties.                                                             *)

\* Of all the requests that carry one key, at most one takes effect, however
\* they overlap and even when its transaction has been deleted in between
\* (the idempotency check and the unique index of Transaction.idempotencyKey).
OncePerKey ==
  \A p, q \in Procs :
    (pc[p] = "done" /\ pc[q] = "done" /\ req[p].key = req[q].key
       /\ req[p].key \in Keys
       /\ {req[p].op, req[q].op} \subseteq {"create", "transfer", "pay"}) => p = q

\* No account but a card ever owes money (transaction.actions.ts:490): no
\* sequence and no interleaving takes the true balance of an open account below
\* zero.
NoOverdraft == \A a \in Accounts \ Cards : status[a] = "active" => total[a] >= 0

\* When no request is running, the cached balance of every open account is its
\* true balance (README.md:21).
CacheExactWhenQuiet ==
  InFlight = {} => \A a \in Accounts : status[a] = "active" => cached[a] = total[a]

\* The cache of an account that only pays out is exact at every moment, however
\* its transfers and card payments overlap: it is read again under the lock
\* (transfer.actions.ts:246, credit-card.actions.ts:622).
SourceCacheExact ==
  \A a \in Accounts :
    (\A p \in Procs : pc[p] # "idle" =>
       req[p].op \in {"transfer", "pay"} /\ req[p].to # a) => cached[a] = total[a]

\* No request has asked for one of these operations.
NoneAsked(ops) == \A p \in Procs : req[p] # NoRequest => req[p].op \notin ops

\* A card never owes more than its limit (transaction.actions.ts:59), as long as
\* its history is left alone.
WithinLimit ==
  NoneAsked({"delete", "update"}) =>
    \A a \in Cards : status[a] = "active" => total[a] >= -CreditLimit[a]

\* An account is deleted only when it holds nothing (account.actions.ts:258),
\* and no reversal of an older transfer brings money back to it: as long as its
\* history is left alone, no money of the user is left where no screen shows it.
ClosedIsEmpty ==
  NoneAsked({"delete", "update"}) =>
    \A a \in Accounts \ Cards : status[a] = "deleted" => total[a] = 0

\* A reversal gives back what its transfer moved, to the account it came from,
\* although it recognises the two legs by their amounts and comes when they may
\* be reversed or deleted already (transfer.actions.ts:432), as long as no
\* amount is edited.
ReversalUndoes ==
  NoneAsked({"update"}) =>
    \A p \in Procs :
      pc[p] = "done" /\ req[p].op = "transfer" /\ req[p].key = ServerKey =>
        LET debit == rows[Main(p)]
            credit == rows[Other(p)]
            given == rows[Main(req[p].of)]
            got == rows[Other(req[p].of)]
        IN
        /\ debit.acct = got.acct /\ debit.amt = -got.amt
        /\ credit.acct = given.acct /\ credit.amt = -given.amt

\* Every request that has begun is answered: no row lock is kept for ever and
\* no two transfers in opposite directions wait for each other for ever.
RequestsTerminate == \A p \in Procs : pc[p] \in Begun ~> pc[p] \in Finished

\* Every other request is over, or is a reconciliation that has not read the
\* history yet.
Settled(p) ==
  \A q \in Procs \ {p} :
    \/ pc[q] \in Finished
    \/ At(q, "reconcile", "begun") \/ At(q, "reconcile", "read")

Repaired(p) ==
  LET a == req[p].acct IN
  req[p] # NoRequest /\ (status[a] = "active" => cached[a] = total[a])

\* A reconciliation that runs after the last movement repairs the cache, too
\* high or too low, whatever the requests before it lost and however many
\* reconciliations run beside it, unless it is aborted: the two reads and the
\* write of reconcileAccount are apart (reconciliation.service.ts:86).
ReconciliationRepairs ==
  \A p \in Procs :
    At(p, "reconcile", "begun") /\ Settled(p) ~> pc[p] = "aborted" \/ Repaired(p)
=============================================================================
