----------------------------- MODULE Investments -----------------------------
(***************************************************************************)
(* An investment account (investment.actions.ts,                           *)
(* investment-ledger.service.ts): money comes in from a bank account and   *)
(* goes back to it, shares of one asset are bought and sold, and trades    *)
(* are edited and undone, which replays all trades of the asset.           *)
(*                                                                         *)
(* Requests are processes as in Ledger: they lock rows one by one and take *)
(* effect in one step.  The operations lock in different orders, so they   *)
(* may wait for one another; the database finds that out and gives one up. *)
(* Shares are whole.  Prices are not checked against a market: a request   *)
(* that is turned away for its price is like one that is lost.             *)
(***************************************************************************)
EXTENDS Rounding, FiniteSets, Functions, Folds

CONSTANTS
  Opening,      \* what the bank account holds at first
  Rate,         \* what a unit of the foreign currency costs
  Procs,        \* request slots; a slot serves one request
  Keys,         \* idempotency keys of the clients
  RequestsOf,   \* the requests each slot may be given
  MaxInFlight,  \* how many requests run at the same time
  NoProc, NoRow, NoRequest

Accounts == {"bank", "cash"}
Locks == Accounts \cup {"holding"}

Flows == {"deposit", "withdraw"}
Trades == {"buy", "sell"}
Edits == {"update", "reverse"}
Ops == Flows \cup Trades \cup Edits

\* of is the slot whose trade is edited; an update gives the new qty, price and date.
Request == [op : Ops, amt : Nat, qty : Nat \ {0}, price : Nat \ {0}, date : Nat,
            of : Procs, key : Keys]

\* The pair of transactions of a transfer, and the transaction of a trade; at is how
\* many trades there were before it.
Flow == [bank : Int, cash : Int, key : Keys]
Trade == [side : Trades, qty : Nat \ {0}, price : Nat \ {0}, date : Nat, at : Nat,
          active : BOOLEAN, key : Keys]

\* The InvestmentAssetHolding; avg is avgCostCents.
Holding == [qty : Int, avg : Nat, active : BOOLEAN]

ASSUME InvestmentsAssumption ==
  /\ Opening \in Nat
  /\ Rate \in Nat \ {0}
  /\ MaxInFlight \in Nat \ {0}
  /\ IsFiniteSet(Procs)
  /\ NoProc \notin Procs
  /\ NoRow \notin Flow \cup Trade \cup Holding
  /\ NoRequest \notin Request
  /\ \A p \in Procs : \A r \in RequestsOf[p] :
       r \in Request /\ (r.op \in Flows => r.amt > 0)

VARIABLES
  flows,     \* the transfer each slot has made
  trades,    \* the trade each slot has made
  balance,   \* the cached balances of the bank account and the investment account
  holding,
  lock,      \* the process that holds the row of an account or of the holding
  pc, req,
  seen       \* how many shares a sale has found

data == <<flows, trades, balance, holding>>
vars == <<flows, trades, balance, holding, lock, pc, req, seen>>

Begun == {"begun", "found", "first", "ready"}
Finished == {"done", "repeated", "rejected", "aborted"}

\* Every variable keeps its type, and a holding never says that shares are owed.
TypeOK ==
  /\ flows \in [Procs -> Flow \cup {NoRow}]
  /\ trades \in [Procs -> Trade \cup {NoRow}]
  /\ balance \in [Accounts -> Int]
  /\ holding \in Holding \cup {NoRow} /\ (holding # NoRow => holding.qty >= 0)
  /\ lock \in [Locks -> Procs \cup {NoProc}]
  /\ pc \in [Procs -> {"idle"} \cup Begun \cup Finished]
  /\ req \in [Procs -> Request \cup {NoRequest}]
  /\ seen \in [Procs -> Int]
  /\ \A p \in Procs : pc[p] \in Begun => req[p] \in Request

Init ==
  /\ flows = [p \in Procs |-> NoRow]
  /\ trades = [p \in Procs |-> NoRow]
  /\ balance = [a \in Accounts |-> IF a = "bank" THEN Opening ELSE 0]
  /\ holding = NoRow
  /\ lock = [x \in Locks |-> NoProc]
  /\ pc = [p \in Procs |-> "idle"]
  /\ req = [p \in Procs |-> NoRequest]
  /\ seen = [p \in Procs |-> 0]

-----------------------------------------------------------------------------
(* The control of a request.                                               *)

InFlight == {p \in Procs : pc[p] \in Begun}

At(p, ops, label) == pc[p] = label /\ req[p].op \in ops

Goto(p, label, qty) ==
  /\ pc' = [pc EXCEPT ![p] = label]
  /\ seen' = [seen EXCEPT ![p] = qty]
  /\ UNCHANGED req

\* Slip of Finish: a request that is given up keeps what it has locked.
FinishWithoutRollback(p, how) ==
  /\ pc' = [pc EXCEPT ![p] = how]
  /\ seen' = [seen EXCEPT ![p] = 0]
  /\ lock' = [x \in Locks |-> IF lock[x] = p /\ how = "done" THEN NoProc ELSE lock[x]]
  /\ UNCHANGED req

Finish(p, how) ==
  /\ pc' = [pc EXCEPT ![p] = how]
  /\ seen' = [seen EXCEPT ![p] = 0]
  /\ lock' = [x \in Locks |-> IF lock[x] = p THEN NoProc ELSE lock[x]]
  /\ UNCHANGED req

\* Slip of Wants: an update locks the holding before the account.
WantsHoldingFirst(p) ==
  CASE At(p, {"deposit"}, "found") \/ At(p, {"withdraw"}, "first") -> {"bank"}
    [] At(p, {"withdraw"}, "found") \/ At(p, {"deposit"}, "first") -> {"cash"}
    [] At(p, {"sell", "update"}, "found") -> {"holding"}
    [] At(p, {"sell"}, "first") \/ At(p, {"update"}, "ready") -> {"cash"}
    [] At(p, {"buy", "reverse"}, "found") -> {"cash"}
    [] At(p, {"buy", "reverse"}, "ready") /\ holding # NoRow -> {"holding"}
    [] OTHER -> {}

\* The rows that the next statements of a request lock or write.
Wants(p) ==
  CASE At(p, {"deposit"}, "found") \/ At(p, {"withdraw"}, "first") -> {"bank"}
    [] At(p, {"withdraw"}, "found") \/ At(p, {"deposit"}, "first") -> {"cash"}
    [] At(p, {"sell"}, "found") -> {"holding"}
    [] At(p, {"sell"}, "first") -> {"cash"}
    [] At(p, {"buy"} \cup Edits, "found") -> {"cash"}
    [] At(p, {"buy"} \cup Edits, "ready") /\ holding # NoRow -> {"holding"}
    [] OTHER -> {}

MayGoOn(p) == \A x \in Wants(p) : lock[x] \in {NoProc, p}

\* FOR UPDATE: what is locked stays locked until the end of the request.
Take(p) == lock' = [x \in Locks |-> IF x \in Wants(p) THEN p ELSE lock[x]]

Refuse(p, how) == Finish(p, how) /\ UNCHANGED data

\* Requests that wait for one another.
Deadlocked(S) ==
  S # {} /\ \A p \in S : \E x \in Wants(p) : lock[x] \in S \ {p}

-----------------------------------------------------------------------------
(* The tables.                                                             *)

Made(p) == trades[p] # NoRow
KeyTaken(k) == \E q \in Procs : \/ flows[q] # NoRow /\ flows[q].key = k
                                \/ Made(q) /\ trades[q].key = k

Amount(t) == IF t.side = "buy" THEN -(t.qty * t.price) ELSE t.qty * t.price

Transferred == {p \in Procs : flows[p] # NoRow}
ActiveIn(ts) == {p \in Procs : ts[p] # NoRow /\ ts[p].active}

\* getTrueBalanceFromTx
TrueBank == Opening + SumFunction([p \in Procs |-> IF p \in Transferred THEN flows[p].bank ELSE 0])
CashOf(ts) ==
  SumFunction([p \in Procs |-> IF p \in Transferred THEN flows[p].cash ELSE 0])
    + SumFunction([p \in Procs |-> IF p \in ActiveIn(ts) THEN Amount(ts[p]) ELSE 0])
TrueCash == CashOf(trades)

\* One trade of the replay; what the shares have cost is num / den.  qty is -1 once
\* more was sold than there was.
Played(pos, t) ==
  CASE pos.qty < 0 \/ (t.side = "sell" /\ t.qty > pos.qty) -> [pos EXCEPT !.qty = -1]
    [] t.side = "buy" /\ pos.qty >= 0 ->
         [qty |-> pos.qty + t.qty, num |-> pos.num + t.qty * t.price * pos.den, den |-> pos.den]
    [] OTHER -> [qty |-> pos.qty - t.qty, num |-> pos.num * (pos.qty - t.qty),
                 den |-> pos.den * pos.qty]

\* The order of the replay, and the trade of some that comes last in it.
Before(t, u) == t.date < u.date \/ (t.date = u.date /\ t.at < u.at)
Latest(ts, S) == CHOOSE p \in S : \A q \in S : ~Before(ts[p], ts[q])

NoShares == [qty |-> 0, num |-> 0, den |-> 1]

\* recomputeHoldingFromLedger, by average cost: the trade that comes last is played
\* on what the others come to.
Replay(ts) ==
  MapThenFoldSet(LAMBDA t, pos : Played(pos, t), NoShares, LAMBDA p : ts[p],
                 LAMBDA S : Latest(ts, S), ActiveIn(ts))

\* The average is taken for an amount of money and turned into cents once more.
Centavos == 100

\* syncHoldingFromTrade
Synced(pos) ==
  LET avg == IF pos.qty = 0 THEN 0 ELSE RoundDiv(Centavos * pos.num, pos.den * pos.qty) IN
  IF holding = NoRow /\ pos.qty = 0 THEN NoRow
  ELSE [qty |-> pos.qty, avg |-> avg, active |-> pos.qty > 0]

-----------------------------------------------------------------------------
(* A request arrives; it may be lost, or turned away, before its commit.   *)

Begin(p) ==
  /\ pc[p] = "idle"
  /\ Cardinality(InFlight) < MaxInFlight
  /\ \E r \in RequestsOf[p] : req' = [req EXCEPT ![p] = r]
  /\ pc' = [pc EXCEPT ![p] = "begun"]
  /\ UNCHANGED <<data, lock, seen>>

Abort(p) == pc[p] \in Begun /\ Refuse(p, "aborted")

\* The database gives up one of the requests that wait for one another.
GiveUp(p) ==
  /\ \E S \in SUBSET InFlight : p \in S /\ Deadlocked(S)
  /\ Refuse(p, "aborted")

\* The key of a transfer or a trade is looked for; a trade that is to be edited must
\* be there, and one that was undone is not undone again.
Lookup(p) ==
  LET r == req[p]
      known == r.op \in Flows \cup Trades /\ KeyTaken(r.key)
      undone == r.op = "reverse" /\ Made(r.of) /\ ~trades[r.of].active
      found == CASE r.op = "sell" -> holding # NoRow
                 [] r.op \in Edits -> Made(r.of) /\ trades[r.of].active
                 [] OTHER -> TRUE IN
  /\ pc[p] = "begun"
  /\ CASE known \/ undone -> Refuse(p, "repeated")
       [] ~known /\ ~undone /\ found -> Goto(p, "found", 0) /\ UNCHANGED <<data, lock>>
       [] OTHER -> Refuse(p, "rejected")

\* A transfer locks one account after the other, a sale the holding and the account.
LockFirst(p) ==
  /\ At(p, Flows \cup {"sell"}, "found") /\ MayGoOn(p)
  /\ IF req[p].op = "sell" /\ ~holding.active
     THEN Refuse(p, "rejected")
     ELSE /\ Goto(p, "first", IF req[p].op = "sell" THEN holding.qty ELSE 0)
          /\ Take(p) /\ UNCHANGED data

LockCash(p) ==
  /\ At(p, Flows \cup {"sell"}, "first") \/ At(p, {"buy"} \cup Edits, "found")
  /\ MayGoOn(p)
  /\ Goto(p, "ready", seen[p]) /\ Take(p) /\ UNCHANGED data

-----------------------------------------------------------------------------
(* What the requests do.  A key that was used meanwhile makes a request a  *)
(* repeated one.                                                           *)

\* What arrives on the other side.
Converted(r) == IF r.op = "deposit" THEN RoundDiv(r.amt, Rate) ELSE r.amt * Rate

\* depositToInvestment, withdrawFromInvestment
CommitFlow(p) ==
  LET r == req[p]
      bank == IF r.op = "deposit" THEN -r.amt ELSE Converted(r)
      cash == IF r.op = "deposit" THEN Converted(r) ELSE -r.amt IN
  /\ At(p, Flows, "ready")
  /\ CASE r.amt > (IF r.op = "deposit" THEN TrueBank ELSE TrueCash) -> Refuse(p, "rejected")
       [] KeyTaken(r.key) -> Refuse(p, "repeated")
       [] OTHER ->
            /\ flows' = [flows EXCEPT ![p] = [bank |-> bank, cash |-> cash, key |-> r.key]]
            /\ balance' = [balance EXCEPT !["bank"] = @ + bank, !["cash"] = @ + cash]
            /\ Finish(p, "done")
            /\ UNCHANGED <<trades, holding>>

NewTrade(r) ==
  [side |-> r.op, qty |-> r.qty, price |-> r.price, date |-> r.date,
   at |-> Cardinality({q \in Procs : Made(q)}), active |-> TRUE, key |-> r.key]

Book(p, t, h) ==
  /\ trades' = [trades EXCEPT ![p] = t]
  /\ balance' = [balance EXCEPT !["cash"] = @ + Amount(t)]
  /\ holding' = h
  /\ Finish(p, "done")
  /\ UNCHANGED flows

\* Slip of Bought: a holding that was sold out is not opened again.
BoughtClosed(r) ==
  IF holding = NoRow THEN [qty |-> r.qty, avg |-> r.price, active |-> TRUE]
  ELSE [holding EXCEPT !.qty = @ + r.qty]

\* The holding after a purchase, at the average of what its shares have cost.
Bought(r) ==
  IF holding = NoRow THEN [qty |-> r.qty, avg |-> r.price, active |-> TRUE]
  ELSE [qty |-> holding.qty + r.qty, active |-> TRUE,
        avg |-> RoundDiv(holding.qty * holding.avg + r.qty * r.price, holding.qty + r.qty)]

CommitBuy(p) ==
  LET r == req[p] IN
  /\ At(p, {"buy"}, "ready") /\ MayGoOn(p)
  /\ CASE r.qty * r.price > TrueCash -> Refuse(p, "rejected")
       [] KeyTaken(r.key) -> Refuse(p, "repeated")
       [] OTHER -> Book(p, NewTrade(r), Bought(r))

\* The holding when shares are left; a sale does not change what one has cost.
Left(qty) == [qty |-> qty, avg |-> holding.avg, active |-> qty > 0]

\* Slip of CommitSell: the shares are not counted again under the lock.
CommitSellUncounted(p) ==
  LET r == req[p]
      left == seen[p] - r.qty IN
  /\ At(p, {"sell"}, "ready")
  /\ IF KeyTaken(r.key) THEN Refuse(p, "repeated")
     ELSE Book(p, NewTrade(r), Left(left))

CommitSell(p) ==
  LET r == req[p]
      left == seen[p] - r.qty IN
  /\ At(p, {"sell"}, "ready")
  /\ CASE left < 0 -> Refuse(p, "rejected")
       [] KeyTaken(r.key) -> Refuse(p, "repeated")
       [] OTHER -> Book(p, NewTrade(r), Left(left))

\* The trades are replayed after an edit; the cache is what they come to.
Replace(p, ts, allowed) ==
  LET pos == Replay(ts) IN
  IF pos.qty < 0 \/ ~allowed THEN Refuse(p, "rejected")
  ELSE /\ trades' = ts
       /\ holding' = Synced(pos)
       /\ balance' = [balance EXCEPT !["cash"] = CashOf(ts)]
       /\ Finish(p, "done")
       /\ UNCHANGED flows

Edited(r) ==
  [trades EXCEPT ![r.of] = [@ EXCEPT !.qty = r.qty, !.price = r.price, !.date = r.date]]

\* Slip of Affordable: an edit is never refused for the money it costs.
AlwaysAffordable(r) == TRUE

\* A purchase may not become dearer than the account can pay.
Affordable(r) ==
  LET ts == Edited(r) IN
  ~(CashOf(ts) < 0 /\ ts[r.of].side = "buy" /\ Amount(ts[r.of]) < Amount(trades[r.of]))

\* updateInvestmentTrade: the trade is looked at again under the lock.
CommitUpdate(p) ==
  LET r == req[p] IN
  /\ At(p, {"update"}, "ready") /\ MayGoOn(p)
  /\ IF trades[r.of].active THEN Replace(p, Edited(r), Affordable(r)) ELSE Refuse(p, "rejected")

\* reverseInvestmentTrade: it is not.
CommitReverse(p) ==
  LET r == req[p] IN
  /\ At(p, {"reverse"}, "ready") /\ MayGoOn(p)
  /\ Replace(p, [trades EXCEPT ![r.of] = [@ EXCEPT !.active = FALSE]], TRUE)

-----------------------------------------------------------------------------
Step(p) ==
  \/ Lookup(p) \/ LockFirst(p) \/ LockCash(p)
  \/ CommitFlow(p) \/ CommitBuy(p) \/ CommitSell(p) \/ CommitUpdate(p) \/ CommitReverse(p)

Next == \E p \in Procs : Begin(p) \/ Abort(p) \/ GiveUp(p) \/ Step(p)

Spec == Init /\ [][Next]_vars

\* A request goes on as long as it may, and a deadlock is found.
FairSpec ==
  /\ Spec
  /\ \A p \in Procs : WF_vars(Step(p))
  /\ WF_vars(\E p \in Procs : GiveUp(p))

-----------------------------------------------------------------------------
(* Properties.                                                             *)

\* The shares that the active trades leave.
Shares(t) == IF t.side = "buy" THEN t.qty ELSE -t.qty
SharesOf(ts) == SumFunction([p \in Procs |-> IF p \in ActiveIn(ts) THEN Shares(ts[p]) ELSE 0])

\* The ledger is the truth: whatever was bought, sold, edited and undone at the same
\* time, the holding has the shares of the active trades and is open when there are
\* any, and the caches say what the transactions come to.
LedgerIsTruth ==
  /\ holding = NoRow => SharesOf(trades) = 0
  /\ holding # NoRow => /\ holding.qty = SharesOf(trades)
                        /\ holding.active <=> holding.qty > 0
  /\ balance["bank"] = TrueBank /\ balance["cash"] = TrueCash

\* Cash is spent only as far as there is some: what takes it below zero, or further
\* below, is never a purchase, a withdrawal, or the edit of a purchase.
CashGuarded ==
  [][\A p \in Procs :
       /\ pc[p] = "ready" /\ pc'[p] = "done"
       /\ TrueCash' < TrueCash /\ TrueCash' < 0
       => req[p].op \in Edits /\ trades[req[p].of].side = "sell"]_vars

\* What a share has cost on average lies within what was ever paid for one
\* (investment-ledger.service.ts:27: "Average cost per share in cents").
AverageIsOfOneShare ==
  holding # NoRow /\ holding.active =>
    \E p \in Procs : Made(p) /\ trades[p].side = "buy" /\ holding.avg <= trades[p].price

Doing(p, ops) == pc[p] \in Begun /\ req[p].op \in ops

\* Requests of one kind never wait for one another: every deadlock has a deposit and
\* a withdrawal, or a sale and a purchase or an edit, in it.
SameKindSerializes ==
  \A S \in SUBSET InFlight : Deadlocked(S) =>
    \/ \E p, q \in S : Doing(p, {"deposit"}) /\ Doing(q, {"withdraw"})
    \/ \E p, q \in S : Doing(p, {"sell"}) /\ Doing(q, {"buy"} \cup Edits)

\* Every request ends, though the order of the locks lets some wait for one another.
RequestsTerminate == \A p \in Procs : pc[p] = "begun" ~> pc[p] \in Finished
=============================================================================
