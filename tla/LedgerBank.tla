----------------------------- MODULE LedgerBank -----------------------------
(***************************************************************************)
(* The ledger implements the bank, as long as every debit of an account    *)
(* that is not a card is made under its lock.                              *)
(***************************************************************************)
EXTENDS Ledger

CONSTANT Amounts

\* No request takes money out of an account without locking it: no expense on
\* it, no edit, no deletion of a movement.
LockedDebitsOnly ==
  \A p \in Procs : \A r \in RequestsOf[p] :
    /\ r.op \notin {"update", "delete"}
    /\ r.op = "create" => r.acct \in Cards \/ r.amt > 0

\* What a request that has begun may ask for, then.
Asked(r) ==
  /\ r.op \notin {"update", "delete"}
  /\ r.op = "create" => r.acct \in Cards \/ r.amt > 0
  /\ r.op \in {"transfer", "pay"} => r.amt > 0 /\ r.acct # r.to

\* From the checks of the accounts on, the source of a move is one that exists
\* and is no card.
Sourced(p) ==
  At(p, "transfer", "read") \/ At(p, "pay", "read") \/ pc[p] = "locked" =>
    req[p].acct \notin Cards /\ status[req[p].acct] # "none"

\* A request that holds its source finds the money there until it commits.
Held(p) ==
  pc[p] = "locked" =>
    /\ req[p].op \in {"transfer", "pay"}
    /\ lock[req[p].acct] = p
    /\ total[req[p].acct] >= req[p].amt

Guarded(p) == (pc[p] \in Begun => Asked(req[p])) /\ Sourced(p) /\ Held(p)

\* No open account is overdrawn, and no request that is past its funds check can
\* be overtaken by another debit of the same account: the invariant that makes
\* NoOverdraft inductive.
FundsGuarded == NoOverdraft /\ \A p \in Procs : Guarded(p)

\* No account is deleted: a transfer does not look again whether its
\* destination still is open.
NoneCloses ==
  \A p \in Procs : \A r \in RequestsOf[p] : r.op \notin {"close", "closeCard"}

UsedKeys == {k \in Keys : KeyTaken(k)}

TheBank == INSTANCE Bank WITH money <- total, used <- UsedKeys

\* Every behaviour of the ledger is one of the bank: what an account holds is
\* its true balance, a transfer is one step, money that is not there does not
\* move, and a key takes effect once.
ImplementsBank == TheBank!Spec
=============================================================================
