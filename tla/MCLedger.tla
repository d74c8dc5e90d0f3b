------------------------------ MODULE MCLedger ------------------------------
(***************************************************************************)
(* The ledger on small instances: two accounts A and B, a pocket of A, a   *)
(* card, and three requests.  Each scenario says which requests each       *)
(* slot may be given; a configuration picks one and the number of requests *)
(* that may overlap.                                                       *)
(***************************************************************************)
EXTENDS LedgerBank, TLC

CONSTANTS A, B, Pocket, Card, p1, p2, p3, k1, k2

MCAccounts == {A, B, Pocket, Card}
MCCards == {Card}
MCParent == [a \in MCAccounts |-> IF a = Pocket THEN A ELSE NoAccount]
MCOpening == [a \in MCAccounts |-> IF a = A THEN 2 ELSE 0]
FundedOpening == [a \in MCAccounts |-> CASE a = A -> 2 [] a = B -> 1 [] OTHER -> 0]
MCLimit == [a \in MCCards |-> 2]

Req(op, a, b, n, k, row, of) ==
  [op |-> op, acct |-> a, to |-> b, amt |-> n, key |-> k, row |-> row, of |-> of]

NewTx(a, n, k) == Req("create", a, a, n, k, OpeningRow(a), p1)
Transfer(a, b, n, k) == Req("transfer", a, b, n, k, OpeningRow(a), p1)
Pay(a, n, k) == Req("pay", a, Card, n, k, OpeningRow(a), p1)
Delete(row) == Req("delete", A, A, 0, ServerKey, row, p1)
Update(row, n) == Req("update", A, A, n, ServerKey, row, p1)
Reverse(p) == Req("reverse", A, A, 0, ServerKey, OpeningRow(A), p)
On(op, a) == Req(op, a, a, 0, ServerKey, OpeningRow(a), p1)

\* One request at a time, of every kind, on money that is there and money that
\* is not.
SerialMenu(k) ==
  {NewTx(A, 1, k), NewTx(A, -2, k), NewTx(Card, -1, k), NewTx(Card, -2, k), NewTx(Pocket, 1, k),
   Transfer(A, B, 2, k), Transfer(B, A, 1, k), Transfer(A, Pocket, 1, k),
   Transfer(Pocket, B, 1, k), Pay(A, 1, k), Pay(A, 2, k), Pay(B, 1, k),
   Delete(OpeningRow(A)), Delete(Main(p1)), Delete(Other(p1)), Update(OpeningRow(A), 3),
   Update(Main(p1), -1), Update(Main(p1), 2), Reverse(p1),
   On("open", Pocket), On("close", A), On("close", B), On("close", Pocket),
   On("closeCard", Card), On("reconcile", A)}
SerialRequests == p1 :> SerialMenu(k1) @@ p2 :> SerialMenu(k2) @@ p3 :> SerialMenu(k1)

\* Requests that overlap, every debit under its lock: retries of one key,
\* transfers in opposite directions that wait for each other's locks, requests
\* that leave the cache of A or B too high or too low, and reconciliations.
LockedMenu(k) ==
  {NewTx(A, 1, k), NewTx(Card, -1, k), Transfer(A, B, 2, k), Transfer(B, A, 1, k),
   Transfer(A, Pocket, 1, k), Pay(A, 1, k), Reverse(p1), On("reconcile", A)}
LockedRequests ==
  p1 :> LockedMenu(k1) \cup {On("open", Pocket), NewTx(B, 1, k1)}
    @@ p2 :> LockedMenu(k2) @@ p3 :> LockedMenu(k1) \cup {On("reconcile", B)}
=============================================================================
