----------------------------- MODULE MCSavings -----------------------------
(***************************************************************************)
(* Savings on small instances: one account that holds 3, a goal G of 2 and *)
(* a goal H that may be created, up to three requests, and a page that     *)
(* reads G again and again.                                                *)
(***************************************************************************)
EXTENDS Savings, TLC

CONSTANTS A, G, H, p1, p2, p3, p4, k1, k2

MCOpening == [a \in Accounts |-> 3]
MCTarget == [g \in Goals |-> IF g = G THEN 2 ELSE 0]
NoLegacy == [g \in Goals |-> 0]

Req(op, g, n, k, q, s) ==
  [op |-> op, goal |-> g, acct |-> A, amt |-> n, key |-> k, of |-> q, status |-> s]
Save(g, n, k) == Req("contribute", g, n, k, p1, "same")
Delete1(q) == Req("delete", G, 0, k1, q, "same")
Edit(n, s) == Req("update", G, n, k1, p1, s)
On(op, g) == Req(op, g, 0, k1, p1, "same")

SavingsRequests ==
  p1 :> {Save(G, 1, k1), Save(G, 2, k1), Req("create", H, 1, k1, p1, "same")}
    @@ p2 :> {Save(G, 2, k2), Save(H, 1, k2), Save(G, 1, k1), Delete1(p1), Edit(3, "same"),
              Edit(0, "COMPLETED"), Edit(0, "CANCELLED")}
    @@ p3 :> {Delete1(p1), Delete1(p2), On("remove", G), Save(G, 1, k1), Save(G, 1, k2)}
    @@ p4 :> {On("reconcile", G)}
=============================================================================
