---------------------------- MODULE MCInvestments ----------------------------
(***************************************************************************)
(* Investments on a small instance: a unit of foreign money costs two, and *)
(* shares are bought and sold at one or two units, on two days.            *)
(***************************************************************************)
EXTENDS Investments, TLC

CONSTANTS p1, p2, p3, p4, k0, k1, k2, k3

Blank == [op |-> "deposit", amt |-> 1, qty |-> 1, price |-> 1, date |-> 0, of |-> p1, key |-> k0]
Move(op, amt, k) == [Blank EXCEPT !.op = op, !.amt = amt, !.key = k]
Deal(op, qty, price, date, k) ==
  [Blank EXCEPT !.op = op, !.qty = qty, !.price = price, !.date = date, !.key = k]
Change(q, qty, price, date) ==
  [Blank EXCEPT !.op = "update", !.of = q, !.qty = qty, !.price = price, !.date = date]
Undo(q) == [Blank EXCEPT !.op = "reverse", !.of = q]

InvestmentRequests ==
  p1 :> {Move("deposit", 8, k0)}
    @@ p2 :> {Deal("buy", 2, 1, 1, k1), Move("deposit", 3, k1)}
    @@ p3 :> {Deal("sell", 1, 2, 0, k2), Deal("sell", 2, 1, 1, k3), Move("withdraw", 2, k2),
              Move("deposit", 3, k1), Change(p2, 1, 2, 1)}
    @@ p4 :> {Change(p2, 2, 2, 1), Change(p3, 1, 1, 1), Undo(p2), Undo(p3),
              Deal("buy", 1, 2, 1, k2), Move("withdraw", 3, k1)}
=============================================================================
