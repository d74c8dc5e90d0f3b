--------------------------- MODULE MCFixedExpenses ---------------------------
(***************************************************************************)
(* Fixed expenses on small instances: a template T that falls due on every *)
(* day, a template U that may be created, one account of each of two       *)
(* currencies, a calendar of three days, and a day that may pass.          *)
(***************************************************************************)
EXTENDS FixedExpenses, TLC

CONSTANTS T, U, A, B, cop, usd, p1, p2, p3, p4, k1, k2

MCOpening == [a \in Accounts |-> 2]
MCCurrencyOf == [a \in Accounts |-> IF a = A THEN cop ELSE usd]
Daily(n, c) == [active |-> TRUE, amt |-> n, cur |-> c, dates |-> {0, 1, 2}]
MCInitial == [t \in Templates |-> IF t = T THEN Daily(1, cop) ELSE NoRow]

Blank == [op |-> "page", tmpl |-> T, plan |-> Daily(1, cop), sends |-> {},
          day |-> 0, acct |-> A, pays |-> 0, key |-> k1, of |-> p1]
Page == Blank
Remove == [Blank EXCEPT !.op = "delete"]
Create(t) == [Blank EXCEPT !.op = "create", !.tmpl = t]
Payment(d, a, n, k) ==
  [Blank EXCEPT !.op = "pay", !.day = d, !.acct = a, !.pays = n, !.key = k]
TakeBack(q) == [Blank EXCEPT !.op = "undo", !.of = q]
Amend(q, n) == [Blank EXCEPT !.op = "amend", !.of = q, !.pays = n]
Revise(sends, n, c, dates) ==
  [Blank EXCEPT !.op = "update", !.sends = sends,
                !.plan = [active |-> TRUE, amt |-> n, cur |-> c, dates |-> dates]]
Dearer == Revise({"amt"}, 2, cop, {})
Foreign == Revise({"cur", "amt"}, 1, usd, {})
Rarer == Revise({"dates", "amt"}, 2, cop, {0, 2})

FixedRequests ==
  p1 :> {Payment(1, A, 0, k1), Dearer, Create(U)}
    @@ p2 :> {Payment(1, A, 0, k2), Payment(2, A, 2, k2), Foreign, Rarer, Remove,
              Amend(p1, 2), Amend(p1, -1)}
    @@ p3 :> {Payment(1, A, 0, k1), Payment(1, B, 0, k2), TakeBack(p1),
              Amend(p2, 1),
              Revise({"dates"}, 1, cop, {0, 1})}
    @@ p4 :> {Page}
=============================================================================
