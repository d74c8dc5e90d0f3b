------------------------------- MODULE MCLoans -------------------------------
(***************************************************************************)
(* Loans on small instances: a principal of 4 over two or three periods at *)
(* a quarter of the debt each, and one account.                            *)
(***************************************************************************)
EXTENDS Loans, TLC

CONSTANTS A, p1, p2, p3, p4, k0, k1, k2

MCOpening == [a \in Accounts |-> 4]

Terms(payable, term) ==
  [payable |-> payable, principal |-> 4, style |-> "FRENCH", mode |-> "TERM",
   term |-> term, io |-> 0, rate |-> 1, fixed |-> 0, totals |-> NoTotals]

\* Three installments in another style; the first of a custom loan is given.
Styled(style) ==
  [Terms(TRUE, 3) EXCEPT !.style = style,
                         !.totals[1] = IF style = "CUSTOM" THEN 3 ELSE 0]
\* As many installments of this size as it takes.
Sized(fixed) == [Terms(TRUE, 1) EXCEPT !.mode = "INSTALLMENT", !.fixed = fixed]
Blank == [op |-> "reconcile", contract |-> Terms(TRUE, 2), n |-> 1, amt |-> 0, to |-> 0,
          status |-> "ACTIVE", acct |-> NoAccount, key |-> k0]

Borrow(contract) == [Blank EXCEPT !.op = "create", !.contract = contract]
Create(payable, term, a) == [Borrow(Terms(payable, term)) EXCEPT !.acct = a]
PayRow(n, amt, k) == [Blank EXCEPT !.op = "pay", !.n = n, !.amt = amt, !.acct = A, !.key = k]
Move(op, amt, a, k) == [Blank EXCEPT !.op = op, !.amt = amt, !.acct = a, !.key = k]
Change(op, to, k) == [Blank EXCEPT !.op = op, !.to = to, !.key = k]
Custom(n, amt, k) == [Blank EXCEPT !.op = "custom", !.n = n, !.amt = amt, !.key = k]
Remove == [Blank EXCEPT !.op = "delete"]
Mark(s) == [Blank EXCEPT !.op = "update", !.status = s]
Reconcile == Blank

LoanRequests ==
  p1 :> ({Create(TRUE, 3, NoAccount), Create(FALSE, 2, A)}
           \cup {Borrow(Styled(s)) : s \in {"GERMAN", "AMERICAN", "CUSTOM"}}
           \cup {Borrow(Sized(f)) : f \in {3, 6}})
    @@ p2 :> {PayRow(1, 0, k1), PayRow(2, 1, k2), Move("extra", 2, NoAccount, k1),
              Change("reschedule", 2, k2), Remove, Create(TRUE, 2, A)}
    @@ p3 :> {PayRow(1, 1, k2), PayRow(1, 0, k1), Move("disburse", 2, A, k2),
              Change("rate", 2, k1), Custom(2, 1, k2), Mark("COMPLETED")}
    @@ p4 :> {Reconcile, Move("extra", 4, NoAccount, k0), Move("extra", 3, NoAccount, k0),
              Change("reschedule", 3, k2), Change("interestOnly", 1, k1)}
=============================================================================
