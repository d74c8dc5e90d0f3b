---------------------------- MODULE MCSubmissions ----------------------------
(***************************************************************************)
(* One form of each kind: DepositModal, which can be submitted while it    *)
(* waits, RegisterPaymentModal, and RegisterVariableExpenseModal.          *)
(***************************************************************************)
EXTENDS Submissions, TLC

CONSTANTS deposit, payment, expense, t1, t2, c1, c2

MCPolicy == [f \in Forms |->
  CASE f = deposit -> "submit" [] f = payment -> "opening" [] f = expense -> "kept"]

Symmetry == Permutations({t1, t2}) \cup Permutations({c1, c2})
=============================================================================
