-------------------------------- MODULE Bank --------------------------------
(***************************************************************************)
(* What the ledger promises, without requests, locks, rows or caches: each *)
(* account holds an amount, an operation happens at once or not at all,    *)
(* only money that is there can leave an account that is not a card, and   *)
(* an operation that carries a key happens at most once.                   *)
(***************************************************************************)
EXTENDS Integers

CONSTANTS
  Accounts, Cards,
  Amounts,    \* the sums of money that move: Nat, or the part of it a run meets
  Keys,       \* idempotency keys of the clients
  ServerKey   \* stands for any key of the server's own

VARIABLES
  money,      \* what each account holds; a card in debt holds less than nothing
  used        \* the clients' keys that have taken effect

Init == money \in [Accounts -> Amounts] /\ used = {}

\* An operation with a client's key uses it up; one with a key of the server's
\* own may happen again.
Use(k) ==
  /\ k \in (Keys \ used) \cup {ServerKey}
  /\ used' = used \cup ({k} \cap Keys)

Deposit(a, n, k) ==
  /\ Use(k)
  /\ money' = [money EXCEPT ![a] = @ + n]

Charge(card, n, k) ==
  /\ Use(k)
  /\ money' = [money EXCEPT ![card] = @ - n]

Move(from, to, n, k) ==
  /\ from \notin Cards /\ from # to
  /\ money[from] >= n
  /\ Use(k)
  /\ money' = [money EXCEPT ![from] = @ - n, ![to] = @ + n]

Next ==
  \E n \in Amounts, k \in Keys \cup {ServerKey} :
    \/ \E a \in Accounts : Deposit(a, n, k)
    \/ \E card \in Cards : Charge(card, n, k)
    \/ \E from, to \in Accounts : Move(from, to, n, k)

Spec == Init /\ [][Next]_<<money, used>>
=============================================================================
