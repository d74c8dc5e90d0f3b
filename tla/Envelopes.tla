------------------------------ MODULE Envelopes ------------------------------
(***************************************************************************)
(* What saving promises, without requests, locks or caches: money is put   *)
(* aside for a goal in one step, only money that is there; what was put    *)
(* aside lies in an envelope of its own, and an envelope is opened once,   *)
(* which gives its money back to the account it came from.  An operation   *)
(* that carries a key happens at most once, even when its envelope has     *)
(* been opened since.                                                      *)
(***************************************************************************)
EXTENDS Integers

CONSTANTS
  Accounts, Goals, Keys,
  Amounts    \* the sums of money that are put aside

VARIABLES
  money,     \* what each account holds
  held,      \* the envelopes that are not opened
  used       \* the keys that have taken effect

Envelope == [goal : Goals, acct : Accounts, amt : Amounts, key : Keys]

Init == money \in [Accounts -> Nat] /\ held = {} /\ used = {}

Save(e) ==
  /\ e.key \notin used
  /\ money[e.acct] >= e.amt
  /\ money' = [money EXCEPT ![e.acct] = @ - e.amt]
  /\ held' = held \cup {e}
  /\ used' = used \cup {e.key}

GiveBack(e) ==
  /\ e \in held
  /\ money' = [money EXCEPT ![e.acct] = @ + e.amt]
  /\ held' = held \ {e}
  /\ UNCHANGED used

Next == \E e \in Envelope : Save(e) \/ GiveBack(e)

Spec == Init /\ [][Next]_<<money, held, used>>
=============================================================================
