--------------------------------- MODULE Debt ---------------------------------
(***************************************************************************)
(* What a loan promises, without schedules, caches, requests or locks: the *)
(* principal is lent once; more is lent and some is repaid, once for each  *)
(* key; an extra payment never exceeds what is owed; a loan that is closed *)
(* takes no more installments, though what else was under way may arrive.  *)
(***************************************************************************)
EXTENDS Integers

CONSTANTS Keys,
          Amounts   \* the sums that are lent and paid: Nat, or the part of it a run meets

VARIABLES state,    \* "none", "open" or "closed"
          lent, repaid,
          used      \* what was already done, by kind and key

Init == state = "none" /\ lent = 0 /\ repaid = 0 /\ used = {}

Once(kind, k) ==
  /\ <<kind, k>> \notin used
  /\ used' = used \cup {<<kind, k>>}

Open(a) ==
  /\ state = "none"
  /\ state' = "open" /\ lent' = a
  /\ UNCHANGED <<repaid, used>>

LendMore(a, k) ==
  /\ state # "none"
  /\ Once("adjustment", k)
  /\ lent' = lent + a
  /\ UNCHANGED <<state, repaid>>

\* An installment is paid; a is the principal in it.
Repay(a, k) ==
  /\ state = "open"
  /\ Once("payment", k)
  /\ repaid' = repaid + a
  /\ UNCHANGED <<state, lent>>

Prepay(a, k) ==
  /\ state # "none" /\ a <= lent - repaid
  /\ Once("adjustment", k)
  /\ repaid' = repaid + a
  /\ UNCHANGED <<state, lent>>

\* The schedule or the rate changes, not the debt.
Rearrange(k) ==
  /\ state # "none"
  /\ Once("adjustment", k)
  /\ UNCHANGED <<state, lent, repaid>>

Close == state = "open" /\ state' = "closed" /\ UNCHANGED <<lent, repaid, used>>

Next ==
  \/ \E a \in Amounts : Open(a)
  \/ \E a \in Amounts, k \in Keys : LendMore(a, k) \/ Repay(a, k) \/ Prepay(a, k)
  \/ \E k \in Keys : Rearrange(k)
  \/ Close

Spec == Init /\ [][Next]_<<state, lent, repaid, used>>
=============================================================================
