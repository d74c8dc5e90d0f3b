-------------------------------- MODULE Bills --------------------------------
(***************************************************************************)
(* What paying a fixed expense promises, without templates, calendars,     *)
(* requests or locks: a bill is settled at most once and by at most one    *)
(* operation of a key, with money that is there; what was paid may be      *)
(* corrected, and a settlement may be taken back once, which returns its   *)
(* money but does not make the bill open again.                            *)
(***************************************************************************)
EXTENDS Integers

CONSTANTS Accounts, Due, Keys,
          Amounts      \* the sums that are paid: Nat, or the part of it a run meets

VARIABLES money,       \* what each account holds
          settled,     \* the settlements ever made
          returned     \* the bills whose settlement was taken back

Settlement == [bill : Due, acct : Accounts, amt : Amounts, key : Keys]

Init == money \in [Accounts -> Nat] /\ settled = {} /\ returned = {}

Settle(s) ==
  /\ \A t \in settled : t.bill # s.bill /\ t.key # s.key
  /\ money[s.acct] >= s.amt
  /\ money' = [money EXCEPT ![s.acct] = @ - s.amt]
  /\ settled' = settled \cup {s}
  /\ UNCHANGED returned

Return(s) ==
  /\ s \in settled /\ s.bill \notin returned
  /\ money' = [money EXCEPT ![s.acct] = @ + s.amt]
  /\ returned' = returned \cup {s.bill}
  /\ UNCHANGED settled

\* The check of the funds of a correction is one that a payment may overtake:
\* nothing is promised about the money here.
Amend(s, n) ==
  /\ s \in settled
  /\ settled' = (settled \ {s}) \cup {[s EXCEPT !.amt = n]}
  /\ money' = [money EXCEPT ![s.acct] = IF s.bill \in returned THEN @ ELSE @ + s.amt - n]
  /\ UNCHANGED returned

Next == \E s \in Settlement :
          Settle(s) \/ Return(s) \/ \E n \in Amounts : Amend(s, n)

Spec == Init /\ [][Next]_<<money, settled, returned>>
=============================================================================
