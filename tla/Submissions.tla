------------------------------ MODULE Submissions ------------------------------
(***************************************************************************)
(* How what the user enters reaches the ledger: a form (components/), the  *)
(* network, and the action of the server with its rate limit and its       *)
(* idempotency key.                                                        *)
(*                                                                         *)
(* Every time a form is opened is an opening, in which the user wants one  *)
(* thing done to one target; he submits until he is told that it is, or    *)
(* gives up.  A call is lost on its way, or its answer is, or the user     *)
(* sees an error while the server goes on with it.                         *)
(***************************************************************************)
EXTENDS Naturals, Sequences, FiniteSets

CONSTANTS
  Forms, Targets,
  Policy,       \* how long the key of a form lives
  Patient,      \* forms that cannot be submitted while they wait
  Redrawing,    \* forms that begin anew when the page hands them other accounts
  Scoped,       \* forms whose action compares the target of a row with the same key
  Slots,        \* calls that can be under way
  Limit,        \* API_LIMITS
  MaxOpenings, MaxKeys

\* "submit": a key for every submit.  "opening": one for every time the form is opened
\* (it is mounted anew).  "kept": one until a success is confirmed.
Policies == {"submit", "opening", "kept"}

ASSUME SubmissionsAssumption ==
  /\ Policy \in [Forms -> Policies]
  /\ Patient \subseteq Forms /\ Scoped \subseteq Forms
  /\ Redrawing \subseteq {f \in Forms : Policy[f] = "opening"}
  /\ IsFiniteSet(Slots)
  /\ Limit \in Nat \ {0} /\ MaxOpenings \in Nat /\ MaxKeys \in Nat

Openings == 1 .. MaxOpenings
Keys == 1 .. MaxKeys

VARIABLES
  wish,      \* [form, target] of every opening so far
  opening,   \* the opening a form is in, 0 when it is closed
  ref,       \* idempotencyKeyRef.current, 0 when it is null
  waiting,   \* isSubmitting
  calls,
  rows,      \* what is booked: [key, opening, target]
  told,      \* the openings whose user was told of the success
  attempts,  \* rows of apiAttempt within the hour
  drawn,     \* crypto.randomUUID: how many keys were drawn
  redrawn    \* history: the openings in which the form began anew

vars == <<wish, opening, ref, waiting, calls, rows, told, attempts, drawn, redrawn>>
client == <<wish, opening, ref, waiting, told, drawn, redrawn>>

Wish == [form : Forms, target : Targets]
Steps == {"none", "sent", "checked", "booked", "answered", "refused"}
\* lost: the user saw an error, and nobody waits for the answer.
Call == [at : Steps, opening : 0 .. MaxOpenings, key : 0 .. MaxKeys, lost : BOOLEAN]
NoCall == [at |-> "none", opening |-> 0, key |-> 0, lost |-> FALSE]

TypeOK ==
  /\ wish \in Seq(Wish) /\ Len(wish) <= MaxOpenings
  /\ opening \in [Forms -> 0 .. MaxOpenings]
  /\ ref \in [Forms -> 0 .. MaxKeys]
  /\ waiting \in [Forms -> BOOLEAN]
  /\ calls \in [Slots -> Call]
  /\ rows \subseteq [key : Keys, opening : Openings, target : Targets]
  /\ told \subseteq Openings
  /\ attempts \in Nat
  /\ drawn \in 0 .. MaxKeys
  /\ redrawn \subseteq Openings

Init ==
  /\ wish = <<>>
  /\ opening = [f \in Forms |-> 0]
  /\ ref = [f \in Forms |-> 0]
  /\ waiting = [f \in Forms |-> FALSE]
  /\ calls = [c \in Slots |-> NoCall]
  /\ rows = {} /\ told = {} /\ attempts = 0 /\ drawn = 0 /\ redrawn = {}

FormOf(c) == wish[calls[c].opening].form
TargetOf(c) == wish[calls[c].opening].target

To(c, step) == calls' = [calls EXCEPT ![c].at = step]

-----------------------------------------------------------------------------
(* The form.                                                               *)

\* Slip of KeyOnOpening: the form that is mounted anew draws no key.
NoKeyOnOpening(f) == Policy[f] = "kept" /\ ref[f] = 0

\* The key is drawn when the form opens, unless the one at hand is kept.
KeyOnOpening(f) == Policy[f] = "opening" \/ (Policy[f] = "kept" /\ ref[f] = 0)

Open(f, t) ==
  /\ opening[f] = 0
  /\ Len(wish) < MaxOpenings
  /\ wish' = Append(wish, [form |-> f, target |-> t])
  /\ opening' = [opening EXCEPT ![f] = Len(wish')]
  /\ waiting' = [waiting EXCEPT ![f] = FALSE]
  /\ IF KeyOnOpening(f)
     THEN drawn < MaxKeys /\ drawn' = drawn + 1 /\ ref' = [ref EXCEPT ![f] = drawn']
     ELSE UNCHANGED <<drawn, ref>>
  /\ UNCHANGED <<calls, rows, told, attempts, redrawn>>

Close(f) ==
  /\ opening[f] # 0
  /\ opening' = [opening EXCEPT ![f] = 0]
  /\ UNCHANGED <<wish, ref, waiting, calls, rows, told, attempts, drawn, redrawn>>

\* The effect that draws the key depends on the accounts too.  The close of a dialog asks
\* for the page again (refreshOnce), and the page, with another array of accounts, may
\* come when the next opening has a call under way.
Refresh(f) ==
  /\ f \in Redrawing /\ opening[f] # 0
  /\ \E o \in DOMAIN wish : o < opening[f] /\ wish[o].form = f
  /\ drawn < MaxKeys /\ drawn' = drawn + 1
  /\ ref' = [ref EXCEPT ![f] = drawn']
  /\ waiting' = [waiting EXCEPT ![f] = FALSE]
  /\ redrawn' = redrawn \cup {opening[f]}
  /\ UNCHANGED <<wish, opening, calls, rows, told, attempts>>

\* Slip of KeyOnSubmit: every submit draws a key.
KeyOnEverySubmit(f) == TRUE

KeyOnSubmit(f) == Policy[f] = "submit" \/ ref[f] = 0

Submit(f, c) ==
  /\ opening[f] # 0
  /\ f \in Patient => ~waiting[f]
  /\ calls[c].at = "none"
  /\ waiting' = [waiting EXCEPT ![f] = TRUE]
  /\ IF KeyOnSubmit(f) THEN drawn < MaxKeys /\ drawn' = drawn + 1 ELSE UNCHANGED drawn
  /\ ref' = [ref EXCEPT ![f] = IF Policy[f] = "submit" \/ ~KeyOnSubmit(f) THEN @ ELSE drawn']
  /\ calls' = [calls EXCEPT ![c] =
       [at |-> "sent", opening |-> opening[f],
        key |-> IF KeyOnSubmit(f) THEN drawn' ELSE ref[f], lost |-> FALSE]]
  /\ UNCHANGED <<wish, opening, rows, told, attempts, redrawn>>

\* A form that is mounted anew does not hear of what it submitted before.
Hears(f, c) == Policy[f] # "opening" \/ opening[f] = calls[c].opening

\* A success closes the form, whatever it is open for by now.
Confirmed(c) ==
  LET f == FormOf(c) IN
  /\ calls[c].at = "answered" /\ ~calls[c].lost
  /\ told' = told \cup {calls[c].opening}
  /\ opening' = [opening EXCEPT ![f] = 0]
  /\ IF Hears(f, c)
     THEN ref' = [ref EXCEPT ![f] = 0] /\ waiting' = [waiting EXCEPT ![f] = FALSE]
     ELSE UNCHANGED <<ref, waiting>>
  /\ calls' = [calls EXCEPT ![c] = NoCall]
  /\ UNCHANGED <<wish, rows, attempts, drawn, redrawn>>

\* The user sees an error: the server refused, the call or its answer was lost, or the
\* connection broke while the server works on it still.
Failed(c) ==
  LET f == FormOf(c) IN
  /\ calls[c].at # "none" /\ ~calls[c].lost
  /\ IF Hears(f, c) THEN waiting' = [waiting EXCEPT ![f] = FALSE] ELSE UNCHANGED waiting
  /\ \/ /\ calls[c].at \in {"sent", "refused", "answered"}
        /\ calls' = [calls EXCEPT ![c] = NoCall]
     \/ /\ calls[c].at \in {"sent", "checked", "booked"}
        /\ calls' = [calls EXCEPT ![c].lost = TRUE]
  /\ UNCHANGED <<wish, opening, ref, rows, told, attempts, drawn, redrawn>>

\* An answer that nobody waits for.
Unheard(c) ==
  /\ calls[c].lost /\ calls[c].at \in {"refused", "answered"}
  /\ calls' = [calls EXCEPT ![c] = NoCall]
  /\ UNCHANGED <<client, rows, attempts>>

-----------------------------------------------------------------------------
(* The server.                                                             *)

\* Slip of WithinLimit: no attempt is counted.
NotLimited == TRUE

WithinLimit == attempts < Limit

\* checkApiRateLimit
CheckLimit(c) ==
  /\ calls[c].at = "sent"
  /\ To(c, IF WithinLimit THEN "checked" ELSE "refused")
  /\ UNCHANGED <<client, rows, attempts>>

SameKey(c) == {r \in rows : r.key = calls[c].key}

\* The transaction of the action: a key that is booked already answers with its row.
Book(c) ==
  /\ calls[c].at = "checked"
  /\ SameKey(c) = {}
  /\ rows' = rows \cup {[key |-> calls[c].key, opening |-> calls[c].opening, target |-> TargetOf(c)]}
  /\ To(c, "booked")
  /\ UNCHANGED <<client, attempts>>

AnswerAgain(c) ==
  /\ calls[c].at = "checked"
  /\ SameKey(c) # {}
  /\ To(c, IF FormOf(c) \notin Scoped THEN "answered"
           ELSE IF \E r \in SameKey(c) : r.target = TargetOf(c) THEN "booked" ELSE "refused")
  /\ UNCHANGED <<client, rows, attempts>>

\* What the user asks for is not possible: nothing is booked.
Refuse(c) ==
  /\ calls[c].at = "checked"
  /\ To(c, "refused")
  /\ UNCHANGED <<client, rows, attempts>>

\* recordApiAttempt: only a success is recorded, and the action succeeds without it.
Record(c) ==
  /\ calls[c].at = "booked"
  /\ attempts' \in {attempts, attempts + 1}
  /\ To(c, "answered")
  /\ UNCHANGED <<client, rows>>

\* The window of an hour moves on.
Age ==
  /\ attempts > 0
  /\ attempts' = attempts - 1
  /\ UNCHANGED <<client, calls, rows>>

Next ==
  \/ \E f \in Forms :
       \/ (\E t \in Targets : Open(f, t)) \/ Close(f) \/ Refresh(f)
       \/ \E c \in Slots : Submit(f, c)
  \/ \E c \in Slots :
       \/ Confirmed(c) \/ Failed(c) \/ Unheard(c)
       \/ CheckLimit(c) \/ Book(c) \/ AnswerAgain(c) \/ Refuse(c) \/ Record(c)
  \/ Age

Spec == Init /\ [][Next]_vars

-----------------------------------------------------------------------------
(* Properties.                                                             *)

\* What a user wants once is booked at most once, however often he submits, where the
\* key outlives the submit and the form did not begin anew while it was open.
OncePerOpening ==
  \A r, s \in rows :
    /\ r.opening = s.opening /\ r.opening \notin redrawn
    /\ Policy[wish[r.opening].form] # "submit"
    => r = s

\* "Fresh idempotency key per opening; retries inside the same opening reuse it."
\* (RegisterPaymentModal.tsx:74).  It does not hold.
RetriesReuseKey ==
  \A r, s \in rows :
    r.opening = s.opening /\ Policy[wish[r.opening].form] = "opening" => r.key = s.key

\* Who is told of a success has booked it in this opening, not in an earlier one, where
\* the key does not outlive the opening.
ToldIsBooked ==
  \A o \in told : Policy[wish[o].form] # "kept" => \E r \in rows : r.opening = o

Passed == {c \in Slots : calls[c].at \in {"checked", "booked"}}

\* The limit is read before and counted after the action: requests that overlap get past
\* it together, but no more of them than can be under way.
LimitHolds == attempts + Cardinality(Passed) < Limit + Cardinality(Slots)
=============================================================================
