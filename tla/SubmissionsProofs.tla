-------------------------- MODULE SubmissionsProofs --------------------------
(***************************************************************************)
(* Theorems about submissions, for every set of forms, targets and slots,  *)
(* every policy and every limit: what is wanted once is booked once, who   *)
(* is told of a success has it booked, and how far the limit is overrun.   *)
(***************************************************************************)
EXTENDS Submissions, FiniteSetTheorems, TLAPS

Active(c) == calls[c].at # "none"

\* Key k is sent or booked for opening o.
Use(o, k) ==
  \/ \E c \in Slots : Active(c) /\ calls[c].opening = o /\ calls[c].key = k
  \/ \E r \in rows : r.opening = o /\ r.key = k

PolicyOf(o) == Policy[wish[o].form]

Placed == \A f \in Forms : opening[f] # 0 => opening[f] \in DOMAIN wish /\ wish[opening[f]].form = f

UsesDrawn == \A o, k : Use(o, k) => o \in DOMAIN wish /\ k \in 1 .. drawn

\* No two forms hold the same key, and none that draws one for every submit holds any.
RefsApart ==
  /\ \A f \in Forms : ref[f] <= drawn /\ (Policy[f] = "submit" => ref[f] = 0)
  /\ \A f, g \in Forms : ref[f] = ref[g] /\ ref[f] # 0 => f = g

\* The key of the opening outlives the submit, and the form did not begin anew in it.
Lasting(o) == PolicyOf(o) # "submit" /\ o \notin redrawn

\* A lasting opening uses one key, the one its form holds.
OneKey ==
  /\ \A o, j, k : Use(o, j) /\ Use(o, k) /\ Lasting(o) => j = k
  /\ \A f \in Forms, k \in Nat :
       Use(opening[f], k) /\ Policy[f] # "submit" /\ opening[f] \notin redrawn => ref[f] = k

\* A key that is not kept is used by one opening; a key that a form holds, by that form.
OwnKey ==
  /\ \A o, p, k : Use(o, k) /\ Use(p, k) /\ PolicyOf(o) # "kept" => o = p
  /\ \A f \in Forms, o \in Openings : Use(o, ref[f]) =>
       wish[o].form = f /\ (Policy[f] = "opening" /\ opening[f] # 0 => o = opening[f])

Keyed == Placed /\ UsesDrawn /\ RefsApart /\ OneKey /\ OwnKey

RowPerKey == \A r, s \in rows : r.key = s.key => r = s

\* A call that is through has its row.
Backed ==
  \A c \in Slots : calls[c].at \in {"booked", "answered"} /\ PolicyOf(calls[c].opening) # "kept" =>
    \E r \in rows : r.opening = calls[c].opening

Told == told \subseteq DOMAIN wish /\ ToldIsBooked

\* The inductive invariant.
OwnWork == TypeOK /\ Keyed /\ RowPerKey /\ Backed /\ Told

-----------------------------------------------------------------------------
(* Steps that use no new key.                                              *)

LEMMA KeyedStays ==
  ASSUME TypeOK, Keyed, UNCHANGED <<wish, drawn, redrawn>>,
         \A o, k : Use(o, k)' => Use(o, k),
         \A f \in Forms : /\ opening'[f] \in {0, opening[f]} /\ ref'[f] \in {0, ref[f]}
                          /\ opening'[f] # 0 => ref'[f] = ref[f]
  PROVE  Keyed'
<1>1. Placed'
  BY DEF Keyed, Placed
<1>2. UsesDrawn'
  BY DEF Keyed, UsesDrawn
<1>3. RefsApart'
  BY DEF Keyed, RefsApart, TypeOK
<1>4. \A k : ~Use(0, k)
  BY DEF Keyed, UsesDrawn, TypeOK
<1>5. OneKey'
  BY <1>4 DEF Keyed, OneKey, Lasting, PolicyOf
<1>6. \A o : ~Use(o, 0)
  BY DEF Keyed, UsesDrawn
<1>7. OwnKey'
  BY <1>6 DEF Keyed, OwnKey, PolicyOf
<1> QED
  BY <1>1, <1>2, <1>3, <1>5, <1>7 DEF Keyed

\* What a step of a call leaves: the calls that are not over are what they were.
Stepped ==
  \A c \in Slots : calls'[c].at # "none" =>
    /\ Active(c) /\ calls'[c].opening = calls[c].opening /\ calls'[c].key = calls[c].key
    /\ calls'[c].at \in {"booked", "answered"} =>
         \/ calls[c].at \in {"booked", "answered"}
         \/ PolicyOf(calls[c].opening) = "kept"
         \/ \E r \in rows' : r.opening = calls[c].opening

LEMMA UsesStay == ASSUME Stepped, rows' = rows PROVE \A o, k : Use(o, k)' => Use(o, k)
BY DEF Stepped, Use, Active

LEMMA BackedStays ==
  ASSUME Backed, Stepped, rows \subseteq rows', UNCHANGED wish PROVE Backed'
BY DEF Backed, Stepped, PolicyOf

-----------------------------------------------------------------------------
(* The form.                                                               *)

LEMMA OwnByOpen ==
  ASSUME OwnWork, NEW f \in Forms, NEW t \in Targets, Open(f, t) PROVE OwnWork'
<1> DEFINE o == Len(wish) + 1
<1>0. TypeOK /\ Keyed /\ Placed /\ UsesDrawn /\ RefsApart /\ OneKey /\ OwnKey
  BY DEF OwnWork, Keyed
<1>1. /\ Len(wish) \in Nat /\ DOMAIN wish = 1 .. Len(wish)
      /\ wish' \in Seq(Wish) /\ Len(wish') = o /\ DOMAIN wish' = 1 .. o
      /\ wish'[o] = [form |-> f, target |-> t]
      /\ \A n \in DOMAIN wish : wish'[n] = wish[n]
  BY <1>0 DEF TypeOK, Open, Wish
<1>2. TypeOK'
  <2>1. drawn' \in 0 .. MaxKeys /\ ref' \in [Forms -> 0 .. MaxKeys]
    <3>1. CASE KeyOnOpening(f)
      <4>1. drawn' \in 0 .. MaxKeys /\ ref' = [ref EXCEPT ![f] = drawn']
        BY <1>0, <3>1, SubmissionsAssumption DEF TypeOK, Open
      <4> QED
        BY <1>0, <4>1 DEF TypeOK
    <3>2. CASE ~KeyOnOpening(f)
      BY <1>0, <3>2 DEF TypeOK, Open
    <3> QED
      BY <3>1, <3>2
  <2>2. opening' \in [Forms -> 0 .. MaxOpenings] /\ Len(wish') <= MaxOpenings
    BY <1>0, <1>1, SubmissionsAssumption DEF TypeOK, Open
  <2> QED
    BY <1>0, <1>1, <2>1, <2>2 DEF TypeOK, Open
<1>3. \A p, k : Use(p, k)' <=> Use(p, k)
  BY DEF Open, Use, Active
<1>4. \A p, k : Use(p, k) => p \in DOMAIN wish /\ p # o /\ k \in 1 .. drawn /\ k # drawn + 1
  BY <1>0, <1>1 DEF UsesDrawn, TypeOK
<1>5. \A p, k : Use(p, k) => PolicyOf(p)' = PolicyOf(p)
  BY <1>1, <1>4 DEF PolicyOf
<1>6. Placed'
  BY <1>0, <1>1 DEF Placed, Open, TypeOK
<1>7. UsesDrawn'
  BY <1>0, <1>1, <1>3 DEF UsesDrawn, Open, TypeOK
<1>8. RefsApart'
  BY <1>0 DEF RefsApart, Open, TypeOK, KeyOnOpening
<1>9. OneKey'
  <2>1. \A p, j, k : (Use(p, j) /\ Use(p, k) /\ Lasting(p))' => j = k
    BY <1>0, <1>3, <1>5 DEF OneKey, Lasting, Open
  <2>2. ASSUME NEW g \in Forms, NEW k \in Nat, Use(opening[g], k)', Policy[g] # "submit",
               opening'[g] \notin redrawn'
        PROVE  ref'[g] = k
    <3>1. Use(opening'[g], k)
      BY <1>3, <2>2
    <3>2. g # f
      BY <1>0, <1>1, <1>4, <3>1 DEF Open, TypeOK
    <3> QED
      BY <1>0, <2>2, <3>1, <3>2 DEF OneKey, Open, TypeOK
  <2> QED
    BY <2>1, <2>2 DEF OneKey
<1>10. OwnKey'
  <2>1. \A p, q, k : (Use(p, k) /\ Use(q, k) /\ PolicyOf(p) # "kept")' => p = q
    BY <1>0, <1>3, <1>5 DEF OwnKey
  <2>2. ASSUME NEW g \in Forms, NEW p \in Openings, Use(p, ref[g])'
        PROVE  wish'[p].form = g /\ (Policy[g] = "opening" /\ opening'[g] # 0 => p = opening'[g])
    <3>1. Use(p, ref'[g])
      BY <1>3, <2>2
    <3>2. ref'[g] = ref[g] /\ ~(g = f /\ KeyOnOpening(f))
      BY <1>0, <1>4, <3>1 DEF Open, TypeOK
    <3>3. wish'[p].form = g
      BY <1>0, <1>1, <1>4, <3>1, <3>2 DEF OwnKey
    <3>4. Policy[g] = "opening" => g # f
      BY <3>2 DEF KeyOnOpening
    <3> QED
      BY <1>0, <3>1, <3>2, <3>3, <3>4 DEF OwnKey, Open, TypeOK
  <2> QED
    BY <2>1, <2>2 DEF OwnKey
<1>11. RowPerKey'
  BY DEF OwnWork, RowPerKey, Open
<1>12. Backed'
  <2> SUFFICES ASSUME NEW c \in Slots, calls[c].at \in {"booked", "answered"},
                      PolicyOf(calls[c].opening)' # "kept"
               PROVE  \E r \in rows : r.opening = calls[c].opening
    BY DEF Backed, Open, PolicyOf
  <2>1. Use(calls[c].opening, calls[c].key)
    BY DEF Use, Active
  <2>2. PolicyOf(calls[c].opening) # "kept"
    BY <1>5, <2>1 DEF PolicyOf, Open
  <2> QED
    BY <2>2 DEF OwnWork, Backed
<1>13. Told'
  BY <1>1 DEF OwnWork, Told, ToldIsBooked, Open
<1> QED
  BY <1>2, <1>6, <1>7, <1>8, <1>9, <1>10, <1>11, <1>12, <1>13 DEF OwnWork, Keyed

LEMMA OwnByClose ==
  ASSUME OwnWork, NEW f \in Forms, Close(f) PROVE OwnWork'
<1>1. TypeOK'
  BY SubmissionsAssumption DEF OwnWork, TypeOK, Close
<1>2. \A o, k : Use(o, k)' => Use(o, k)
  BY DEF Close, Use, Active
<1>3. \A g \in Forms : opening'[g] \in {0, opening[g]}
  BY DEF OwnWork, TypeOK, Close
<1>4. Keyed'
  BY <1>2, <1>3, KeyedStays DEF OwnWork, Close
<1> QED
  BY <1>1, <1>4 DEF OwnWork, RowPerKey, Backed, Told, ToldIsBooked, PolicyOf, Close

LEMMA OwnByRefresh ==
  ASSUME OwnWork, NEW f \in Forms, Refresh(f) PROVE OwnWork'
<1>0. TypeOK /\ Keyed /\ Placed /\ UsesDrawn /\ RefsApart /\ OneKey /\ OwnKey
  BY DEF OwnWork, Keyed
<1>1. /\ drawn \in 0 .. MaxKeys /\ drawn < MaxKeys /\ drawn' = drawn + 1
      /\ ref' = [ref EXCEPT ![f] = drawn'] /\ redrawn' = redrawn \cup {opening[f]}
      /\ UNCHANGED <<wish, opening, calls, rows, told, attempts>>
  BY <1>0 DEF Refresh, TypeOK
<1>2. Policy[f] = "opening" /\ opening[f] \in Openings
  BY <1>0, SubmissionsAssumption DEF Refresh, TypeOK, Openings
<1>3. TypeOK'
  <2>1. drawn' \in 0 .. MaxKeys
    BY <1>1, SubmissionsAssumption
  <2> QED
    BY <1>0, <1>1, <1>2, <2>1 DEF TypeOK, Refresh
<1>4. \A o, k : Use(o, k)' <=> Use(o, k)
  BY <1>1 DEF Use, Active
<1>5. \A o, k : Use(o, k) => k \in 1 .. drawn /\ k # drawn'
  BY <1>0, <1>1 DEF UsesDrawn
<1>6. Placed' /\ UsesDrawn'
  BY <1>0, <1>1, <1>4 DEF Placed, UsesDrawn
<1>7. RefsApart'
  BY <1>0, <1>1, <1>2 DEF RefsApart, TypeOK
<1>8. OneKey'
  <2>1. \A o, j, k : (Use(o, j) /\ Use(o, k) /\ Lasting(o))' => j = k
    BY <1>0, <1>1, <1>4 DEF OneKey, Lasting, PolicyOf
  <2>2. ASSUME NEW g \in Forms, NEW k \in Nat, Use(opening[g], k)', Policy[g] # "submit",
               opening'[g] \notin redrawn'
        PROVE  ref'[g] = k
    BY <1>0, <1>1, <1>4, <2>2 DEF OneKey, TypeOK
  <2> QED
    BY <2>1, <2>2 DEF OneKey
<1>9. OwnKey'
  <2>1. \A p, q, k : (Use(p, k) /\ Use(q, k) /\ PolicyOf(p) # "kept")' => p = q
    BY <1>0, <1>1, <1>4 DEF OwnKey, PolicyOf
  <2>2. ASSUME NEW g \in Forms, NEW o \in Openings, Use(o, ref[g])'
        PROVE  wish[o].form = g /\ (Policy[g] = "opening" /\ opening[g] # 0 => o = opening[g])
    <3>1. g # f /\ ref'[g] = ref[g]
      BY <1>0, <1>1, <1>4, <1>5, <2>2 DEF TypeOK
    <3> QED
      BY <1>0, <1>4, <2>2, <3>1 DEF OwnKey
  <2> QED
    BY <1>1, <2>1, <2>2 DEF OwnKey
<1> QED
  BY <1>1, <1>3, <1>6, <1>7, <1>8, <1>9
     DEF OwnWork, Keyed, RowPerKey, Backed, Told, ToldIsBooked, PolicyOf

LEMMA OwnBySubmit ==
  ASSUME OwnWork, NEW f \in Forms, NEW c \in Slots, Submit(f, c) PROVE OwnWork'
<1> DEFINE o == opening[f]
           k == calls'[c].key
<1>0. TypeOK /\ Keyed /\ Placed /\ UsesDrawn /\ RefsApart /\ OneKey /\ OwnKey
  BY DEF OwnWork, Keyed
<1>1. o # 0 /\ o \in DOMAIN wish /\ o \in Openings /\ wish[o].form = f /\ ~Active(c)
  BY <1>0, SubmissionsAssumption DEF Placed, Submit, Active, TypeOK, Openings
<1>2. /\ calls' = [calls EXCEPT ![c] = [at |-> "sent", opening |-> o, key |-> k, lost |-> FALSE]]
      /\ drawn \in 0 .. MaxKeys /\ ref[f] \in 0 .. MaxKeys
      /\ \/ KeyOnSubmit(f) /\ drawn < MaxKeys /\ drawn' = drawn + 1 /\ k = drawn'
         \/ ~KeyOnSubmit(f) /\ drawn' = drawn /\ k = ref[f] /\ ref[f] # 0 /\ Policy[f] # "submit"
  BY <1>0 DEF Submit, TypeOK, Call, KeyOnSubmit
<1>3. ref' = [ref EXCEPT ![f] = IF Policy[f] = "submit" THEN 0 ELSE k]
  <2>1. Policy[f] = "submit" => ref[f] = 0 /\ KeyOnSubmit(f)
    BY <1>0 DEF RefsApart, KeyOnSubmit
  <2> QED
    BY <1>0, <1>2, <2>1 DEF Submit, TypeOK
<1>4. k \in Keys /\ k \in 1 .. drawn'
  BY <1>0, <1>2, SubmissionsAssumption DEF RefsApart, Keys
<1>5. TypeOK'
  <2>1. calls' \in [Slots -> Call]
    <3>1. [at |-> "sent", opening |-> o, key |-> k, lost |-> FALSE] \in Call
      BY <1>1, <1>4, SubmissionsAssumption DEF Call, Steps, Openings, Keys
    <3> QED
      BY <1>0, <1>2, <3>1 DEF TypeOK
  <2>2. ref' \in [Forms -> 0 .. MaxKeys] /\ drawn' \in 0 .. MaxKeys
    BY <1>0, <1>2, <1>3, <1>4, SubmissionsAssumption DEF TypeOK, Keys
  <2> QED
    BY <1>0, <2>1, <2>2 DEF TypeOK, Submit
<1>6. \A p, j : Use(p, j)' <=> Use(p, j) \/ (p = o /\ j = k)
  <2>1. calls'[c] = [at |-> "sent", opening |-> o, key |-> k, lost |-> FALSE]
        /\ \A d \in Slots \ {c} : calls'[d] = calls[d]
    BY <1>0, <1>2 DEF TypeOK
  <2> QED
    BY <1>1, <2>1 DEF Use, Active, Submit
<1>7. \A p, j : Use(p, j) => p \in DOMAIN wish /\ j \in 1 .. drawn
  BY <1>0 DEF UsesDrawn
<1>8. UNCHANGED <<wish, opening, rows, told, redrawn>>
  BY DEF Submit
<1>9. Placed' /\ UsesDrawn'
  BY <1>0, <1>1, <1>2, <1>4, <1>6, <1>7, <1>8 DEF Placed, UsesDrawn
<1>10. RefsApart'
  BY <1>0, <1>2, <1>3 DEF RefsApart, TypeOK
\* The key is new, or this opening's alone.
<1>11. \A p : Use(p, k) =>
          ~KeyOnSubmit(f) /\ wish[p].form = f /\ (Policy[f] = "opening" => p = o)
  <2> SUFFICES ASSUME NEW p, Use(p, k)
               PROVE  ~KeyOnSubmit(f) /\ wish[p].form = f /\ (Policy[f] = "opening" => p = o)
    OBVIOUS
  <2>1. ~KeyOnSubmit(f) /\ k = ref[f]
    BY <1>2, <1>7
  <2>2. p \in Openings
    <3>1. DOMAIN wish = 1 .. Len(wish) /\ Len(wish) \in Nat /\ Len(wish) <= MaxOpenings
      BY <1>0 DEF TypeOK
    <3>2. p \in DOMAIN wish
      BY <1>7
    <3> QED
      BY <3>1, <3>2, SubmissionsAssumption DEF Openings
  <2> QED
    BY <1>0, <1>1, <2>1, <2>2 DEF OwnKey
<1>12. \A j : Use(o, j) /\ Policy[f] # "submit" /\ o \notin redrawn => j = k
  <2> SUFFICES ASSUME NEW j, Use(o, j), Policy[f] # "submit", o \notin redrawn PROVE j = k
    OBVIOUS
  <2>1. j \in Nat /\ j # 0
    BY <1>7
  <2>2. ref[f] = j
    BY <1>0, <2>1 DEF OneKey
  <2> QED
    BY <1>2, <2>1, <2>2 DEF KeyOnSubmit
<1>13. OneKey'
  <2>1. \A p, i, j : (Use(p, i) /\ Use(p, j) /\ Lasting(p))' => i = j
    BY <1>0, <1>1, <1>6, <1>8, <1>12 DEF OneKey, Lasting, PolicyOf
  <2>2. ASSUME NEW g \in Forms, NEW j \in Nat, Use(opening[g], j)', Policy[g] # "submit",
               opening'[g] \notin redrawn'
        PROVE  ref'[g] = j
    <3>1. Use(opening[g], j) \/ (opening[g] = o /\ j = k)
      BY <1>6, <1>8, <2>2
    <3>2. CASE g = f
      BY <1>0, <1>3, <1>8, <1>12, <2>2, <3>1, <3>2 DEF TypeOK
    <3>3. CASE g # f
      <4>1. opening[g] # o
        BY <1>0, <1>1, <3>3 DEF Placed
      <4> QED
        BY <1>0, <1>3, <1>8, <2>2, <3>1, <3>3, <4>1 DEF OneKey, TypeOK
    <3> QED
      BY <3>2, <3>3
  <2> QED
    BY <2>1, <2>2 DEF OneKey
<1>14. OwnKey'
  <2>1. \A p, q, j : (Use(p, j) /\ Use(q, j) /\ PolicyOf(p) # "kept")' => p = q
    <3> SUFFICES ASSUME NEW p, NEW q, NEW j, Use(p, j)', Use(q, j)', PolicyOf(p) # "kept"
                 PROVE  p = q
      BY <1>8 DEF PolicyOf
    <3>1. CASE Use(p, j) /\ Use(q, j)
      BY <1>0, <3>1 DEF OwnKey
    <3>2. CASE j = k /\ (p = o \/ q = o)
      <4>1. \A r : Use(r, k) /\ PolicyOf(r) # "kept" => r = o
        BY <1>11, SubmissionsAssumption DEF PolicyOf, KeyOnSubmit, Policies
      <4>2. \A r : Use(r, k) /\ PolicyOf(o) # "kept" => r = o
        BY <1>1, <1>11, SubmissionsAssumption DEF PolicyOf, KeyOnSubmit, Policies
      <4> QED
        BY <1>6, <3>2, <4>1, <4>2
    <3> QED
      BY <1>6, <3>1, <3>2
  <2>2. ASSUME NEW g \in Forms, NEW p \in Openings, Use(p, ref[g])'
        PROVE  wish[p].form = g /\ (Policy[g] = "opening" /\ opening[g] # 0 => p = opening[g])
    <3>1. CASE g = f
      <4>1. ref'[f] # 0
        BY <1>4, <1>6, <1>7, <2>2, <3>1
      <4>2. ref'[f] = k
        BY <1>0, <1>3, <4>1 DEF TypeOK
      <4> QED
        BY <1>1, <1>6, <1>11, <2>2, <3>1, <4>2
    <3>2. CASE g # f
      <4>1. ref'[g] = ref[g] /\ ref[g] # k
        BY <1>0, <1>2, <1>3, <3>2 DEF RefsApart, TypeOK
      <4> QED
        BY <1>0, <1>6, <2>2, <4>1 DEF OwnKey
    <3> QED
      BY <3>1, <3>2
  <2> QED
    BY <1>8, <2>1, <2>2 DEF OwnKey
<1>15. RowPerKey' /\ Told'
  BY <1>8 DEF OwnWork, RowPerKey, Told, ToldIsBooked
<1>16. Backed'
  <2>1. calls'[c].at = "sent" /\ \A d \in Slots \ {c} : calls'[d] = calls[d]
    BY <1>0, <1>2 DEF TypeOK
  <2> QED
    BY <1>8, <2>1 DEF OwnWork, Backed, PolicyOf
<1> QED
  BY <1>5, <1>9, <1>10, <1>13, <1>14, <1>15, <1>16 DEF OwnWork, Keyed

\* The form of a call, and what is known of it.
LEMMA CallKnown ==
  ASSUME OwnWork, NEW c \in Slots, Active(c)
  PROVE  /\ calls[c].opening \in DOMAIN wish /\ calls[c].opening \in Openings
         /\ calls[c].key \in Keys /\ FormOf(c) \in Forms /\ TargetOf(c) \in Targets
         /\ wish[calls[c].opening].form = FormOf(c)
         /\ Use(calls[c].opening, calls[c].key)
<1>1. Use(calls[c].opening, calls[c].key)
  BY DEF Use
<1>2. calls[c].opening \in DOMAIN wish /\ calls[c].key \in 1 .. drawn
  BY <1>1 DEF OwnWork, Keyed, UsesDrawn
<1>3. /\ DOMAIN wish = 1 .. Len(wish) /\ Len(wish) \in Nat /\ Len(wish) <= MaxOpenings
      /\ wish[calls[c].opening] \in Wish /\ drawn \in 0 .. MaxKeys
  BY <1>2 DEF OwnWork, TypeOK
<1> QED
  BY <1>1, <1>2, <1>3, SubmissionsAssumption DEF Openings, Keys, Wish, FormOf, TargetOf

LEMMA NoCallTypes == NoCall \in Call
BY SubmissionsAssumption DEF NoCall, Call, Steps

LEMMA OwnByConfirmed ==
  ASSUME OwnWork, NEW c \in Slots, Confirmed(c) PROVE OwnWork'
<1> DEFINE f == FormOf(c)
           o == calls[c].opening
<1>1. Active(c) /\ calls[c].at = "answered"
  BY DEF Active, Confirmed
<1>2. f \in Forms /\ o \in DOMAIN wish /\ o \in Openings /\ wish[o].form = f
  BY <1>1, CallKnown
<1>3. /\ opening' = [opening EXCEPT ![f] = 0] /\ told' = told \cup {o}
      /\ calls' = [calls EXCEPT ![c] = NoCall]
      /\ UNCHANGED <<wish, rows, attempts, drawn, redrawn>>
      /\ ref' = [ref EXCEPT ![f] = 0] \/ ref' = ref
      /\ waiting' = [waiting EXCEPT ![f] = FALSE] \/ waiting' = waiting
  BY DEF Confirmed
<1>4. TypeOK'
  <2>0. 0 \in 0 .. MaxOpenings /\ 0 \in 0 .. MaxKeys
    BY SubmissionsAssumption
  <2>1. opening' \in [Forms -> 0 .. MaxOpenings]
    BY <1>3, <2>0 DEF OwnWork, TypeOK
  <2>3. ref' \in [Forms -> 0 .. MaxKeys]
    <3>1. CASE ref' = [ref EXCEPT ![f] = 0]
      BY <3>1, <2>0 DEF OwnWork, TypeOK
    <3>2. CASE ref' = ref
      BY <3>2 DEF OwnWork, TypeOK
    <3> QED
      BY <1>3, <3>1, <3>2
  <2>2. calls' \in [Slots -> Call] /\ waiting' \in [Forms -> BOOLEAN]
    BY <1>3, NoCallTypes DEF OwnWork, TypeOK
  <2> QED
    BY <1>2, <1>3, <2>1, <2>2, <2>3 DEF OwnWork, TypeOK
<1>5. Stepped
  BY <1>3 DEF OwnWork, TypeOK, Stepped, Active, NoCall
<1>6. Keyed'
  <2>1. \A g \in Forms : /\ opening'[g] \in {0, opening[g]} /\ ref'[g] \in {0, ref[g]}
                         /\ opening'[g] # 0 => ref'[g] = ref[g]
    BY <1>3 DEF OwnWork, TypeOK
  <2> QED
    BY <1>3, <1>5, <2>1, UsesStay, KeyedStays DEF OwnWork
<1>7. Backed'
  BY <1>3, <1>5, BackedStays DEF OwnWork
<1>8. Told'
  <2>1. Policy[f] # "kept" => \E r \in rows : r.opening = o
    BY <1>1, <1>2 DEF OwnWork, Backed, PolicyOf
  <2> QED
    BY <1>2, <1>3, <2>1 DEF OwnWork, Told, ToldIsBooked
<1> QED
  BY <1>3, <1>4, <1>6, <1>7, <1>8 DEF OwnWork, RowPerKey

LEMMA OwnByEnd ==
  ASSUME OwnWork, NEW c \in Slots, Failed(c) \/ Unheard(c) PROVE OwnWork'
<1>1. /\ UNCHANGED <<wish, opening, ref, rows, told, attempts, drawn, redrawn>>
      /\ waiting' = [waiting EXCEPT ![FormOf(c)] = FALSE] \/ waiting' = waiting
      /\ \/ calls' = [calls EXCEPT ![c] = NoCall]
         \/ calls' = [calls EXCEPT ![c].lost = TRUE] /\ Active(c)
  BY DEF Failed, Unheard, client, Active
<1>2. TypeOK'
  <2>1. calls[c] \in Call => [calls[c] EXCEPT !.lost = TRUE] \in Call
    BY DEF Call
  <2> QED
    BY <1>1, <2>1, NoCallTypes DEF OwnWork, TypeOK
<1>3. Stepped
  <2>1. CASE calls' = [calls EXCEPT ![c] = NoCall]
    BY <2>1 DEF OwnWork, TypeOK, Stepped, Active, NoCall
  <2>2. CASE calls' = [calls EXCEPT ![c].lost = TRUE]
    BY <2>2 DEF OwnWork, TypeOK, Stepped, Active, Call
  <2> QED
    BY <1>1, <2>1, <2>2
<1>4. Keyed'
  BY <1>1, <1>3, UsesStay, KeyedStays DEF OwnWork
<1>5. Backed'
  BY <1>1, <1>3, BackedStays DEF OwnWork
<1> QED
  BY <1>1, <1>2, <1>4, <1>5 DEF OwnWork, RowPerKey, Told, ToldIsBooked

-----------------------------------------------------------------------------
(* The server.                                                             *)

LEMMA OwnByStep ==
  ASSUME OwnWork, NEW c \in Slots, Active(c), NEW step \in Steps, To(c, step),
         UNCHANGED <<client, rows>>, attempts' \in Nat,
         step \in {"booked", "answered"} =>
           \/ calls[c].at \in {"booked", "answered"}
           \/ PolicyOf(calls[c].opening) = "kept"
           \/ \E r \in rows : r.opening = calls[c].opening
  PROVE  OwnWork'
<1>1. calls[c] \in Call /\ calls' = [calls EXCEPT ![c] = [calls[c] EXCEPT !.at = step]]
  BY DEF OwnWork, TypeOK, To
<1>2. [calls[c] EXCEPT !.at = step] \in Call
  BY <1>1 DEF Call
<1>3. TypeOK'
  BY <1>1, <1>2 DEF OwnWork, TypeOK, client
<1>4. Stepped
  <2>1. /\ calls'[c].at = step /\ calls'[c].opening = calls[c].opening
        /\ calls'[c].key = calls[c].key
        /\ \A d \in Slots \ {c} : calls'[d] = calls[d]
    BY <1>1 DEF OwnWork, TypeOK, Call
  <2> QED
    BY <2>1 DEF Stepped, Active
<1>5. Keyed'
  BY <1>4, UsesStay, KeyedStays DEF OwnWork, client
<1>6. Backed'
  BY <1>4, BackedStays DEF OwnWork, client
<1> QED
  BY <1>3, <1>5, <1>6 DEF OwnWork, RowPerKey, Told, ToldIsBooked, client

LEMMA OwnByBook ==
  ASSUME OwnWork, NEW c \in Slots, Book(c) PROVE OwnWork'
<1> DEFINE o == calls[c].opening
           row == [key |-> calls[c].key, opening |-> o, target |-> TargetOf(c)]
<1>1. Active(c) /\ calls[c].at = "checked"
  BY DEF Active, Book
<1>2. /\ o \in Openings /\ calls[c].key \in Keys /\ TargetOf(c) \in Targets
      /\ Use(o, calls[c].key)
  BY <1>1, CallKnown
<1>3. /\ rows' = rows \cup {row} /\ UNCHANGED <<client, attempts>>
      /\ \A r \in rows : r.key # calls[c].key
  BY DEF Book, SameKey
<1>4. calls[c] \in Call /\ calls' = [calls EXCEPT ![c] = [calls[c] EXCEPT !.at = "booked"]]
  BY DEF OwnWork, TypeOK, Book, To
<1>5. TypeOK'
  <2>1. [calls[c] EXCEPT !.at = "booked"] \in Call
    BY <1>4 DEF Call, Steps
  <2> QED
    BY <1>2, <1>3, <1>4, <2>1 DEF OwnWork, TypeOK, client
<1>6. /\ calls'[c].at = "booked" /\ calls'[c].opening = o /\ calls'[c].key = calls[c].key
      /\ \A d \in Slots \ {c} : calls'[d] = calls[d]
  BY <1>4 DEF OwnWork, TypeOK, Call
<1>7. Stepped
  <2>1. row \in rows' /\ row.opening = o
    BY <1>3
  <2> QED
    BY <1>1, <1>6, <2>1 DEF Stepped, Active
<1>8. \A p, k : Use(p, k)' => Use(p, k)
  BY <1>1, <1>2, <1>3, <1>6 DEF Use, Active
<1>9. Keyed'
  BY <1>3, <1>8, KeyedStays DEF OwnWork, client
<1>10. Backed'
  BY <1>3, <1>7, BackedStays DEF OwnWork, client
<1>11. RowPerKey' /\ Told'
  BY <1>3 DEF OwnWork, RowPerKey, Told, ToldIsBooked, client
<1> QED
  BY <1>5, <1>9, <1>10, <1>11 DEF OwnWork

LEMMA OwnByAnswerAgain ==
  ASSUME OwnWork, NEW c \in Slots, AnswerAgain(c) PROVE OwnWork'
<1> DEFINE o == calls[c].opening
<1>1. PICK r \in rows : r.key = calls[c].key
  BY DEF AnswerAgain, SameKey
<1>2. Active(c)
  BY DEF Active, AnswerAgain
<1>3. Use(o, calls[c].key) /\ Use(r.opening, calls[c].key)
  BY <1>1, <1>2 DEF Use
<1>4. PolicyOf(o) # "kept" => r.opening = o
  BY <1>3 DEF OwnWork, Keyed, OwnKey
<1>5. PICK step \in {"booked", "answered", "refused"} : To(c, step)
  BY DEF AnswerAgain
<1>6. step \in Steps /\ attempts' \in Nat /\ UNCHANGED <<client, rows>>
  BY DEF Steps, AnswerAgain, OwnWork, TypeOK
<1> QED
  BY <1>2, <1>4, <1>5, <1>6, OwnByStep

LEMMA OwnByServer ==
  ASSUME OwnWork, NEW c \in Slots, CheckLimit(c) \/ Refuse(c) \/ Record(c) PROVE OwnWork'
<1>1. attempts \in Nat
  BY DEF OwnWork, TypeOK
<1>2. CASE CheckLimit(c) \/ Refuse(c)
  <2>1. PICK step \in {"checked", "refused"} : To(c, step)
    BY <1>2 DEF CheckLimit, Refuse
  <2>2. Active(c) /\ step \in Steps /\ UNCHANGED <<client, rows, attempts>>
    BY <1>2 DEF CheckLimit, Refuse, Active, Steps
  <2> QED
    BY <1>1, <2>1, <2>2, OwnByStep
<1>3. CASE Record(c)
  <2>1. Active(c) /\ To(c, "answered") /\ UNCHANGED <<client, rows>> /\ calls[c].at = "booked"
    BY <1>3 DEF Record, Active
  <2>2. attempts' \in Nat /\ "answered" \in Steps
    BY <1>1, <1>3 DEF Record, Steps
  <2> QED
    BY <2>1, <2>2, OwnByStep
<1> QED
  BY <1>2, <1>3

-----------------------------------------------------------------------------
LEMMA OwnAtFirst == Init => OwnWork
<1> SUFFICES ASSUME Init PROVE OwnWork
  OBVIOUS
<1>1. TypeOK
  BY NoCallTypes, SubmissionsAssumption DEF Init, TypeOK
<1>2. \A c \in Slots : calls[c].at = "none"
  BY DEF Init, NoCall
<1>3. \A o, k : ~Use(o, k)
  BY <1>2 DEF Init, Use, Active
<1>4. Keyed
  BY <1>3 DEF Init, Keyed, Placed, UsesDrawn, RefsApart, OneKey, OwnKey
<1> QED
  BY <1>1, <1>2, <1>4 DEF Init, OwnWork, RowPerKey, Backed, Told, ToldIsBooked

LEMMA OwnStays == OwnWork /\ [Next]_vars => OwnWork'
<1> SUFFICES ASSUME OwnWork, [Next]_vars PROVE OwnWork'
  OBVIOUS
<1>1. CASE \E f \in Forms : \/ (\E t \in Targets : Open(f, t)) \/ Close(f) \/ Refresh(f)
                           \/ \E c \in Slots : Submit(f, c)
  BY <1>1, OwnByOpen, OwnByClose, OwnByRefresh, OwnBySubmit
<1>2. CASE \E c \in Slots : Confirmed(c) \/ Failed(c) \/ Unheard(c)
  BY <1>2, OwnByConfirmed, OwnByEnd
<1>3. CASE \E c \in Slots : CheckLimit(c) \/ Book(c) \/ AnswerAgain(c) \/ Refuse(c) \/ Record(c)
  BY <1>3, OwnByServer, OwnByBook, OwnByAnswerAgain
<1>4. CASE Age \/ UNCHANGED vars
  <2>1. UNCHANGED <<client, calls, rows>> /\ attempts' \in Nat
    BY <1>4 DEF Age, vars, client, OwnWork, TypeOK
  <2>2. TypeOK'
    BY <2>1 DEF OwnWork, TypeOK, client
  <2>3. Stepped
    BY <2>1 DEF Stepped, Active
  <2>4. Keyed'
    BY <2>1, <2>3, UsesStay, KeyedStays DEF OwnWork, client
  <2>5. Backed'
    BY <2>1, <2>3, BackedStays DEF OwnWork, client
  <2> QED
    BY <2>1, <2>2, <2>4, <2>5 DEF OwnWork, RowPerKey, Told, ToldIsBooked, client
<1> QED
  BY <1>1, <1>2, <1>3, <1>4 DEF Next

\* Whatever is lost on the way and however often it is submitted: what is wanted once is
\* booked once, unless every submit draws a key (TransferModal.tsx:228) or the form began
\* anew while it was open (RegisterPaymentModal.tsx:89).
THEOREM BookedOnce == Spec => []OncePerOpening
<1>1. OwnWork => OncePerOpening
  <2> SUFFICES ASSUME OwnWork, NEW r \in rows, NEW s \in rows,
                      r.opening = s.opening, Lasting(r.opening)
               PROVE  r = s
    BY DEF OncePerOpening, Lasting, PolicyOf
  <2>1. Use(r.opening, r.key) /\ Use(r.opening, s.key)
    BY DEF Use
  <2>2. r.key = s.key
    BY <2>1 DEF OwnWork, Keyed, OneKey
  <2> QED
    BY <2>2 DEF OwnWork, RowPerKey
<1> QED
  BY <1>1, OwnAtFirst, OwnStays, PTL DEF Spec

\* Who is told of a success has it booked, unless his form keeps the key of another time
\* (components/loans/RegisterPaymentModal.tsx:122, components/investments/DepositModal.tsx:106).
THEOREM ToldTheTruth == Spec => []ToldIsBooked
<1>1. OwnWork => ToldIsBooked
  BY DEF OwnWork, Told
<1> QED
  BY <1>1, OwnAtFirst, OwnStays, PTL DEF Spec

-----------------------------------------------------------------------------
(* The limit.                                                              *)

LEMMA PassedFinite ==
  /\ IsFiniteSet(Passed) /\ Cardinality(Passed) \in Nat /\ Cardinality(Slots) \in Nat
  /\ Cardinality(Passed) <= Cardinality(Slots)
BY SubmissionsAssumption, FS_Subset, FS_CardinalityType DEF Passed

LEMMA CountStays ==
  ASSUME LimitHolds, attempts \in Nat, attempts' \in Nat, attempts' <= attempts, Passed' \subseteq Passed
  PROVE  LimitHolds'
<1>1. Cardinality(Passed)' <= Cardinality(Passed) /\ Cardinality(Passed)' \in Nat
  BY PassedFinite, FS_Subset, FS_CardinalityType
<1> QED
  BY <1>1, PassedFinite, SubmissionsAssumption DEF LimitHolds

\* An hour holds no more attempts than the limit and the requests that overlap
\* (rate-limit.service.ts:163).
THEOREM LimitOverrun == Spec => []LimitHolds
<1>1. Init => LimitHolds
  <2> SUFFICES ASSUME Init PROVE LimitHolds
    OBVIOUS
  <2>1. Passed = {}
    BY DEF Init, Passed, NoCall
  <2> QED
    BY <2>1, PassedFinite, FS_EmptySet, SubmissionsAssumption DEF Init, LimitHolds
<1>2. ASSUME OwnWork, LimitHolds, [Next]_vars PROVE LimitHolds'
  <2>0. TypeOK /\ attempts \in Nat
    BY <1>2 DEF OwnWork, TypeOK
  <2>1. ASSUME NEW f \in Forms, (\E t \in Targets : Open(f, t)) \/ Close(f) \/ Refresh(f)
        PROVE  LimitHolds'
    <3>1. UNCHANGED <<calls, attempts>>
      BY <2>1 DEF Open, Close, Refresh
    <3> QED
      BY <1>2, <2>0, <3>1, CountStays DEF Passed
  <2>2. ASSUME NEW f \in Forms, NEW c \in Slots, Submit(f, c) PROVE LimitHolds'
    <3>1. Passed' \subseteq Passed
      BY <2>0, <2>2 DEF Submit, Passed, TypeOK
    <3> QED
      BY <1>2, <2>0, <2>2, <3>1, CountStays DEF Submit
  <2>3. ASSUME NEW c \in Slots, Confirmed(c) \/ Failed(c) \/ Unheard(c) PROVE LimitHolds'
    <3>1. /\ attempts' = attempts
          /\ \/ calls' = [calls EXCEPT ![c] = NoCall]
             \/ calls' = [calls EXCEPT ![c].lost = TRUE]
      BY <2>3 DEF Confirmed, Failed, Unheard
    <3>2. Passed' \subseteq Passed
      <4>1. CASE calls' = [calls EXCEPT ![c] = NoCall]
        BY <2>0, <4>1 DEF Passed, TypeOK, NoCall
      <4>2. CASE calls' = [calls EXCEPT ![c].lost = TRUE]
        <5>1. \A d \in Slots : calls'[d].at = calls[d].at
          BY <2>0, <4>2 DEF TypeOK, Call
        <5> QED
          BY <5>1 DEF Passed
      <4> QED
        BY <3>1, <4>1, <4>2
    <3> QED
      BY <1>2, <2>0, <3>1, <3>2, CountStays
  <2>4. ASSUME NEW c \in Slots, CheckLimit(c) PROVE LimitHolds'
    <3>1. attempts' = attempts /\ attempts \in Nat
      BY <2>0, <2>4 DEF CheckLimit
    <3>2. CASE WithinLimit
      <4>1. Cardinality(Passed)' <= Cardinality(Slots) /\ Cardinality(Passed)' \in Nat
        BY FS_Subset, FS_CardinalityType, SubmissionsAssumption DEF Passed
      <4> QED
        BY <3>1, <3>2, <4>1, PassedFinite, SubmissionsAssumption DEF LimitHolds, WithinLimit
    <3>3. CASE ~WithinLimit
      <4>1. Passed' \subseteq Passed
        BY <2>0, <2>4, <3>3 DEF CheckLimit, To, Passed, TypeOK, Call
      <4> QED
        BY <1>2, <3>1, <4>1, CountStays
    <3> QED
      BY <3>2, <3>3
  <2>5. ASSUME NEW c \in Slots, Book(c) \/ AnswerAgain(c) \/ Refuse(c) PROVE LimitHolds'
    <3>1. PICK step \in Steps : To(c, step) /\ calls[c].at = "checked" /\ attempts' = attempts
      BY <2>5 DEF Book, AnswerAgain, Refuse, Steps
    <3>2. Passed' \subseteq Passed
      BY <2>0, <3>1 DEF To, Passed, TypeOK, Call
    <3> QED
      BY <1>2, <2>0, <3>1, <3>2, CountStays
  <2>6. ASSUME NEW c \in Slots, Record(c) PROVE LimitHolds'
    <3>1. c \in Passed /\ Passed' = Passed \ {c}
      BY <2>0, <2>6 DEF Record, To, Passed, TypeOK, Call
    <3>2. Cardinality(Passed)' = Cardinality(Passed) - 1
      BY <3>1, PassedFinite, FS_RemoveElement
    <3> QED
      BY <1>2, <2>0, <2>6, <3>2, PassedFinite, SubmissionsAssumption DEF Record, LimitHolds
  <2>7. CASE Age \/ UNCHANGED vars
    <3>1. attempts' \in Nat /\ attempts' <= attempts /\ calls' = calls
      BY <2>0, <2>7 DEF Age, vars
    <3> QED
      BY <1>2, <2>0, <3>1, CountStays DEF Passed
  <2> QED
    BY <1>2, <2>1, <2>2, <2>3, <2>4, <2>5, <2>6, <2>7 DEF Next
<1> QED
  BY <1>1, <1>2, OwnAtFirst, OwnStays, PTL DEF Spec
=============================================================================
