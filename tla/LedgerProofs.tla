---------------------------- MODULE LedgerProofs ----------------------------
(***************************************************************************)
(* Theorems about the ledger, for every set of accounts, requests and      *)
(* slots: type correctness; that no account is overdrawn while every debit *)
(* is made under its lock; that an idempotency key takes effect once; what *)
(* holds when requests do not overlap (exact caches, the limit of a card,  *)
(* empty closed accounts); and that the cache of an account that only pays *)
(* out is exact however requests overlap.                                  *)
(***************************************************************************)
EXTENDS LedgerBank, FiniteSetTheorems, TLAPS

\* A request that amends a row has found one, and the row stays in the table.
RowFound ==
  \A p \in Procs :
    (req[p] \in Request /\ req[p].op \in {"delete", "update"}
       /\ pc[p] \in {"row", "read", "checked"}) =>
      seen[p].row \in Row /\ rows[req[p].row] # NoRow

TypeInv == TypeOK /\ RowFound

\* The effect of the control operators on the variables they set.
LEMMA FinishTypes ==
  ASSUME TypeOK, NEW p \in Procs, NEW how \in Finished, Finish(p, how)
  PROVE  /\ pc' \in [Procs -> {"idle"} \cup Begun \cup Finished]
         /\ req' = req
         /\ seen' \in [Procs -> Seen]
         /\ pc'[p] = how /\ how \notin Begun
         /\ \A q \in Procs \ {p} : pc'[q] = pc[q] /\ seen'[q] = seen[q]
<1>1. Nothing \in Seen
  BY DEF Nothing, Seen
<1>2. pc'[p] = how /\ how \notin Begun
  BY DEF Finish, TypeOK, Finished, Begun
<1> QED
  BY <1>1, <1>2 DEF Finish, TypeOK, Finished, Begun

LEMMA GotoTypes ==
  ASSUME TypeOK, NEW p \in Procs, NEW label \in Begun, NEW found \in Seen,
         Goto(p, label, found)
  PROVE  /\ pc' \in [Procs -> {"idle"} \cup Begun \cup Finished]
         /\ req' = req
         /\ seen' \in [Procs -> Seen]
         /\ pc'[p] = label /\ seen'[p] = found
         /\ \A q \in Procs \ {p} : pc'[q] = pc[q] /\ seen'[q] = seen[q]
BY DEF Goto, TypeOK

\* A step that ends a request keeps the control variables in order.
LEMMA FinishKeeps ==
  ASSUME TypeInv, NEW p \in Procs, NEW how \in Finished, Finish(p, how),
         \A i \in RowIds : rows[i] # NoRow => rows'[i] # NoRow,
         status' \in [Accounts -> {"none", "active", "deleted"}],
         cached' \in [Accounts -> Int],
         rows' \in [RowIds -> Row \cup {NoRow}],
         total' \in [Accounts -> Int],
         lock' \in [Accounts -> Procs \cup {NoProc}]
  PROVE  TypeInv'
<1>1. TypeOK'
  BY FinishTypes DEF TypeInv, TypeOK
<1>2. RowFound'
  <2> SUFFICES ASSUME NEW q \in Procs, req[q] \in Request,
                      req[q].op \in {"delete", "update"},
                      pc'[q] \in {"row", "read", "checked"}
               PROVE  seen'[q].row \in Row /\ rows'[req[q].row] # NoRow
    BY FinishTypes DEF RowFound, TypeInv
  <2>1. q # p
    BY FinishTypes DEF TypeInv, Begun
  <2>2. pc[q] = pc'[q] /\ seen'[q] = seen[q]
    BY <2>1, FinishTypes DEF TypeInv
  <2>3. req[q].row \in RowIds
    BY DEF Request
  <2> QED
    BY <2>2, <2>3 DEF TypeInv, RowFound
<1> QED
  BY <1>1, <1>2 DEF TypeInv

\* A step that only reads keeps them too, if what it found has its type.
LEMMA ProceedKeeps ==
  ASSUME TypeInv, NEW p \in Procs, pc[p] \in Begun, NEW ok \in BOOLEAN,
         NEW label \in Begun, NEW found,
         ok => found \in Seen,
         ok /\ req[p].op \in {"delete", "update"} =>
           found.row \in Row /\ rows[req[p].row] # NoRow,
         Proceed(p, ok, label, found)
  PROVE  TypeInv'
<1>1. CASE ~ok
  <2>1. Finish(p, "rejected") /\ UNCHANGED <<data, lock>>
    BY <1>1 DEF Proceed
  <2> QED
    BY <2>1, FinishKeeps DEF TypeInv, TypeOK, data, Finished
<1>2. CASE ok
  <2>1. Goto(p, label, found) /\ UNCHANGED <<data, lock>>
    BY <1>2 DEF Proceed
  <2>2. TypeOK'
    BY <2>1, <1>2, GotoTypes DEF TypeInv, TypeOK, data
  <2>3. RowFound'
    <3> SUFFICES ASSUME NEW q \in Procs, req[q] \in Request,
                        req[q].op \in {"delete", "update"},
                        pc'[q] \in {"row", "read", "checked"}
                 PROVE  seen'[q].row \in Row /\ rows'[req[q].row] # NoRow
      BY <2>1, <1>2, GotoTypes DEF RowFound, TypeInv
    <3>1. CASE q = p
      BY <3>1, <2>1, <1>2, GotoTypes DEF TypeInv, data
    <3>2. CASE q # p
      BY <3>2, <2>1, <1>2, GotoTypes DEF TypeInv, RowFound, data
    <3> QED
      BY <3>1, <3>2
  <2> QED
    BY <2>2, <2>3 DEF TypeInv
<1> QED
  BY <1>1, <1>2

LEMMA TypeInit == Init => TypeInv
<1> SUFFICES ASSUME Init PROVE TypeInv
  OBVIOUS
<1>1. status \in [Accounts -> {"none", "active", "deleted"}]
  BY DEF Init
<1>2. cached \in [Accounts -> Int] /\ total \in [Accounts -> Int]
  BY LedgerAssumption DEF Init
<1>3. rows \in [RowIds -> Row \cup {NoRow}]
  <2>1. \A a \in Accounts : NewRow(a, Opening[a], "INCOME", ServerKey) \in Row
    BY LedgerAssumption DEF NewRow, Row, Kinds
  <2>2. \A i \in RowIds : \A a \in Accounts : i = OpeningRow(a) => i[1] = a
    BY DEF OpeningRow
  <2> QED
    BY <2>1, <2>2, LedgerAssumption DEF Init
<1>4. /\ lock \in [Accounts -> Procs \cup {NoProc}]
      /\ pc \in [Procs -> {"idle"} \cup Begun \cup Finished]
      /\ req \in [Procs -> Request \cup {NoRequest}]
      /\ \A p \in Procs : pc[p] = "idle"
  BY DEF Init
<1>5. seen \in [Procs -> Seen]
  BY DEF Init, Nothing, Seen
<1> QED
  BY <1>1, <1>2, <1>3, <1>4, <1>5 DEF TypeInv, TypeOK, RowFound, Begun

LEMMA ReleaseTypes ==
  ASSUME TypeOK, NEW p \in Procs, Release(p)
  PROVE  lock' \in [Accounts -> Procs \cup {NoProc}]
BY DEF Release, TypeOK

\* What a step knows of the request it serves.
LEMMA RequestTypes ==
  ASSUME TypeOK, NEW p \in Procs, pc[p] \in Begun
  PROVE  /\ req[p] \in Request
         /\ req[p].op \in Ops /\ req[p].acct \in Accounts /\ req[p].to \in Accounts
         /\ req[p].amt \in Int /\ req[p].key \in Keys \cup {ServerKey}
         /\ req[p].row \in RowIds /\ req[p].of \in Procs
         /\ Main(p) \in RowIds /\ Other(p) \in RowIds
         /\ OpeningRow(req[p].acct) \in RowIds
         /\ seen[p] \in Seen
BY DEF TypeOK, Request, RowIds

LEMMA SeenTypes ==
  ASSUME NEW s \in Seen, NEW n \in Int, NEW r \in Row \cup {NoRow}
  PROVE  /\ [s EXCEPT !.cached = n] \in Seen /\ [s EXCEPT !.other = n] \in Seen
         /\ [s EXCEPT !.total = n] \in Seen /\ [s EXCEPT !.row = r] \in Seen
         /\ [s EXCEPT !.cached = n].row = s.row /\ [s EXCEPT !.row = r].row = r
         /\ Nothing \in Seen
BY DEF Seen, Nothing

LEMMA NewRowTypes ==
  ASSUME NEW a \in Accounts, NEW n \in Int, NEW kind \in Kinds,
         NEW k \in Keys \cup {ServerKey}
  PROVE  /\ NewRow(a, n, kind, k) \in Row
         /\ NewRow(a, n, kind, k) # NoRow
<1>1. NewRow(a, n, kind, k) \in Row
  BY DEF NewRow, Row
<1> QED
  BY <1>1, LedgerAssumption

LEMMA TypeCreate ==
  ASSUME TypeInv, NEW p \in Procs, Create(p)
  PROVE  TypeInv'
<1>0. TypeOK
  BY DEF TypeInv
<1>1. CASE ReadAccount(p)
  <2>1. pc[p] = "begun" /\ req[p].op = "create"
    BY <1>1 DEF ReadAccount, At
  <2>2. [Nothing EXCEPT !.cached = cached[req[p].acct]] \in Seen
    BY <2>1, <1>0, RequestTypes, SeenTypes DEF Begun, TypeOK
  <2> QED
    BY <1>1, <2>1, <2>2, ProceedKeeps DEF ReadAccount, Begun
<1>2. CASE CheckFunds(p)
  <2>1. pc[p] = "read" /\ req[p].op = "create"
    BY <1>2 DEF CheckFunds, At
  <2>2. seen[p] \in Seen
    BY <1>0 DEF TypeOK
  <2>3. CanSpend(req[p].acct, req[p].amt) \in BOOLEAN
    BY DEF CanSpend
  <2> QED
    BY <1>2, <2>1, <2>2, <2>3, ProceedKeeps DEF CheckFunds, Begun
<1>3. CASE CommitCreate(p)
  <2>1. pc[p] = "checked" /\ UNCHANGED lock
    BY <1>3 DEF CommitCreate, At
  <2>2. CASE KeyTaken(req[p].key)
    <3>1. Finish(p, "rejected") /\ UNCHANGED data
      BY <1>3, <2>2 DEF CommitCreate
    <3> QED
      BY <3>1, <2>1, <1>0, FinishKeeps DEF data, TypeOK, Finished
  <2>3. CASE ~KeyTaken(req[p].key)
    <3> DEFINE a == req[p].acct
               n == req[p].amt
               new == NewRow(a, n, IF n > 0 THEN "INCOME" ELSE "EXPENSE", req[p].key)
    <3>1. /\ rows' = [rows EXCEPT ![Main(p)] = new]
          /\ total' = [total EXCEPT ![a] = @ + n]
          /\ cached' = [cached EXCEPT ![a] = seen[p].cached + n]
          /\ status' = status
          /\ Finish(p, "done")
      BY <1>3, <2>3 DEF CommitCreate
    <3>2. a \in Accounts /\ n \in Int /\ seen[p].cached \in Int
      BY <2>1, <1>0, RequestTypes DEF Begun, Seen
    <3>3. new \in Row /\ new # NoRow
      BY <2>1, <1>0, <3>2, RequestTypes, NewRowTypes DEF Begun, Kinds
    <3>4. /\ rows' \in [RowIds -> Row \cup {NoRow}]
          /\ \A i \in RowIds : rows[i] # NoRow => rows'[i] # NoRow
      BY <3>1, <3>3, <1>0 DEF TypeOK
    <3>5. total' \in [Accounts -> Int] /\ cached' \in [Accounts -> Int]
      BY <3>1, <3>2, <1>0 DEF TypeOK
    <3> QED
      BY <3>1, <3>4, <3>5, <2>1, <1>0, FinishKeeps DEF TypeOK, Finished
  <2> QED
    BY <2>2, <2>3
<1> QED
  BY <1>1, <1>2, <1>3 DEF Create

LEMMA TypeAmend ==
  ASSUME TypeInv, NEW p \in Procs, Amend(p)
  PROVE  TypeInv'
<1>0. TypeOK
  BY DEF TypeInv
<1> DEFINE i == req[p].row
           a == seen[p].row.acct
<1>1. CASE ReadRow(p)
  <2>1. pc[p] = "begun"
    BY <1>1 DEF ReadRow, At
  <2>2. i \in RowIds
    BY <2>1, <1>0, RequestTypes DEF Begun
  <2>3. Active(i) => rows[i] \in Row /\ rows[i] # NoRow
    BY <2>2, <1>0 DEF TypeOK, Active, Exists
  <2>4. Active(i) => /\ [Nothing EXCEPT !.row = rows[i]] \in Seen
                     /\ [Nothing EXCEPT !.row = rows[i]].row = rows[i]
    BY <2>3 DEF Nothing, Seen
  <2>5. Active(i) \in BOOLEAN
    BY <2>2, <1>0 DEF Active, Exists, TypeOK, Row
  <2>6. Proceed(p, Active(i), "row", [Nothing EXCEPT !.row = rows[i]])
    BY <1>1 DEF ReadRow
  <2> QED
    BY <2>1, <2>3, <2>4, <2>5, <2>6, ProceedKeeps DEF Begun
<1>2. CASE ReadRowAccount(p)
  <2>1. pc[p] = "row" /\ req[p].op \in {"delete", "update"}
    BY <1>2 DEF ReadRowAccount, At
  <2>2. req[p] \in Request /\ seen[p] \in Seen
    BY <2>1, <1>0, RequestTypes DEF Begun
  <2>3. seen[p].row \in Row /\ rows[i] # NoRow
    BY <2>1, <2>2 DEF TypeInv, RowFound
  <2>4. a \in Accounts
    BY <2>3 DEF Row
  <2> DEFINE found == [seen[p] EXCEPT !.cached = cached[a]]
  <2>5. found \in Seen /\ found.row = seen[p].row
    BY <2>2, <2>4, <1>0 DEF TypeOK, Seen
  <2> DEFINE ok == req[p].op = "update" => /\ status[a] = "active"
                                           /\ SignFits(seen[p].row.kind, req[p].amt)
  <2>6. Proceed(p, ok, "read", found)
    BY <1>2 DEF ReadRowAccount
  <2>7. ok \in BOOLEAN
    OBVIOUS
  <2> HIDE DEF ok, found
  <2> QED
    BY <2>1, <2>3, <2>5, <2>6, <2>7, ProceedKeeps DEF Begun
<1>3. CASE CheckRowFunds(p)
  <2>1. pc[p] = "read" /\ req[p].op \in {"delete", "update"}
    BY <1>3 DEF CheckRowFunds, At
  <2>2. req[p] \in Request /\ seen[p] \in Seen
    BY <2>1, <1>0, RequestTypes DEF Begun
  <2>3. seen[p].row \in Row /\ rows[i] # NoRow
    BY <2>1, <2>2 DEF TypeInv, RowFound
  <2> DEFINE ok == IF req[p].op = "delete" THEN CanDelete(seen[p].row)
                                           ELSE CanUpdate(seen[p].row, req[p].amt)
  <2>4. ok \in BOOLEAN
    BY DEF CanDelete, CanUpdate
  <2>5. Proceed(p, ok, "checked", seen[p])
    BY <1>3 DEF CheckRowFunds
  <2> HIDE DEF ok
  <2> QED
    BY <2>1, <2>2, <2>3, <2>4, <2>5, ProceedKeeps DEF Begun
<1>4. CASE CommitDelete(p)
  <2>1. pc[p] = "checked" /\ req[p].op \in {"delete", "update"}
    BY <1>4 DEF CommitDelete, At
  <2>2. req[p] \in Request /\ seen[p] \in Seen /\ i \in RowIds
    BY <2>1, <1>0, RequestTypes DEF Begun
  <2>3. seen[p].row \in Row /\ rows[i] \in Row
    BY <2>1, <2>2, <1>0 DEF TypeInv, RowFound, TypeOK
  <2>4. rows' \in [RowIds -> Row \cup {NoRow}] /\ \A j \in RowIds : rows[j] # NoRow => rows'[j] # NoRow
    <3>1. [rows[i] EXCEPT !.active = FALSE] \in Row
      BY <2>3 DEF Row
    <3>2. rows' = [rows EXCEPT ![i] = [rows[i] EXCEPT !.active = FALSE]]
      BY <1>4, <2>2, <1>0 DEF CommitDelete, SetActive, TypeOK
    <3> QED
      BY <3>1, <3>2, <2>2, <1>0, LedgerAssumption DEF TypeOK
  <2>5. cached' \in [Accounts -> Int]
    BY <1>4, <2>2, <2>3, <1>0 DEF CommitDelete, TypeOK, Row, Seen
  <2>6. total' \in [Accounts -> Int]
    BY <1>4, <2>3, <1>0 DEF CommitDelete, TypeOK, Row
  <2> QED
    BY <1>4, <2>4, <2>5, <2>6, <1>0, FinishKeeps DEF CommitDelete, TypeOK, Finished
<1>5. CASE CommitUpdate(p)
  <2> DEFINE new == req[p].amt
  <2>1. pc[p] = "checked" /\ req[p].op \in {"delete", "update"}
    BY <1>5 DEF CommitUpdate, At
  <2>2. req[p] \in Request /\ seen[p] \in Seen /\ i \in RowIds /\ new \in Int
    BY <2>1, <1>0, RequestTypes DEF Begun
  <2>3. seen[p].row \in Row /\ rows[i] \in Row
    BY <2>1, <2>2, <1>0 DEF TypeInv, RowFound, TypeOK
  <2>4. rows' \in [RowIds -> Row \cup {NoRow}] /\ \A j \in RowIds : rows[j] # NoRow => rows'[j] # NoRow
    <3>1. [rows[i] EXCEPT !.amt = new] \in Row
      BY <2>2, <2>3 DEF Row
    <3>2. rows' = [rows EXCEPT ![i] = [rows[i] EXCEPT !.amt = new]]
      BY <1>5, <2>2, <1>0 DEF CommitUpdate, TypeOK
    <3> QED
      BY <3>1, <3>2, <2>2, <1>0, LedgerAssumption DEF TypeOK
  <2>5. cached' \in [Accounts -> Int]
    BY <1>5, <2>2, <2>3, <1>0 DEF CommitUpdate, TypeOK, Row, Seen
  <2>6. total' \in [Accounts -> Int]
    BY <1>5, <2>2, <2>3, <1>0 DEF CommitUpdate, TypeOK, Row
  <2> QED
    BY <1>5, <2>4, <2>5, <2>6, <1>0, FinishKeeps DEF CommitUpdate, TypeOK, Finished
<1> QED
  BY <1>1, <1>2, <1>3, <1>4, <1>5 DEF Amend

LEMMA TypeCommitMove ==
  ASSUME TypeInv, NEW p \in Procs, CommitMove(p)
  PROVE  TypeInv'
<1> DEFINE r == req[p]
<1>0. TypeOK
  BY DEF TypeInv
<1>1. pc[p] \in Begun /\ Release(p)
  BY DEF CommitMove, Begun
<1>2. lock' \in [Accounts -> Procs \cup {NoProc}]
  BY <1>0, <1>1, ReleaseTypes
<1>3. /\ r.acct \in Accounts /\ r.to \in Accounts /\ r.amt \in Int /\ -r.amt \in Int
      /\ r.key \in Keys \cup {ServerKey} /\ ServerKey \in Keys \cup {ServerKey}
      /\ seen[p].cached \in Int /\ seen[p].other \in Int
  BY <1>0, <1>1, RequestTypes DEF Seen
<1>4. CASE KeyTaken(r.key)
  <2>1. PICK how \in Finished : Finish(p, how) /\ UNCHANGED data
    BY <1>4 DEF CommitMove, Finished
  <2> QED
    BY <2>1, <1>2, <1>0, FinishKeeps DEF data, TypeOK
<1>5. CASE ~KeyTaken(r.key)
  <2>1. /\ rows' = [rows EXCEPT ![Main(p)] = DebitRow(r), ![Other(p)] = CreditRow(r)]
        /\ total' = [total EXCEPT ![r.acct] = @ - r.amt, ![r.to] = @ + r.amt]
        /\ cached' = [cached EXCEPT ![r.acct] = seen[p].cached - r.amt,
                                    ![r.to] = seen[p].other + r.amt]
        /\ Finish(p, "done")
        /\ UNCHANGED status
    BY <1>5 DEF CommitMove
  <2>2. DebitRow(r) \in Row /\ DebitRow(r) # NoRow
    BY <1>3, NewRowTypes DEF DebitRow, Kinds
  <2>3. CreditRow(r) \in Row /\ CreditRow(r) # NoRow
    BY <1>3, NewRowTypes DEF CreditRow, Kinds
  <2>4. /\ rows' \in [RowIds -> Row \cup {NoRow}]
        /\ \A i \in RowIds : rows[i] # NoRow => rows'[i] # NoRow
    BY <2>1, <2>2, <2>3, <1>0 DEF TypeOK
  <2>5. total' \in [Accounts -> Int] /\ cached' \in [Accounts -> Int]
    BY <2>1, <1>3, <1>0 DEF TypeOK
  <2> QED
    BY <2>1, <2>4, <2>5, <1>2, <1>0, FinishKeeps DEF TypeOK, Finished
<1> QED
  BY <1>4, <1>5

LEMMA TypeReadTransfer ==
  ASSUME TypeInv, NEW p \in Procs, ReadTransfer(p)
  PROVE  TypeInv'
<1>0. TypeOK
  BY DEF TypeInv
<1>1. pc[p] = "begun" /\ req[p] \in Request /\ req[p].op = "reverse"
  BY <1>0 DEF ReadTransfer, At, TypeOK, Begun
<1>2. UNCHANGED <<data, lock>>
  BY DEF ReadTransfer
<1>3. CASE Finish(p, "rejected")
  BY <1>3, <1>2, <1>0, FinishKeeps DEF data, TypeOK, Finished
<1>4. CASE ~Finish(p, "rejected")
  <2> DEFINE legs == {Main(req[p].of), Other(req[p].of)}
  <2>1. PICK debit \in legs, credit \in legs :
          /\ Active(debit) /\ Active(credit)
          /\ req' = [req EXCEPT ![p] = [@ EXCEPT
                       !.op = "transfer", !.acct = rows[credit].acct,
                       !.to = rows[debit].acct, !.key = ServerKey,
                       !.amt = IF rows[credit].amt < 0 THEN -rows[credit].amt
                                                       ELSE rows[credit].amt]]
          /\ UNCHANGED <<pc, seen>>
    BY <1>4 DEF ReadTransfer
  <2>2. debit \in RowIds /\ credit \in RowIds
    BY <1>1 DEF Request, RowIds
  <2>3. rows[debit] \in Row /\ rows[credit] \in Row
    BY <2>1, <2>2, <1>0 DEF Active, Exists, TypeOK
  <2> DEFINE n == IF rows[credit].amt < 0 THEN -rows[credit].amt ELSE rows[credit].amt
             from == rows[credit].acct
             to == rows[debit].acct
             asked == [req[p] EXCEPT !.op = "transfer", !.acct = from, !.to = to,
                                     !.key = ServerKey, !.amt = n]
  <2>4. asked \in Request /\ asked.op = "transfer"
    <3>1. n \in Int /\ from \in Accounts /\ to \in Accounts
      BY <2>3 DEF Row
    <3> HIDE DEF n, from, to
    <3> QED
      BY <3>1, <1>1 DEF Request, Ops
  <2>5. req' = [req EXCEPT ![p] = asked]
    BY <2>1, <1>0 DEF TypeOK
  <2> HIDE DEF asked
  <2>6. TypeOK'
    BY <2>1, <2>4, <2>5, <1>0, <1>2 DEF TypeOK, data
  <2>7. RowFound'
    BY <2>1, <2>4, <2>5, <1>0, <1>2 DEF TypeInv, RowFound, TypeOK, data
  <2> QED
    BY <2>6, <2>7 DEF TypeInv
<1> QED
  BY <1>3, <1>4

LEMMA TypeMove ==
  ASSUME TypeInv, NEW p \in Procs, Move(p)
  PROVE  TypeInv'
<1>0. TypeOK
  BY DEF TypeInv
<1>1. CASE ReadTransfer(p)
  BY <1>1, TypeReadTransfer
<1>2. CASE ReadPair(p)
  <2>1. pc[p] = "begun" /\ req[p].op = "transfer"
    BY <1>2 DEF ReadPair, At
  <2>2. [Nothing EXCEPT !.other = cached[req[p].to]] \in Seen
    BY <2>1, <1>0, RequestTypes DEF Begun, TypeOK, Nothing, Seen
  <2> DEFINE ok == /\ status[req[p].acct] = "active" /\ status[req[p].to] = "active"
                   /\ ValidPair(req[p].acct, req[p].to)
  <2>3. Proceed(p, ok, "read", [Nothing EXCEPT !.other = cached[req[p].to]])
    BY <1>2 DEF ReadPair
  <2>4. ok \in BOOLEAN
    BY DEF ValidPair
  <2> HIDE DEF ok
  <2> QED
    BY <2>1, <2>2, <2>3, <2>4, ProceedKeeps DEF Begun
<1>3. CASE ReadCard(p)
  <2>1. pc[p] = "begun" /\ req[p].op = "pay"
    BY <1>3 DEF ReadCard, At
  <2>2. [Nothing EXCEPT !.other = cached[req[p].to]] \in Seen
    BY <2>1, <1>0, RequestTypes DEF Begun, TypeOK, Nothing, Seen
  <2> QED
    BY <1>3, <2>1, <2>2, ProceedKeeps DEF ReadCard, Begun
<1>4. CASE CheckDebt(p)
  <2>1. pc[p] = "row" /\ req[p].op = "pay"
    BY <1>4 DEF CheckDebt, At
  <2>2. seen[p] \in Seen
    BY <1>0 DEF TypeOK
  <2> QED
    BY <1>4, <2>1, <2>2, ProceedKeeps DEF CheckDebt, Begun
<1>5. CASE LockSource(p)
  <2> DEFINE from == req[p].acct
             found == [seen[p] EXCEPT !.cached = cached[from]]
  <2>1. pc[p] = "read" /\ req[p].op \in {"transfer", "pay"} /\ UNCHANGED data
    BY <1>5 DEF LockSource, At
  <2>2. req[p] \in Request /\ from \in Accounts /\ seen[p] \in Seen
    BY <2>1, <1>0, RequestTypes DEF Begun
  <2>3. CASE CanDebit(from, req[p].amt)
    <3>1. Goto(p, "locked", found) /\ lock' = [lock EXCEPT ![from] = p]
      BY <1>5, <2>3 DEF LockSource
    <3>2. found \in Seen
      BY <2>2, <1>0 DEF Seen, TypeOK
    <3>3. lock' \in [Accounts -> Procs \cup {NoProc}]
      BY <3>1, <1>0 DEF TypeOK
    <3> HIDE DEF found
    <3>4. TypeOK'
      BY <3>1, <3>2, <3>3, <2>1, <2>2, <1>0, GotoTypes DEF TypeOK, data, Begun
    <3>5. RowFound'
      BY <3>1, <3>2, <2>1, <2>2, <1>0, GotoTypes DEF TypeInv, RowFound, data, Begun
    <3> QED
      BY <3>4, <3>5 DEF TypeInv
  <2>4. CASE ~CanDebit(from, req[p].amt)
    <3>1. Finish(p, "rejected") /\ UNCHANGED lock
      BY <1>5, <2>4 DEF LockSource
    <3> QED
      BY <3>1, <2>1, <1>0, FinishKeeps DEF data, TypeOK, Finished
  <2> QED
    BY <2>3, <2>4
<1>6. CASE CommitMove(p)
  BY <1>6, TypeCommitMove
<1> QED
  BY <1>1, <1>2, <1>3, <1>4, <1>5, <1>6 DEF Move

LEMMA TypeOpenClose ==
  ASSUME TypeInv, NEW p \in Procs, OpenClose(p)
  PROVE  TypeInv'
<1>0. TypeOK
  BY DEF TypeInv
<1> DEFINE a == req[p].acct
<1>1. CASE ReadParent(p)
  <2>1. pc[p] = "begun" /\ req[p].op = "open"
    BY <1>1 DEF ReadParent, At
  <2>2. Nothing \in Seen
    BY DEF Nothing, Seen
  <2> DEFINE ok == \/ Parent[a] = NoAccount
                   \/ status[Parent[a]] = "active" /\ ~IsPocket(Parent[a])
  <2>3. ok \in BOOLEAN /\ Proceed(p, ok, "checked", Nothing)
    BY <1>1 DEF ReadParent
  <2> HIDE DEF ok
  <2> QED
    BY <2>1, <2>2, <2>3, ProceedKeeps DEF Begun
<1>2. CASE CommitOpen(p)
  <2>1. pc[p] = "checked" /\ UNCHANGED lock
    BY <1>2 DEF CommitOpen, At
  <2>2. a \in Accounts /\ OpeningRow(a) \in RowIds
    BY <2>1, <1>0, RequestTypes DEF Begun
  <2>3. CASE status[a] # "none"
    <3>1. Finish(p, "rejected") /\ UNCHANGED data
      BY <1>2, <2>3 DEF CommitOpen
    <3> QED
      BY <3>1, <2>1, <1>0, FinishKeeps DEF data, TypeOK, Finished
  <2>4. CASE status[a] = "none"
    <3> DEFINE new == NewRow(a, Opening[a], "INCOME", ServerKey)
    <3>1. /\ status' = [status EXCEPT ![a] = "active"]
          /\ cached' = [cached EXCEPT ![a] = Opening[a]]
          /\ total' = [total EXCEPT ![a] = Opening[a]]
          /\ rows' = IF Opening[a] = 0 THEN rows ELSE [rows EXCEPT ![OpeningRow(a)] = new]
          /\ Finish(p, "done")
      BY <1>2, <2>4 DEF CommitOpen
    <3>2. Opening[a] \in Int
      BY <2>2, LedgerAssumption
    <3>3. new \in Row /\ new # NoRow
      BY <2>2, <3>2, NewRowTypes DEF Kinds
    <3>4. /\ rows' \in [RowIds -> Row \cup {NoRow}]
          /\ \A i \in RowIds : rows[i] # NoRow => rows'[i] # NoRow
      BY <3>1, <3>3, <1>0 DEF TypeOK
    <3>5. /\ status' \in [Accounts -> {"none", "active", "deleted"}]
          /\ cached' \in [Accounts -> Int] /\ total' \in [Accounts -> Int]
      BY <3>1, <3>2, <1>0 DEF TypeOK
    <3> QED
      BY <3>1, <3>4, <3>5, <2>1, <1>0, FinishKeeps DEF TypeOK, Finished
  <2> QED
    BY <2>3, <2>4
<1>3. CASE ReadBalance(p)
  <2>1. pc[p] = "begun" /\ req[p].op = "close"
    BY <1>3 DEF ReadBalance, At
  <2>2. [Nothing EXCEPT !.total = total[a]] \in Seen
    BY <2>1, <1>0, RequestTypes DEF Begun, TypeOK, Nothing, Seen
  <2> QED
    BY <1>3, <2>1, <2>2, ProceedKeeps DEF ReadBalance, Begun
<1>4. CASE CountMovements(p)
  <2>1. pc[p] = "row" /\ req[p].op = "close"
    BY <1>4 DEF CountMovements, At
  <2>2. seen[p] \in Seen
    BY <1>0 DEF TypeOK
  <2> QED
    BY <1>4, <2>1, <2>2, ProceedKeeps DEF CountMovements, Begun
<1>5. CASE CheckPockets(p)
  <2>1. pc[p] = "read" /\ req[p].op = "close"
    BY <1>5 DEF CheckPockets, At
  <2>2. seen[p] \in Seen
    BY <1>0 DEF TypeOK
  <2> DEFINE ok == \A b \in Pockets(a) : total[b] = 0
  <2>3. ok \in BOOLEAN /\ Proceed(p, ok, "checked", seen[p])
    BY <1>5 DEF CheckPockets
  <2> HIDE DEF ok
  <2> QED
    BY <2>1, <2>2, <2>3, ProceedKeeps DEF Begun
<1>6. CASE ReadCardBalance(p)
  <2>1. pc[p] = "begun" /\ req[p].op = "closeCard"
    BY <1>6 DEF ReadCardBalance, At
  <2>2. Nothing \in Seen
    BY DEF Nothing, Seen
  <2> QED
    BY <1>6, <2>1, <2>2, ProceedKeeps DEF ReadCardBalance, Begun
<1>7. CASE CommitClose(p)
  <2> DEFINE i == OpeningRow(a)
             drop == seen[p].total # 0 /\ Active(i)
  <2>1. /\ pc[p] = "checked" /\ UNCHANGED <<cached, lock>>
        /\ status' = [status EXCEPT ![a] = "deleted"]
        /\ rows' = IF drop THEN SetActive(i, FALSE) ELSE rows
        /\ total' = [total EXCEPT ![a] = IF drop THEN @ - rows[i].amt ELSE @]
        /\ Finish(p, "done")
    BY <1>7 DEF CommitClose, At
  <2>2. a \in Accounts /\ i \in RowIds
    BY <2>1, <1>0, RequestTypes DEF Begun
  <2>3. drop => rows[i] \in Row
    BY <2>2, <1>0 DEF Active, Exists, TypeOK
  <2>4. drop => [rows[i] EXCEPT !.active = FALSE] \in Row
    BY <2>3 DEF Row
  <2>5. drop => rows' = [rows EXCEPT ![i] = [rows[i] EXCEPT !.active = FALSE]]
    BY <2>1, <2>2, <1>0 DEF SetActive, TypeOK
  <2> HIDE DEF drop
  <2>6. /\ rows' \in [RowIds -> Row \cup {NoRow}]
        /\ \A j \in RowIds : rows[j] # NoRow => rows'[j] # NoRow
    BY <2>1, <2>2, <2>4, <2>5, <1>0, LedgerAssumption DEF TypeOK
  <2>7. total' \in [Accounts -> Int]
    <3>1. CASE drop
      BY <3>1, <2>1, <2>2, <2>3, <1>0 DEF TypeOK, Row
    <3>2. CASE ~drop
      BY <3>2, <2>1, <2>2, <1>0 DEF TypeOK
    <3> QED
      BY <3>1, <3>2
  <2>8. status' \in [Accounts -> {"none", "active", "deleted"}]
    BY <2>1, <1>0 DEF TypeOK
  <2> QED
    BY <2>1, <2>6, <2>7, <2>8, <1>0, FinishKeeps DEF TypeOK, Finished
<1> QED
  BY <1>1, <1>2, <1>3, <1>4, <1>5, <1>6, <1>7 DEF OpenClose

LEMMA TypeReconcile ==
  ASSUME TypeInv, NEW p \in Procs, Reconcile(p)
  PROVE  TypeInv'
<1>0. TypeOK
  BY DEF TypeInv
<1> DEFINE a == req[p].acct
<1>1. CASE ReadCached(p)
  <2>1. pc[p] = "begun" /\ req[p].op = "reconcile"
    BY <1>1 DEF ReadCached, At
  <2>2. [Nothing EXCEPT !.cached = cached[a]] \in Seen
    BY <2>1, <1>0, RequestTypes DEF Begun, TypeOK, Nothing, Seen
  <2> QED
    BY <1>1, <2>1, <2>2, ProceedKeeps DEF ReadCached, Begun
<1>2. CASE ReadTotal(p)
  <2>1. pc[p] = "read" /\ req[p].op = "reconcile" /\ UNCHANGED <<data, lock>>
    BY <1>2 DEF ReadTotal, At
  <2> DEFINE found == [seen[p] EXCEPT !.total = total[a]]
  <2>2. found \in Seen
    BY <2>1, <1>0, RequestTypes DEF Begun, TypeOK, Seen
  <2>3. CASE Goto(p, "checked", found)
    <3>1. Proceed(p, TRUE, "checked", found)
      BY <2>1, <2>3 DEF Proceed
    <3> HIDE DEF found
    <3> QED
      BY <3>1, <2>1, <2>2, ProceedKeeps DEF Begun
  <2>4. CASE Finish(p, "done")
    BY <2>4, <2>1, <1>0, FinishKeeps DEF data, TypeOK, Finished
  <2> QED
    BY <1>2, <2>3, <2>4 DEF ReadTotal
<1>3. CASE CommitReconcile(p)
  <2>1. pc[p] = "checked"
    BY <1>3 DEF CommitReconcile, At
  <2>2. cached' \in [Accounts -> Int]
    BY <1>3, <2>1, <1>0, RequestTypes DEF CommitReconcile, Begun, TypeOK, Seen
  <2> QED
    BY <1>3, <2>2, <1>0, FinishKeeps DEF CommitReconcile, TypeOK, Finished
<1> QED
  BY <1>1, <1>2, <1>3 DEF Reconcile

LEMMA TypeBegin ==
  ASSUME TypeInv, NEW p \in Procs, Begin(p)
  PROVE  TypeInv'
<1>1. PICK r \in RequestsOf[p] :
        /\ req' = [req EXCEPT ![p] = r]
        /\ pc' = [pc EXCEPT ![p] = IF AlreadyDone(r) THEN "repeated" ELSE "begun"]
  BY DEF Begin
<1>2. r \in Request
  BY LedgerAssumption
<1>3. UNCHANGED <<data, lock, seen>>
  BY DEF Begin
<1>4. TypeOK'
  BY <1>1, <1>2, <1>3 DEF TypeInv, TypeOK, data, Begun, Finished
<1>5. RowFound'
  BY <1>1, <1>2, <1>3 DEF TypeInv, RowFound, TypeOK, data
<1> QED
  BY <1>4, <1>5 DEF TypeInv

LEMMA TypeNext == TypeInv /\ [Next]_vars => TypeInv'
<1> SUFFICES ASSUME TypeInv, [Next]_vars PROVE TypeInv'
  OBVIOUS
<1>1. ASSUME NEW p \in Procs, Begin(p) PROVE TypeInv'
  BY <1>1, TypeBegin
<1>2. ASSUME NEW p \in Procs, Abort(p) PROVE TypeInv'
  BY <1>2, FinishKeeps, ReleaseTypes DEF Abort, data, TypeInv, TypeOK, Finished
<1>3. ASSUME NEW p \in Procs, Step(p) PROVE TypeInv'
  BY <1>3, TypeCreate, TypeAmend, TypeMove, TypeOpenClose, TypeReconcile DEF Step
<1>4. CASE UNCHANGED vars
  BY <1>4 DEF vars, TypeInv, TypeOK, RowFound
<1> QED
  BY <1>1, <1>2, <1>3, <1>4 DEF Next, AllOver

\* Every variable keeps its type in every run of every ledger.
THEOREM TypeCorrect == Spec => []TypeOK
<1>1. TypeInv => TypeOK
  BY DEF TypeInv
<1> QED
  BY <1>1, TypeInit, TypeNext, PTL DEF Spec

-----------------------------------------------------------------------------
(* No overdraft.  Other processes than the one that steps keep what they   *)
(* hold as long as the step takes no money out of an account they hold.    *)

LEMMA OthersGuarded ==
  ASSUME NEW p \in Procs,
         \A q \in Procs \ {p} :
           /\ Guarded(q) /\ pc'[q] = pc[q] /\ req'[q] = req[q]
           /\ status[req[q].acct] # "none" => status'[req[q].acct] # "none"
           /\ pc[q] = "locked" => /\ lock'[req[q].acct] = lock[req[q].acct]
                                  /\ total'[req[q].acct] >= req[q].amt
  PROVE  \A q \in Procs \ {p} : Guarded(q)'
BY DEF Guarded, Sourced, Held, At

\* A request that is over, or has begun but not come to its source, has nothing
\* to hold.
LEMMA FinishGuarded ==
  ASSUME TypeOK, FundsGuarded, NEW p \in Procs, NEW how \in Finished, Finish(p, how),
         status' = status, total' = total,
         lock' = lock \/ Release(p)
  PROVE  FundsGuarded'
<1>1. pc'[p] \notin Begun /\ req' = req /\ \A q \in Procs \ {p} : pc'[q] = pc[q]
  BY FinishTypes
<1>2. Guarded(p)'
  BY <1>1 DEF Guarded, Sourced, Held, At, Begun
<1>3. ASSUME NEW q \in Procs \ {p}, pc[q] = "locked"
      PROVE  lock'[req[q].acct] = lock[req[q].acct]
  <2>1. lock[req[q].acct] = q /\ req[q].acct \in Accounts
    BY <1>3, RequestTypes DEF FundsGuarded, Guarded, Held, Begun
  <2> QED
    BY <2>1 DEF Release
<1>4. \A q \in Procs \ {p} : Guarded(q)'
  BY <1>1, <1>3, OthersGuarded DEF FundsGuarded, Guarded, Held
<1>5. NoOverdraft'
  BY DEF FundsGuarded, NoOverdraft
<1> QED
  BY <1>2, <1>4, <1>5 DEF FundsGuarded

LEMMA ProceedGuarded ==
  ASSUME TypeOK, FundsGuarded, NEW p \in Procs, pc[p] \in Begun, NEW ok \in BOOLEAN,
         NEW label \in Begun \ {"locked"}, NEW found \in Seen,
         Proceed(p, ok, label, found),
         ok /\ label = "read" /\ req[p].op \in {"transfer", "pay"} =>
           req[p].acct \notin Cards /\ status[req[p].acct] # "none"
  PROVE  FundsGuarded'
<1>1. CASE ~ok
  <2>1. Finish(p, "rejected") /\ UNCHANGED <<data, lock>>
    BY <1>1 DEF Proceed
  <2> QED
    BY <2>1, FinishGuarded DEF data, Finished
<1>2. CASE ok
  <2>1. Goto(p, label, found) /\ UNCHANGED <<data, lock>>
    BY <1>2 DEF Proceed
  <2>2. pc'[p] = label /\ req' = req /\ \A q \in Procs \ {p} : pc'[q] = pc[q]
    BY <2>1, GotoTypes
  <2>3. Guarded(p)'
    BY <2>1, <2>2, <1>2 DEF FundsGuarded, Guarded, Sourced, Held, At, data
  <2>4. \A q \in Procs \ {p} : Guarded(q)'
    BY <2>1, <2>2, OthersGuarded DEF FundsGuarded, data, Guarded, Held
  <2>5. NoOverdraft'
    BY <2>1 DEF FundsGuarded, NoOverdraft, data
  <2> QED
    BY <2>3, <2>4, <2>5 DEF FundsGuarded
<1> QED
  BY <1>1, <1>2

LEMMA GuardedCreate ==
  ASSUME TypeInv, FundsGuarded, NEW p \in Procs, Create(p)
  PROVE  FundsGuarded'
<1>0. TypeOK
  BY DEF TypeInv
<1>1. CASE ReadAccount(p)
  <2>1. pc[p] = "begun" /\ req[p].op = "create"
    BY <1>1 DEF ReadAccount, At
  <2>2. [Nothing EXCEPT !.cached = cached[req[p].acct]] \in Seen
    BY <2>1, <1>0, RequestTypes DEF Begun, TypeOK, Nothing, Seen
  <2> QED
    BY <1>1, <1>0, <2>1, <2>2, ProceedGuarded DEF ReadAccount, Begun
<1>2. CASE CheckFunds(p)
  <2>1. pc[p] = "read" /\ req[p].op = "create" /\ seen[p] \in Seen
    BY <1>2, <1>0 DEF CheckFunds, At, TypeOK
  <2>2. CanSpend(req[p].acct, req[p].amt) \in BOOLEAN
    BY DEF CanSpend
  <2> QED
    BY <1>2, <1>0, <2>1, <2>2, ProceedGuarded DEF CheckFunds, Begun
<1>3. CASE CommitCreate(p)
  <2> DEFINE a == req[p].acct
             n == req[p].amt
  <2>1. pc[p] = "checked" /\ req[p].op = "create" /\ Free(p, a) /\ UNCHANGED lock
    BY <1>3 DEF CommitCreate, At
  <2>2. a \in Accounts /\ n \in Int /\ (a \in Cards \/ n > 0)
    BY <2>1, <1>0, RequestTypes DEF Begun, FundsGuarded, Guarded, Asked
  <2>3. CASE KeyTaken(req[p].key)
    <3>1. Finish(p, "rejected") /\ UNCHANGED data
      BY <1>3, <2>3 DEF CommitCreate
    <3> QED
      BY <3>1, <2>1, <1>0, FinishGuarded DEF data, Finished
  <2>4. CASE ~KeyTaken(req[p].key)
    <3>1. /\ total' = [total EXCEPT ![a] = @ + n]
          /\ status' = status
          /\ Finish(p, "done")
      BY <1>3, <2>4 DEF CommitCreate
    <3>2. pc'[p] \notin Begun /\ req' = req /\ \A q \in Procs \ {p} : pc'[q] = pc[q]
      BY <3>1, <1>0, FinishTypes DEF Finished
    <3>3. Guarded(p)'
      BY <3>2 DEF Guarded, Sourced, Held, At, Begun
    <3>4. ASSUME NEW q \in Procs \ {p}, pc[q] = "locked"
          PROVE  total'[req[q].acct] >= req[q].amt
      <4>1. /\ total[req[q].acct] >= req[q].amt /\ req[q].acct \in Accounts
            /\ req[q].amt \in Int /\ req[q].acct \notin Cards
        BY <3>4, <1>0, RequestTypes DEF FundsGuarded, Guarded, Held, Sourced, Begun
      <4> QED
        BY <4>1, <3>1, <2>2, <1>0 DEF TypeOK
    <3>5. \A q \in Procs \ {p} : Guarded(q)'
      BY <3>1, <3>2, <3>4, <2>1, OthersGuarded DEF FundsGuarded
    <3>6. NoOverdraft'
      BY <3>1, <2>2, <1>0 DEF FundsGuarded, NoOverdraft, TypeOK
    <3> QED
      BY <3>3, <3>5, <3>6 DEF FundsGuarded
  <2> QED
    BY <2>3, <2>4
<1> QED
  BY <1>1, <1>2, <1>3 DEF Create

LEMMA GuardedAmend ==
  ASSUME TypeInv, FundsGuarded, NEW p \in Procs, Amend(p)
  PROVE  FundsGuarded'
<1>1. pc[p] \in Begun /\ req[p].op \in {"delete", "update"}
  BY DEF Amend, ReadRow, ReadRowAccount, CheckRowFunds, CommitDelete, CommitUpdate, At, Begun
<1> QED
  BY <1>1 DEF FundsGuarded, Guarded, Asked

LEMMA GuardedCommitMove ==
  ASSUME TypeInv, FundsGuarded, NEW p \in Procs, CommitMove(p)
  PROVE  FundsGuarded'
<1> DEFINE from == req[p].acct
           to == req[p].to
           n == req[p].amt
<1>0. TypeOK
  BY DEF TypeInv
<1>1. pc[p] = "locked" /\ Free(p, to) /\ Release(p)
  BY DEF CommitMove
<1>2. CASE KeyTaken(req[p].key)
  <2>1. PICK how \in Finished : Finish(p, how) /\ UNCHANGED data
    BY <1>2 DEF CommitMove, Finished
  <2> QED
    BY <2>1, <1>0, <1>1, FinishGuarded DEF data
<1>3. CASE ~KeyTaken(req[p].key)
  <2>1. /\ total' = [total EXCEPT ![from] = @ - n, ![to] = @ + n]
        /\ status' = status
        /\ Finish(p, "done")
    BY <1>3 DEF CommitMove
  <2>2. /\ from \in Accounts /\ to \in Accounts /\ n \in Int
        /\ lock[from] = p /\ total[from] >= n /\ n > 0 /\ from # to
    BY <1>0, <1>1, RequestTypes DEF Begun, FundsGuarded, Guarded, Held, Asked
  <2>3. pc'[p] \notin Begun /\ req' = req /\ \A q \in Procs \ {p} : pc'[q] = pc[q]
    BY <2>1, <1>0, FinishTypes DEF Finished
  <2>4. Guarded(p)'
    BY <2>3 DEF Guarded, Sourced, Held, At, Begun
  <2>5. ASSUME NEW q \in Procs \ {p}, pc[q] = "locked"
        PROVE  /\ lock'[req[q].acct] = lock[req[q].acct]
               /\ total'[req[q].acct] >= req[q].amt
    <3>1. /\ total[req[q].acct] >= req[q].amt /\ req[q].acct \in Accounts
          /\ req[q].amt \in Int /\ lock[req[q].acct] = q
      BY <2>5, <1>0, RequestTypes DEF FundsGuarded, Guarded, Held, Begun
    <3>2. req[q].acct # from
      BY <3>1, <2>2
    <3> QED
      BY <3>1, <3>2, <2>1, <2>2, <1>0, <1>1 DEF TypeOK, Release
  <2>6. \A q \in Procs \ {p} : Guarded(q)'
    BY <2>1, <2>3, <2>5, OthersGuarded DEF FundsGuarded
  <2>7. NoOverdraft'
    BY <2>1, <2>2, <1>0 DEF FundsGuarded, NoOverdraft, TypeOK
  <2> QED
    BY <2>4, <2>6, <2>7 DEF FundsGuarded
<1> QED
  BY <1>2, <1>3

LEMMA GuardedReadTransfer ==
  ASSUME TypeInv, FundsGuarded, NEW p \in Procs, ReadTransfer(p)
  PROVE  FundsGuarded'
<1>0. TypeOK
  BY DEF TypeInv
<1>1. /\ pc[p] = "begun" /\ req[p] \in Request /\ req[p].op = "reverse"
      /\ UNCHANGED <<data, lock>>
  BY <1>0 DEF ReadTransfer, At, TypeOK, Begun
<1>2. CASE Finish(p, "rejected")
  BY <1>2, <1>1, <1>0, FinishGuarded DEF data, Finished
<1>3. CASE ~Finish(p, "rejected")
  <2> DEFINE legs == {Main(req[p].of), Other(req[p].of)}
  <2>1. PICK debit \in legs, credit \in legs :
          /\ Active(debit) /\ Active(credit)
          /\ rows[credit].amt # 0 /\ rows[credit].acct # rows[debit].acct
          /\ req' = [req EXCEPT ![p] = [@ EXCEPT
                       !.op = "transfer", !.acct = rows[credit].acct,
                       !.to = rows[debit].acct, !.key = ServerKey,
                       !.amt = IF rows[credit].amt < 0 THEN -rows[credit].amt
                                                       ELSE rows[credit].amt]]
          /\ UNCHANGED <<pc, seen>>
    BY <1>3 DEF ReadTransfer
  <2>2. debit \in RowIds /\ credit \in RowIds
    BY <1>1 DEF Request, RowIds
  <2>3. rows[debit] \in Row /\ rows[credit] \in Row
    BY <2>1, <2>2, <1>0 DEF Active, Exists, TypeOK
  <2> DEFINE n == IF rows[credit].amt < 0 THEN -rows[credit].amt ELSE rows[credit].amt
             from == rows[credit].acct
             to == rows[debit].acct
             asked == [req[p] EXCEPT !.op = "transfer", !.acct = from, !.to = to,
                                     !.key = ServerKey, !.amt = n]
  <2>4. n > 0 /\ from # to
    BY <2>1, <2>3 DEF Row
  <2> HIDE DEF n, from, to
  <2>5. Asked(asked)
    BY <2>4, <1>1 DEF Asked, Request
  <2>6. req' = [req EXCEPT ![p] = asked]
    BY <2>1, <1>0 DEF TypeOK, n, from, to
  <2> HIDE DEF asked
  <2>7. Guarded(p)'
    BY <2>1, <2>5, <2>6, <1>0, <1>1 DEF Guarded, Sourced, Held, At, TypeOK
  <2>8. \A q \in Procs \ {p} : Guarded(q)'
    BY <2>1, <2>6, <1>0, <1>1, OthersGuarded DEF FundsGuarded, Guarded, Held, data, TypeOK
  <2>9. NoOverdraft'
    BY <1>1 DEF FundsGuarded, NoOverdraft, data
  <2> QED
    BY <2>7, <2>8, <2>9 DEF FundsGuarded
<1> QED
  BY <1>2, <1>3

LEMMA GuardedLockSource ==
  ASSUME TypeInv, FundsGuarded, NEW p \in Procs, LockSource(p)
  PROVE  FundsGuarded'
<1> DEFINE from == req[p].acct
<1>0. TypeOK
  BY DEF TypeInv
<1>1. /\ pc[p] = "read" /\ req[p].op \in {"transfer", "pay"}
      /\ lock[from] = NoProc /\ UNCHANGED data
  BY DEF LockSource, At
<1>2. CASE ~CanDebit(from, req[p].amt)
  <2>1. Finish(p, "rejected") /\ UNCHANGED lock
    BY <1>2 DEF LockSource
  <2> QED
    BY <2>1, <1>0, <1>1, FinishGuarded DEF data, Finished
<1>3. CASE CanDebit(from, req[p].amt)
  <2> DEFINE found == [seen[p] EXCEPT !.cached = cached[from]]
  <2>1. Goto(p, "locked", found) /\ lock' = [lock EXCEPT ![from] = p]
    BY <1>3 DEF LockSource
  <2>2. from \in Accounts /\ found \in Seen
    BY <1>0, <1>1, RequestTypes DEF Begun, Seen, TypeOK
  <2> HIDE DEF found
  <2>3. pc'[p] = "locked" /\ req' = req /\ \A q \in Procs \ {p} : pc'[q] = pc[q]
    BY <2>1, <2>2, <1>0, GotoTypes DEF Begun
  <2>4. Guarded(p)'
    <3>1. Asked(req[p]) /\ from \notin Cards /\ status[from] # "none"
      BY <1>1 DEF FundsGuarded, Guarded, Sourced, At, Begun
    <3>2. lock'[from] = p /\ total[from] >= req[p].amt
      BY <2>1, <2>2, <1>0, <1>3 DEF TypeOK, CanDebit
    <3> QED
      BY <3>1, <3>2, <2>3, <1>1 DEF Guarded, Asked, Sourced, Held, At, data
  <2>5. ASSUME NEW q \in Procs \ {p}, pc[q] = "locked"
        PROVE  lock'[req[q].acct] = lock[req[q].acct]
    <3>1. lock[req[q].acct] = q /\ q # NoProc
      BY <2>5, LedgerAssumption DEF FundsGuarded, Guarded, Held
    <3> QED
      BY <3>1, <2>1, <1>0, <1>1 DEF TypeOK
  <2>6. \A q \in Procs \ {p} : Guarded(q)'
    BY <2>3, <2>5, <1>1, OthersGuarded DEF FundsGuarded, Guarded, Held, data
  <2>7. NoOverdraft'
    BY <1>1 DEF FundsGuarded, NoOverdraft, data
  <2> QED
    BY <2>4, <2>6, <2>7 DEF FundsGuarded
<1> QED
  BY <1>2, <1>3

LEMMA GuardedMove ==
  ASSUME TypeInv, FundsGuarded, NEW p \in Procs, Move(p)
  PROVE  FundsGuarded'
<1>0. TypeOK
  BY DEF TypeInv
<1> DEFINE cards == [Nothing EXCEPT !.other = cached[req[p].to]]
<1>1. CASE ReadPair(p)
  <2>1. pc[p] = "begun" /\ req[p].op = "transfer"
    BY <1>1 DEF ReadPair, At
  <2>2. cards \in Seen
    BY <2>1, <1>0, RequestTypes DEF Begun, TypeOK, Nothing, Seen
  <2> DEFINE ok == /\ status[req[p].acct] = "active" /\ status[req[p].to] = "active"
                   /\ ValidPair(req[p].acct, req[p].to)
  <2>3. Proceed(p, ok, "read", cards)
    BY <1>1 DEF ReadPair
  <2>4. ok \in BOOLEAN /\ (ok => req[p].acct \notin Cards /\ status[req[p].acct] # "none")
    BY DEF ValidPair
  <2> HIDE DEF ok, cards
  <2> QED
    BY <1>0, <2>1, <2>2, <2>3, <2>4, ProceedGuarded DEF Begun
<1>2. CASE ReadCard(p)
  <2>1. pc[p] = "begun" /\ req[p].op = "pay"
    BY <1>2 DEF ReadCard, At
  <2>2. cards \in Seen
    BY <2>1, <1>0, RequestTypes DEF Begun, TypeOK, Nothing, Seen
  <2> QED
    BY <1>2, <1>0, <2>1, <2>2, ProceedGuarded DEF ReadCard, Begun
<1>3. CASE CheckDebt(p)
  <2>1. pc[p] = "row" /\ req[p].op = "pay" /\ seen[p] \in Seen
    BY <1>3, <1>0 DEF CheckDebt, At, TypeOK
  <2> DEFINE ok == /\ total[req[p].to] < 0
                   /\ req[p].amt <= -total[req[p].to]
                   /\ status[req[p].acct] = "active"
                   /\ req[p].acct \notin Cards
  <2>2. Proceed(p, ok, "read", seen[p])
    BY <1>3 DEF CheckDebt
  <2>3. ok \in BOOLEAN /\ (ok => req[p].acct \notin Cards /\ status[req[p].acct] # "none")
    OBVIOUS
  <2> HIDE DEF ok
  <2> QED
    BY <1>0, <2>1, <2>2, <2>3, ProceedGuarded DEF Begun
<1> QED
  BY <1>1, <1>2, <1>3, GuardedReadTransfer, GuardedLockSource, GuardedCommitMove DEF Move

LEMMA GuardedOpenClose ==
  ASSUME TypeInv, FundsGuarded, NEW p \in Procs, OpenClose(p)
  PROVE  FundsGuarded'
<1>0. TypeOK
  BY DEF TypeInv
<1> DEFINE a == req[p].acct
<1>1. CASE ReadParent(p)
  <2>1. pc[p] = "begun" /\ req[p].op = "open" /\ Nothing \in Seen
    BY <1>1 DEF ReadParent, At, Nothing, Seen
  <2> DEFINE ok == \/ Parent[a] = NoAccount
                   \/ status[Parent[a]] = "active" /\ ~IsPocket(Parent[a])
  <2>2. ok \in BOOLEAN /\ Proceed(p, ok, "checked", Nothing)
    BY <1>1 DEF ReadParent
  <2> HIDE DEF ok
  <2> QED
    BY <1>0, <2>1, <2>2, ProceedGuarded DEF Begun
<1>2. CASE CommitOpen(p)
  <2>1. pc[p] = "checked" /\ UNCHANGED lock
    BY <1>2 DEF CommitOpen, At
  <2>2. a \in Accounts
    BY <2>1, <1>0, RequestTypes DEF Begun
  <2>3. CASE status[a] # "none"
    <3>1. Finish(p, "rejected") /\ UNCHANGED data
      BY <1>2, <2>3 DEF CommitOpen
    <3> QED
      BY <3>1, <2>1, <1>0, FinishGuarded DEF data, Finished
  <2>4. CASE status[a] = "none"
    <3>1. /\ status' = [status EXCEPT ![a] = "active"]
          /\ total' = [total EXCEPT ![a] = Opening[a]]
          /\ Finish(p, "done")
      BY <1>2, <2>4 DEF CommitOpen
    <3>2. pc'[p] \notin Begun /\ req' = req /\ \A q \in Procs \ {p} : pc'[q] = pc[q]
      BY <3>1, <1>0, FinishTypes DEF Finished
    <3>3. Guarded(p)'
      BY <3>2 DEF Guarded, Sourced, Held, At, Begun
    <3>4. ASSUME NEW q \in Procs \ {p}, pc[q] = "locked"
          PROVE  total'[req[q].acct] >= req[q].amt
      <4>1. /\ total[req[q].acct] >= req[q].amt /\ req[q].acct \in Accounts
            /\ status[req[q].acct] # "none"
        BY <3>4, <1>0, RequestTypes DEF FundsGuarded, Guarded, Held, Sourced, Begun
      <4> QED
        BY <4>1, <3>1, <2>4, <1>0 DEF TypeOK
    <3>5. \A q \in Procs \ {p} : status[req[q].acct] # "none" => status'[req[q].acct] # "none"
      <4> SUFFICES ASSUME NEW b, status[b] # "none" PROVE status'[b] # "none"
        OBVIOUS
      <4>1. CASE b = a
        BY <4>1, <2>4
      <4>2. CASE b \in Accounts \ {a}
        BY <4>2, <3>1, <1>0 DEF TypeOK
      <4>3. CASE b \notin Accounts
        BY <4>3, <3>1, <1>0 DEF TypeOK
      <4> QED
        BY <4>1, <4>2, <4>3
    <3>6. \A q \in Procs \ {p} : Guarded(q)'
      BY <3>2, <3>4, <3>5, <2>1, OthersGuarded DEF FundsGuarded
    <3>7. NoOverdraft'
      BY <3>1, <2>2, <1>0, LedgerAssumption DEF FundsGuarded, NoOverdraft, TypeOK
    <3> QED
      BY <3>3, <3>6, <3>7 DEF FundsGuarded
  <2> QED
    BY <2>3, <2>4
<1>3. CASE ReadBalance(p)
  <2>1. pc[p] = "begun" /\ req[p].op = "close"
    BY <1>3 DEF ReadBalance, At
  <2>2. [Nothing EXCEPT !.total = total[a]] \in Seen
    BY <2>1, <1>0, RequestTypes DEF Begun, TypeOK, Nothing, Seen
  <2> QED
    BY <1>3, <1>0, <2>1, <2>2, ProceedGuarded DEF ReadBalance, Begun
<1>4. CASE CountMovements(p)
  <2>1. pc[p] = "row" /\ req[p].op = "close" /\ seen[p] \in Seen
    BY <1>4, <1>0 DEF CountMovements, At, TypeOK
  <2> QED
    BY <1>4, <1>0, <2>1, ProceedGuarded DEF CountMovements, Begun
<1>5. CASE CheckPockets(p)
  <2>1. pc[p] = "read" /\ req[p].op = "close" /\ seen[p] \in Seen
    BY <1>5, <1>0 DEF CheckPockets, At, TypeOK
  <2> DEFINE ok == \A b \in Pockets(a) : total[b] = 0
  <2>2. ok \in BOOLEAN /\ Proceed(p, ok, "checked", seen[p])
    BY <1>5 DEF CheckPockets
  <2> HIDE DEF ok
  <2> QED
    BY <1>0, <2>1, <2>2, ProceedGuarded DEF Begun
<1>6. CASE ReadCardBalance(p)
  <2>1. pc[p] = "begun" /\ req[p].op = "closeCard" /\ Nothing \in Seen
    BY <1>6 DEF ReadCardBalance, At, Nothing, Seen
  <2> QED
    BY <1>6, <1>0, <2>1, ProceedGuarded DEF ReadCardBalance, Begun
<1>7. CASE CommitClose(p)
  <2>1. /\ pc[p] = "checked" /\ UNCHANGED lock /\ Free(p, a)
        /\ status' = [status EXCEPT ![a] = "deleted"]
        /\ Finish(p, "done")
    BY <1>7 DEF CommitClose, At
  <2>2. \A b \in Accounts \ {a} : total'[b] = total[b]
    BY <1>7, <1>0 DEF CommitClose, TypeOK
  <2>3. a \in Accounts
    BY <2>1, <1>0, RequestTypes DEF Begun
  <2>4. pc'[p] \notin Begun /\ req' = req /\ \A q \in Procs \ {p} : pc'[q] = pc[q]
    BY <2>1, <1>0, FinishTypes DEF Finished
  <2>5. Guarded(p)'
    BY <2>4 DEF Guarded, Sourced, Held, At, Begun
  <2>6. ASSUME NEW q \in Procs \ {p}, pc[q] = "locked"
        PROVE  total'[req[q].acct] >= req[q].amt
    <3>1. /\ total[req[q].acct] >= req[q].amt /\ req[q].acct \in Accounts
          /\ lock[req[q].acct] = q /\ q # NoProc
      BY <2>6, <1>0, RequestTypes, LedgerAssumption DEF FundsGuarded, Guarded, Held, Begun
    <3>2. req[q].acct # a
      BY <3>1, <2>1 DEF Free
    <3> QED
      BY <3>1, <3>2, <2>2
  <2>7. \A q \in Procs \ {p} : status[req[q].acct] # "none" => status'[req[q].acct] # "none"
    <3> SUFFICES ASSUME NEW b, status[b] # "none" PROVE status'[b] # "none"
      OBVIOUS
    <3>1. CASE b = a
      BY <3>1, <2>1, <2>3, <1>0 DEF TypeOK
    <3>2. CASE b # a
      BY <3>2, <2>1, <1>0 DEF TypeOK
    <3> QED
      BY <3>1, <3>2
  <2>8. \A q \in Procs \ {p} : Guarded(q)'
    BY <2>1, <2>4, <2>6, <2>7, OthersGuarded DEF FundsGuarded
  <2>9. NoOverdraft'
    BY <2>1, <2>2, <2>3, <1>0 DEF FundsGuarded, NoOverdraft, TypeOK
  <2> QED
    BY <2>5, <2>8, <2>9 DEF FundsGuarded
<1> QED
  BY <1>1, <1>2, <1>3, <1>4, <1>5, <1>6, <1>7 DEF OpenClose

LEMMA GuardedReconcile ==
  ASSUME TypeInv, FundsGuarded, NEW p \in Procs, Reconcile(p)
  PROVE  FundsGuarded'
<1>0. TypeOK
  BY DEF TypeInv
<1> DEFINE a == req[p].acct
<1>1. CASE ReadCached(p)
  <2>1. pc[p] = "begun" /\ req[p].op = "reconcile"
    BY <1>1 DEF ReadCached, At
  <2>2. [Nothing EXCEPT !.cached = cached[a]] \in Seen
    BY <2>1, <1>0, RequestTypes DEF Begun, TypeOK, Nothing, Seen
  <2> QED
    BY <1>1, <1>0, <2>1, <2>2, ProceedGuarded DEF ReadCached, Begun
<1>2. CASE ReadTotal(p)
  <2>1. pc[p] = "read" /\ req[p].op = "reconcile" /\ UNCHANGED <<data, lock>>
    BY <1>2 DEF ReadTotal, At
  <2> DEFINE found == [seen[p] EXCEPT !.total = total[a]]
  <2>2. found \in Seen
    BY <2>1, <1>0, RequestTypes DEF Begun, TypeOK, Seen
  <2>3. CASE Goto(p, "checked", found)
    <3>1. Proceed(p, TRUE, "checked", found)
      BY <2>1, <2>3 DEF Proceed
    <3> HIDE DEF found
    <3> QED
      BY <3>1, <1>0, <2>1, <2>2, ProceedGuarded DEF Begun
  <2>4. CASE Finish(p, "done")
    BY <2>4, <2>1, <1>0, FinishGuarded DEF data, Finished
  <2> QED
    BY <1>2, <2>3, <2>4 DEF ReadTotal
<1>3. CASE CommitReconcile(p)
  BY <1>3, <1>0, FinishGuarded DEF CommitReconcile, Finished
<1> QED
  BY <1>1, <1>2, <1>3 DEF Reconcile

LEMMA GuardedBegin ==
  ASSUME LockedDebitsOnly, TypeInv, FundsGuarded, NEW p \in Procs, Begin(p)
  PROVE  FundsGuarded'
<1>0. TypeOK
  BY DEF TypeInv
<1>1. PICK r \in RequestsOf[p] :
        /\ req' = [req EXCEPT ![p] = r]
        /\ pc' = [pc EXCEPT ![p] = IF AlreadyDone(r) THEN "repeated" ELSE "begun"]
  BY DEF Begin
<1>2. UNCHANGED <<data, lock, seen>>
  BY DEF Begin
<1>3. Asked(r)
  BY LedgerAssumption DEF LockedDebitsOnly, Asked, WellFormed
<1>4. Guarded(p)'
  BY <1>1, <1>3, <1>0 DEF Guarded, Sourced, Held, At, TypeOK, Begun
<1>5. \A q \in Procs \ {p} : Guarded(q)'
  BY <1>1, <1>2, <1>0, OthersGuarded DEF FundsGuarded, Guarded, Held, data, TypeOK
<1>6. NoOverdraft'
  BY <1>2 DEF FundsGuarded, NoOverdraft, data
<1> QED
  BY <1>4, <1>5, <1>6 DEF FundsGuarded

LEMMA GuardedInit == Init => FundsGuarded
<1> SUFFICES ASSUME Init PROVE FundsGuarded
  OBVIOUS
<1>1. NoOverdraft
  BY LedgerAssumption DEF Init, NoOverdraft
<1>2. \A p \in Procs : Guarded(p)
  BY DEF Init, Guarded, Sourced, Held, At, Begun
<1> QED
  BY <1>1, <1>2 DEF FundsGuarded

LEMMA GuardedNext ==
  ASSUME LockedDebitsOnly, TypeInv, FundsGuarded, [Next]_vars
  PROVE  FundsGuarded'
<1>1. ASSUME NEW p \in Procs, Begin(p) PROVE FundsGuarded'
  BY <1>1, GuardedBegin
<1>2. ASSUME NEW p \in Procs, Abort(p) PROVE FundsGuarded'
  BY <1>2, FinishGuarded DEF Abort, data, TypeInv, Finished
<1>3. ASSUME NEW p \in Procs, Step(p) PROVE FundsGuarded'
  BY <1>3, GuardedCreate, GuardedAmend, GuardedMove, GuardedOpenClose, GuardedReconcile DEF Step
<1>4. CASE UNCHANGED vars
  BY <1>4 DEF vars, FundsGuarded, NoOverdraft, Guarded, Sourced, Held, At
<1> QED
  BY <1>1, <1>2, <1>3, <1>4 DEF Next, AllOver

\* A ledger whose debits are all made under the lock of their account overdraws
\* none, whatever overlaps, aborts or is retried.
THEOREM NeverOverdrawn ==
  ASSUME LockedDebitsOnly
  PROVE  Spec => []NoOverdraft
<1>1. Init => TypeInv /\ FundsGuarded
  BY TypeInit, GuardedInit
<1>2. TypeInv /\ FundsGuarded /\ [Next]_vars => TypeInv' /\ FundsGuarded'
  BY TypeNext, GuardedNext
<1>3. FundsGuarded => NoOverdraft
  BY DEF FundsGuarded
<1> QED
  BY <1>1, <1>2, <1>3, PTL DEF Spec
-----------------------------------------------------------------------------
(* An idempotency key takes effect once, in every ledger: whatever the     *)
(* requests are, however they overlap, abort and are retried, and even when*)
(* the transaction the key made has been deleted.                          *)

KeyedOps == {"create", "transfer", "pay"}

\* The row that carries the key of a request.
KeyRow(p) == IF req[p].op = "pay" THEN Other(p) ELSE Main(p)

\* The unique index: no two rows, active or not, carry one key of the clients.
UniqueKeys ==
  \A i, j \in RowIds :
    (rows[i] # NoRow /\ rows[j] # NoRow /\ rows[i].key = rows[j].key /\ rows[i].key \in Keys) =>
      i = j

\* A request that took effect has left its key in the table.
Served(p) ==
  (pc[p] = "done" /\ req[p].op \in KeyedOps /\ req[p].key \in Keys) =>
    rows[KeyRow(p)] # NoRow /\ rows[KeyRow(p)].key = req[p].key

\* Only moves take a lock.
Moving(p) == pc[p] = "locked" => req[p].op \in {"transfer", "pay"}

KeysKept == UniqueKeys /\ \A p \in Procs : Served(p) /\ Moving(p)

LEMMA KeysKeptImplies == KeysKept => OncePerKey
<1> SUFFICES ASSUME KeysKept, NEW p \in Procs, NEW q \in Procs,
                    pc[p] = "done", pc[q] = "done", req[p].key = req[q].key,
                    req[p].key \in Keys, {req[p].op, req[q].op} \subseteq KeyedOps
             PROVE  p = q
  BY DEF OncePerKey, KeyedOps
<1>1. /\ rows[KeyRow(p)] # NoRow /\ rows[KeyRow(p)].key = req[p].key
      /\ rows[KeyRow(q)] # NoRow /\ rows[KeyRow(q)].key = req[p].key
  BY DEF KeysKept, Served
<1>2. KeyRow(p) \in RowIds /\ KeyRow(q) \in RowIds
  BY DEF KeyRow, RowIds
<1>3. KeyRow(p) = KeyRow(q)
  BY <1>1, <1>2 DEF KeysKept, UniqueKeys
<1> QED
  BY <1>3 DEF KeyRow, Main, Other

\* A step that makes no row and changes no key.
LEMMA KeepingRows ==
  ASSUME KeysKept, NEW p \in Procs,
         \A q \in Procs \ {p} : pc'[q] = pc[q] /\ req'[q] = req[q],
         \A i \in RowIds : rows[i] # NoRow => rows'[i] # NoRow /\ rows'[i].key = rows[i].key,
         \A i \in RowIds : rows[i] = NoRow => rows'[i] = NoRow,
         pc'[p] # "done" \/ req'[p].op \notin KeyedOps,
         pc'[p] = "locked" => req'[p].op \in {"transfer", "pay"}
  PROVE  KeysKept'
<1>1. UniqueKeys'
  BY DEF KeysKept, UniqueKeys
<1>2. ASSUME NEW q \in Procs PROVE Served(q)' /\ Moving(q)'
  <2>1. CASE q = p
    BY <2>1 DEF Served, Moving
  <2>2. CASE q # p
    <3>1. KeyRow(q) \in RowIds
      BY DEF KeyRow, RowIds
    <3> QED
      BY <2>2, <3>1 DEF KeysKept, Served, KeyRow, Moving
  <2> QED
    BY <2>1, <2>2
<1> QED
  BY <1>1, <1>2 DEF KeysKept

\* A commit of p's own rows, of which only the one for the key carries a
\* client's key, and one that was not taken.
LEMMA MakingRows ==
  ASSUME KeysKept, NEW p \in Procs, ~KeyTaken(req[p].key), req' = req,
         req[p].op \in KeyedOps, pc'[p] # "locked",
         \A q \in Procs \ {p} : pc'[q] = pc[q],
         \A i \in RowIds \ {Main(p), Other(p)} : rows'[i] = rows[i],
         rows'[KeyRow(p)] # NoRow /\ rows'[KeyRow(p)].key = req[p].key,
         \A i \in {Main(p), Other(p)} \ {KeyRow(p)} :
           rows'[i] = rows[i] \/ rows'[i].key \notin Keys
  PROVE  KeysKept'
<1>1. UniqueKeys'
  <2> SUFFICES ASSUME NEW i \in RowIds, NEW j \in RowIds, rows'[i] # NoRow, rows'[j] # NoRow,
                      rows'[i].key = rows'[j].key, rows'[i].key \in Keys
               PROVE  i = j
    BY DEF UniqueKeys
  <2>1. \A x \in {i, j} : x = KeyRow(p) \/ rows'[x] = rows[x]
    BY DEF KeyRow
  <2>2. \A x \in {i, j} : rows'[x] = rows[x] /\ rows'[KeyRow(p)].key \in Keys =>
          rows[x].key # rows'[KeyRow(p)].key
    BY DEF KeyTaken, Exists
  <2> QED
    BY <2>1, <2>2 DEF KeysKept, UniqueKeys
<1>2. ASSUME NEW q \in Procs PROVE Served(q)' /\ Moving(q)'
  <2>1. CASE q = p
    BY <2>1 DEF Served, KeyRow, Moving
  <2>2. CASE q # p
    <3>1. KeyRow(q) \in RowIds \ {Main(p), Other(p)}
      BY <2>2 DEF KeyRow, RowIds, Main, Other
    <3> QED
      BY <2>2, <3>1 DEF KeysKept, Served, KeyRow, Moving
  <2> QED
    BY <2>1, <2>2
<1> QED
  BY <1>1, <1>2 DEF KeysKept

-----------------------------------------------------------------------------
(* The steps of a request.                                                 *)

\* A request that ends without a row of its own.
LEMMA KeysEnd ==
  ASSUME TypeOK, KeysKept, NEW p \in Procs, NEW how \in Finished, Finish(p, how),
         rows' = rows, how # "done" \/ req[p].op \notin KeyedOps
  PROVE  KeysKept'
<1>1. req' = req /\ \A q \in Procs \ {p} : pc'[q] = pc[q]
  BY FinishTypes
<1>2. pc'[p] # "locked" /\ (pc'[p] # "done" \/ how = "done")
  BY DEF Finish, TypeOK, Finished
<1> QED
  BY <1>1, <1>2, KeepingRows

LEMMA KeysRead ==
  ASSUME TypeOK, KeysKept, NEW p \in Procs, NEW ok, NEW label \in Begun \ {"locked"}, NEW found,
         Proceed(p, ok, label, found)
  PROVE  KeysKept'
<1>1. CASE ok
  <2>1. Goto(p, label, found) /\ rows' = rows
    BY <1>1 DEF Proceed, data
  <2>2. pc'[p] \notin {"done", "locked"} /\ req' = req /\ \A q \in Procs \ {p} : pc'[q] = pc[q]
    BY <2>1 DEF Goto, TypeOK, Begun
  <2> QED
    BY <2>1, <2>2, KeepingRows
<1>2. CASE ~ok
  <2>1. Finish(p, "rejected") /\ rows' = rows
    BY <1>2 DEF Proceed, data
  <2> QED
    BY <2>1, KeysEnd DEF Finished
<1> QED
  BY <1>1, <1>2

LEMMA KeysReads ==
  ASSUME TypeOK, KeysKept, NEW p \in Procs,
         \/ ReadAccount(p) \/ CheckFunds(p) \/ ReadRow(p) \/ ReadRowAccount(p) \/ CheckRowFunds(p)
         \/ ReadPair(p) \/ ReadCard(p) \/ CheckDebt(p) \/ ReadParent(p) \/ ReadBalance(p)
         \/ CountMovements(p) \/ CheckPockets(p) \/ ReadCardBalance(p) \/ ReadCached(p)
  PROVE  KeysKept'
<1> DEFINE Reads == \E ok, label, found : label \in Begun \ {"locked"} /\ Proceed(p, ok, label, found)
<1>1. CASE ReadAccount(p) \/ CheckFunds(p)
  <2>1. Reads
    BY <1>1, Zenon DEF ReadAccount, CheckFunds, Begun
  <2> QED
    BY <2>1, KeysRead
<1>2. CASE ReadRow(p) \/ ReadRowAccount(p) \/ CheckRowFunds(p)
  <2>1. Reads
    BY <1>2, Zenon DEF ReadRow, ReadRowAccount, CheckRowFunds, Begun
  <2> QED
    BY <2>1, KeysRead
<1>3. CASE ReadPair(p) \/ ReadCard(p) \/ CheckDebt(p)
  <2>1. Reads
    BY <1>3, Zenon DEF ReadPair, ReadCard, CheckDebt, Begun
  <2> QED
    BY <2>1, KeysRead
<1>4. CASE ReadParent(p) \/ ReadBalance(p) \/ CountMovements(p) \/ CheckPockets(p) \/ ReadCardBalance(p)
  <2>1. Reads
    BY <1>4, Zenon DEF ReadParent, ReadBalance, CountMovements, CheckPockets, ReadCardBalance, Begun
  <2> QED
    BY <2>1, KeysRead
<1>5. CASE ReadCached(p)
  <2>1. Reads
    BY <1>5, Zenon DEF ReadCached, Begun
  <2> QED
    BY <2>1, KeysRead
<1> QED
  BY <1>1, <1>2, <1>3, <1>4, <1>5

LEMMA KeysCreate ==
  ASSUME TypeOK, KeysKept, NEW p \in Procs, CommitCreate(p)
  PROVE  KeysKept'
<1> DEFINE a == req[p].acct
           n == req[p].amt
           k == req[p].key
           new == NewRow(a, n, IF n > 0 THEN "INCOME" ELSE "EXPENSE", k)
<1>1. pc[p] \in Begun /\ req[p].op = "create"
  BY DEF CommitCreate, At, Begun
<1>2. CASE KeyTaken(k)
  BY <1>2, KeysEnd DEF CommitCreate, data, Finished
<1>3. CASE ~KeyTaken(k)
  <2>1. rows' = [rows EXCEPT ![Main(p)] = new] /\ Finish(p, "done")
    BY <1>3 DEF CommitCreate
  <2>2. new # NoRow /\ new.key = k
    <3>1. new \in Row
      BY <1>1, RequestTypes DEF NewRow, Row, Kinds
    <3> QED
      BY <3>1, LedgerAssumption DEF NewRow
  <2> HIDE DEF new
  <2>3. pc'[p] # "locked" /\ req' = req /\ \A q \in Procs \ {p} : pc'[q] = pc[q]
    BY <2>1, FinishTypes DEF Finished, Begun
  <2>4. Main(p) \in RowIds /\ KeyRow(p) = Main(p)
    BY <1>1 DEF KeyRow, RowIds
  <2>5. rows'[Main(p)] = new /\ \A i \in RowIds \ {Main(p)} : rows'[i] = rows[i]
    BY <2>1, <2>4 DEF TypeOK
  <2>6. Other(p) \in RowIds
    BY DEF RowIds
  <2> QED
    BY <1>1, <1>3, <2>2, <2>3, <2>4, <2>5, <2>6, MakingRows DEF KeyedOps
<1> QED
  BY <1>2, <1>3

LEMMA KeysMove ==
  ASSUME TypeOK, KeysKept, NEW p \in Procs, CommitMove(p)
  PROVE  KeysKept'
<1> DEFINE k == req[p].key
           debit == DebitRow(req[p])
           credit == CreditRow(req[p])
<1>1. pc[p] \in Begun /\ req[p].op \in {"transfer", "pay"}
  BY DEF CommitMove, Begun, KeysKept, Moving
<1>2. CASE KeyTaken(k)
  <2>1. PICK how \in Finished \ {"done"} : Finish(p, how) /\ UNCHANGED data
    BY <1>2 DEF CommitMove, Finished
  <2> QED
    BY <2>1, KeysEnd DEF data
<1>3. CASE ~KeyTaken(k)
  <2>1. rows' = [rows EXCEPT ![Main(p)] = debit, ![Other(p)] = credit] /\ Finish(p, "done")
    BY <1>3 DEF CommitMove
  <2>2. debit # NoRow /\ credit # NoRow
    <3>1. debit \in Row /\ credit \in Row
      BY <1>1, RequestTypes DEF DebitRow, CreditRow, NewRow, Row, Kinds
    <3> QED
      BY <3>1, LedgerAssumption
  <2>3. IF req[p].op = "pay" THEN credit.key = k /\ debit.key = ServerKey
                             ELSE debit.key = k /\ credit.key = ServerKey
    BY DEF DebitRow, CreditRow, NewRow
  <2> HIDE DEF debit, credit
  <2>4. pc'[p] # "locked" /\ req' = req /\ \A q \in Procs \ {p} : pc'[q] = pc[q]
    BY <2>1, FinishTypes DEF Finished, Begun
  <2>5. /\ rows'[Main(p)] = debit /\ rows'[Other(p)] = credit
        /\ \A i \in RowIds \ {Main(p), Other(p)} : rows'[i] = rows[i]
    <3>1. Main(p) \in RowIds /\ Other(p) \in RowIds /\ Main(p) # Other(p)
      BY DEF RowIds, Main, Other
    <3> QED
      BY <3>1, <2>1 DEF TypeOK
  <2>6. rows'[KeyRow(p)] # NoRow /\ rows'[KeyRow(p)].key = k
    BY <2>2, <2>3, <2>5 DEF KeyRow
  <2>7. \A i \in {Main(p), Other(p)} \ {KeyRow(p)} : rows'[i].key \notin Keys
    BY <2>3, <2>5, LedgerAssumption DEF KeyRow
  <2> QED
    BY <1>1, <1>3, <2>4, <2>5, <2>6, <2>7, MakingRows DEF KeyedOps
<1> QED
  BY <1>2, <1>3

LEMMA KeysAmend ==
  ASSUME TypeInv, KeysKept, NEW p \in Procs, CommitDelete(p) \/ CommitUpdate(p)
  PROVE  KeysKept'
<1> DEFINE i == req[p].row
<1>0. TypeOK
  BY DEF TypeInv
<1>1. pc[p] = "checked" /\ req[p].op \in {"delete", "update"} /\ Finish(p, "done")
  BY DEF CommitDelete, CommitUpdate, At
<1>2. i \in RowIds /\ rows[i] \in Row /\ rows[i] # NoRow
  <2>1. i \in RowIds /\ rows[i] \in Row \cup {NoRow} /\ req[p] \in Request
    BY <1>0, <1>1, RequestTypes DEF Begun, TypeOK
  <2> QED
    BY <2>1, <1>1 DEF TypeInv, RowFound
<1>3. PICK new \in Row : new.key = rows[i].key /\ rows' = [rows EXCEPT ![i] = new]
  <2>1. CASE CommitDelete(p)
    <3> DEFINE new == [rows[i] EXCEPT !.active = FALSE]
    <3>1. new \in Row /\ new.key = rows[i].key
      BY <1>2 DEF Row
    <3>2. rows' = [rows EXCEPT ![i] = new]
      BY <2>1, <1>0, <1>2 DEF CommitDelete, SetActive, TypeOK
    <3> QED
      BY <3>1, <3>2
  <2>2. CASE CommitUpdate(p)
    <3> DEFINE new == [rows[i] EXCEPT !.amt = req[p].amt]
    <3>1. new \in Row /\ new.key = rows[i].key
      BY <1>0, <1>1, <1>2, RequestTypes DEF Row, Begun
    <3>2. rows' = [rows EXCEPT ![i] = new]
      BY <2>2, <1>0, <1>2 DEF CommitUpdate, TypeOK
    <3> QED
      BY <3>1, <3>2
  <2> QED
    BY <2>1, <2>2
<1>4. \A j \in RowIds : rows[j] # NoRow => rows'[j] # NoRow /\ rows'[j].key = rows[j].key
  BY <1>0, <1>2, <1>3, LedgerAssumption DEF TypeOK
<1>5. \A j \in RowIds : rows[j] = NoRow => rows'[j] = NoRow
  BY <1>0, <1>2, <1>3 DEF TypeOK
<1>6. pc'[p] # "locked" /\ req' = req /\ \A q \in Procs \ {p} : pc'[q] = pc[q]
  BY <1>0, <1>1, FinishTypes DEF Finished, Begun
<1> QED
  BY <1>1, <1>4, <1>5, <1>6, KeepingRows DEF KeyedOps

LEMMA KeysOpen ==
  ASSUME TypeOK, KeysKept, NEW p \in Procs, CommitOpen(p)
  PROVE  KeysKept'
<1> DEFINE a == req[p].acct
           new == NewRow(a, Opening[a], "INCOME", ServerKey)
<1>1. req[p].op = "open"
  BY DEF CommitOpen, At
<1>2. CASE rows' = rows
  <2>1. PICK how \in Finished : Finish(p, how)
    BY DEF CommitOpen, Finished
  <2> QED
    BY <2>1, <1>1, <1>2, KeysEnd DEF KeyedOps
<1>3. CASE rows' # rows
  <2>1. rows' = [rows EXCEPT ![OpeningRow(a)] = new] /\ Finish(p, "done")
    BY <1>3 DEF CommitOpen, data
  <2>2. new.key \notin Keys
    BY LedgerAssumption DEF NewRow
  <2> HIDE DEF new
  <2>3. \A i \in RowIds \ {OpeningRow(a)} : rows'[i] = rows[i]
    BY <2>1 DEF TypeOK
  <2>4. \A i \in RowIds : rows'[i].key \in Keys => rows'[i] = rows[i]
    BY <2>1, <2>2 DEF TypeOK
  <2>5. UniqueKeys'
    BY <2>4 DEF KeysKept, UniqueKeys
  <2>6. /\ pc'[p] # "locked" /\ req' = req /\ req'[p].op \notin KeyedOps
        /\ \A q \in Procs \ {p} : pc'[q] = pc[q]
    BY <2>1, <1>1, FinishTypes DEF Finished, Begun, KeyedOps
  <2>7. ASSUME NEW q \in Procs PROVE Served(q)' /\ Moving(q)'
    <3>1. KeyRow(q) \in RowIds \ {OpeningRow(a)}
      BY DEF KeyRow, RowIds, Main, Other, OpeningRow
    <3> QED
      BY <2>3, <2>6, <3>1 DEF KeysKept, Served, Moving, KeyRow
  <2> QED
    BY <2>5, <2>7 DEF KeysKept
<1> QED
  BY <1>2, <1>3

LEMMA KeysClose ==
  ASSUME TypeOK, KeysKept, NEW p \in Procs, CommitClose(p)
  PROVE  KeysKept'
<1> DEFINE i == OpeningRow(req[p].acct)
<1>1. pc[p] = "checked" /\ req[p].op \notin KeyedOps /\ Finish(p, "done")
  BY DEF CommitClose, At, KeyedOps
<1>2. CASE rows' = rows
  BY <1>1, <1>2, KeysEnd DEF Finished
<1>3. CASE rows' # rows
  <2> DEFINE new == [rows[i] EXCEPT !.active = FALSE]
  <2>1. Active(i) /\ rows' = SetActive(i, FALSE)
    BY <1>3 DEF CommitClose
  <2>2. i \in RowIds /\ rows[i] \in Row
    <3>1. i \in RowIds
      BY <1>1, RequestTypes DEF Begun
    <3> QED
      BY <2>1, <3>1 DEF TypeOK, Active, Exists
  <2>3. new \in Row /\ new.key = rows[i].key
    BY <2>2 DEF Row
  <2>4. rows' = [rows EXCEPT ![i] = new]
    BY <2>1, <2>2 DEF SetActive, TypeOK
  <2> HIDE DEF new
  <2>5. \A j \in RowIds : rows[j] # NoRow => rows'[j] # NoRow /\ rows'[j].key = rows[j].key
    BY <2>2, <2>3, <2>4, LedgerAssumption DEF TypeOK
  <2>6. \A j \in RowIds : rows[j] = NoRow => rows'[j] = NoRow
    BY <2>1, <2>2, <2>4 DEF TypeOK, Active, Exists
  <2>7. pc'[p] # "locked" /\ req' = req /\ \A q \in Procs \ {p} : pc'[q] = pc[q]
    BY <1>1, FinishTypes DEF Finished, Begun
  <2> QED
    BY <1>1, <2>5, <2>6, <2>7, KeepingRows
<1> QED
  BY <1>2, <1>3

LEMMA KeysRest ==
  ASSUME TypeOK, KeysKept, NEW p \in Procs,
         LockSource(p) \/ ReadTransfer(p) \/ ReadTotal(p) \/ CommitReconcile(p)
  PROVE  KeysKept'
<1>1. CASE LockSource(p)
  <2>1. CASE Finish(p, "rejected")
    BY <1>1, <2>1, KeysEnd DEF LockSource, data, Finished
  <2>2. CASE ~Finish(p, "rejected")
    <3>1. PICK found : Goto(p, "locked", found)
      BY <1>1, <2>2 DEF LockSource
    <3>2. req[p].op \in {"transfer", "pay"} /\ rows' = rows
      BY <1>1 DEF LockSource, At, data
    <3>3. pc'[p] = "locked" /\ req' = req /\ \A q \in Procs \ {p} : pc'[q] = pc[q]
      BY <3>1 DEF Goto, TypeOK
    <3> QED
      BY <3>2, <3>3, KeepingRows
  <2> QED
    BY <2>1, <2>2
<1>2. CASE ReadTransfer(p)
  <2>1. CASE Finish(p, "rejected")
    BY <1>2, <2>1, KeysEnd DEF ReadTransfer, data, Finished
  <2>2. CASE ~Finish(p, "rejected")
    <3>1. pc[p] = "begun" /\ pc' = pc /\ rows' = rows /\ \A q \in Procs \ {p} : req'[q] = req[q]
      BY <1>2, <2>2 DEF ReadTransfer, At, data, TypeOK
    <3> QED
      BY <3>1, KeepingRows
  <2> QED
    BY <2>1, <2>2
<1>3. CASE ReadTotal(p)
  <2>1. pc[p] = "read" /\ req[p].op \notin KeyedOps /\ rows' = rows
    BY <1>3 DEF ReadTotal, At, KeyedOps, data
  <2>2. CASE Finish(p, "done")
    BY <2>1, <2>2, KeysEnd DEF Finished
  <2>3. CASE ~Finish(p, "done")
    <3>1. PICK found : Goto(p, "checked", found)
      BY <1>3, <2>3 DEF ReadTotal
    <3>2. pc'[p] = "checked" /\ req' = req /\ \A q \in Procs \ {p} : pc'[q] = pc[q]
      BY <3>1 DEF Goto, TypeOK
    <3> QED
      BY <2>1, <3>2, KeepingRows
  <2> QED
    BY <2>2, <2>3
<1>4. CASE CommitReconcile(p)
  BY <1>4, KeysEnd DEF CommitReconcile, At, KeyedOps, Finished
<1> QED
  BY <1>1, <1>2, <1>3, <1>4

LEMMA KeysBegin ==
  ASSUME TypeOK, KeysKept, NEW p \in Procs, Begin(p)
  PROVE  KeysKept'
<1>1. /\ pc'[p] \notin {"done", "locked"} /\ rows' = rows
      /\ \A q \in Procs \ {p} : pc'[q] = pc[q] /\ req'[q] = req[q]
  BY DEF Begin, TypeOK, data
<1> QED
  BY <1>1, KeepingRows

LEMMA KeysInit == Init => KeysKept
<1> SUFFICES ASSUME Init PROVE KeysKept
  OBVIOUS
<1>1. \A i \in RowIds : rows[i] # NoRow => rows[i].key \notin Keys
  BY LedgerAssumption DEF Init, NewRow
<1> QED
  BY <1>1 DEF Init, KeysKept, UniqueKeys, Served, Moving

LEMMA KeysNext ==
  ASSUME TypeInv, KeysKept, [Next]_vars
  PROVE  KeysKept'
<1>0. TypeOK
  BY DEF TypeInv
<1>1. ASSUME NEW p \in Procs, Begin(p) PROVE KeysKept'
  BY <1>0, <1>1, KeysBegin
<1>2. ASSUME NEW p \in Procs, Abort(p) PROVE KeysKept'
  BY <1>0, <1>2, KeysEnd DEF Abort, data, Finished
<1>3. ASSUME NEW p \in Procs, Step(p) PROVE KeysKept'
  BY <1>0, <1>3, KeysReads, KeysCreate, KeysMove, KeysAmend, KeysOpen, KeysClose, KeysRest
     DEF Step, Create, Amend, Move, OpenClose, Reconcile
<1>4. CASE UNCHANGED vars
  BY <1>4 DEF vars, KeysKept, UniqueKeys, Served, Moving, KeyRow
<1> QED
  BY <1>1, <1>2, <1>3, <1>4 DEF Next, AllOver

\* Of all the requests that carry one key, at most one takes effect, in every
\* ledger: the unique index makes up for the idempotency check, which comes
\* before the transaction and can be passed by two requests.
THEOREM KeysTakeEffectOnce == Spec => []OncePerKey
<1>1. Init => TypeInv /\ KeysKept
  BY TypeInit, KeysInit
<1>2. TypeInv /\ KeysKept /\ [Next]_vars => TypeInv' /\ KeysKept'
  BY TypeNext, KeysNext
<1> QED
  BY <1>1, <1>2, KeysKeptImplies, PTL DEF Spec

-----------------------------------------------------------------------------
(* A reversal gives back what its transfer moved.  The two legs are made   *)
(* together and keep their accounts and, unedited, their amounts, so a     *)
(* request that has found them once may rely on them until it commits.     *)

Legs == {Main(p) : p \in Procs} \cup {Other(p) : p \in Procs}

\* The legs of a slot are made by its commit; what the other account gets, the
\* first one gives.
Paired(p) ==
  /\ pc[p] \in {"idle"} \cup Begun => rows[Main(p)] = NoRow /\ rows[Other(p)] = NoRow
  /\ rows[Other(p)] # NoRow =>
       /\ rows[Main(p)] # NoRow
       /\ rows[Other(p)].amt > 0 /\ rows[Main(p)].amt = -rows[Other(p)].amt

Positive(p) == pc[p] \in Begun /\ req[p].op \in {"transfer", "pay"} => req[p].amt > 0

\* A transfer with a key of the server's is the reversal of an existing one.
Reverses(p) ==
  pc[p] \in Begun \cup {"done"} /\ req[p].op = "transfer" /\ req[p].key = ServerKey =>
    LET given == rows[Main(req[p].of)]
        got == rows[Other(req[p].of)]
    IN
    /\ req[p].of \in Procs /\ given # NoRow /\ got # NoRow
    /\ req[p].acct = got.acct /\ req[p].to = given.acct
    /\ req[p].amt = got.amt /\ given.amt = -got.amt

\* A transfer that is done has left its legs.
LegsLeft(p) ==
  pc[p] = "done" /\ req[p].op = "transfer" =>
    /\ rows[Main(p)] # NoRow /\ rows[Other(p)] # NoRow
    /\ rows[Main(p)].acct = req[p].acct /\ rows[Main(p)].amt = -req[p].amt
    /\ rows[Other(p)].acct = req[p].to /\ rows[Other(p)].amt = req[p].amt

PairsKept == \A p \in Procs : Paired(p) /\ Positive(p) /\ Reverses(p) /\ LegsLeft(p)

IdleAsksNothing == \A p \in Procs : pc[p] = "idle" => req[p] = NoRequest

ReversalInv == IdleAsksNothing /\ (NoneAsked({"update"}) => PairsKept)

LEMMA ReversalInvImplies == TypeOK /\ ReversalInv => ReversalUndoes
<1> SUFFICES ASSUME TypeOK, PairsKept, NEW p \in Procs,
                    pc[p] = "done", req[p].op = "transfer", req[p].key = ServerKey
             PROVE  LET debit == rows[Main(p)]
                        credit == rows[Other(p)]
                        given == rows[Main(req[p].of)]
                        got == rows[Other(req[p].of)]
                    IN  /\ debit.acct = got.acct /\ debit.amt = -got.amt
                        /\ credit.acct = given.acct /\ credit.amt = -given.amt
  BY DEF ReversalInv, ReversalUndoes
<1>1. Reverses(p) /\ LegsLeft(p)
  BY DEF PairsKept
<1>2. Main(req[p].of) \in RowIds /\ Other(req[p].of) \in RowIds
  BY <1>1 DEF Reverses, RowIds
<1>3. rows[Main(req[p].of)] \in Row /\ rows[Other(req[p].of)] \in Row
  BY <1>1, <1>2 DEF Reverses, TypeOK
<1> QED
  BY <1>1, <1>3 DEF Reverses, LegsLeft, Row

\* A leg that exists keeps its account and its amount.
LegsKeep ==
  \A i \in Legs : rows[i] # NoRow =>
    rows'[i] # NoRow /\ rows'[i].acct = rows[i].acct /\ rows'[i].amt = rows[i].amt

\* A step of p that leaves the legs of the other slots alone.
LEMMA PairsStep ==
  ASSUME PairsKept, NEW p \in Procs, LegsKeep,
         \A q \in Procs \ {p} : pc'[q] = pc[q] /\ req'[q] = req[q],
         \A i \in Legs \ {Main(p), Other(p)} : rows[i] = NoRow => rows'[i] = NoRow,
         Paired(p)', Positive(p)', Reverses(p)', LegsLeft(p)'
  PROVE  PairsKept'
<1> SUFFICES ASSUME NEW q \in Procs \ {p}
             PROVE  Paired(q)' /\ Positive(q)' /\ Reverses(q)' /\ LegsLeft(q)'
  BY DEF PairsKept
<1>1. Main(q) \in Legs \ {Main(p), Other(p)} /\ Other(q) \in Legs \ {Main(p), Other(p)}
  BY DEF Legs, Main, Other
<1>2. Paired(q)' /\ Positive(q)' /\ LegsLeft(q)'
  BY <1>1 DEF PairsKept, Paired, Positive, LegsLeft, LegsKeep
<1>3. Reverses(q)'
  <2>1. req[q].of \in Procs => Main(req[q].of) \in Legs /\ Other(req[q].of) \in Legs
    BY DEF Legs
  <2> QED
    BY <2>1 DEF PairsKept, Reverses, LegsKeep
<1> QED
  BY <1>2, <1>3

\* A step that makes no leg and ends no transfer.
LEMMA PairsStay ==
  ASSUME PairsKept, NEW p \in Procs, pc[p] \in Begun, req' = req, pc'[p] \in Begun \cup Finished,
         \A q \in Procs \ {p} : pc'[q] = pc[q],
         LegsKeep, \A i \in Legs : rows[i] = NoRow => rows'[i] = NoRow,
         pc'[p] # "done" \/ req[p].op # "transfer"
  PROVE  PairsKept'
<1>1. Main(p) \in Legs /\ Other(p) \in Legs
  BY DEF Legs
<1>2. Paired(p)' /\ Positive(p)' /\ LegsLeft(p)'
  BY <1>1 DEF PairsKept, Paired, Positive, LegsLeft, LegsKeep, Begun, Finished
<1>3. Reverses(p)'
  <2>1. req[p].of \in Procs => Main(req[p].of) \in Legs /\ Other(req[p].of) \in Legs
    BY DEF Legs
  <2> QED
    BY <2>1 DEF PairsKept, Reverses, LegsKeep
<1> QED
  BY <1>2, <1>3, PairsStep

LEMMA PairsEnd ==
  ASSUME TypeOK, PairsKept, NEW p \in Procs, pc[p] \in Begun, NEW how \in Finished, Finish(p, how),
         rows' = rows, how # "done" \/ req[p].op # "transfer"
  PROVE  PairsKept'
<1>1. pc'[p] = how /\ req' = req /\ \A q \in Procs \ {p} : pc'[q] = pc[q]
  BY FinishTypes
<1>2. LegsKeep
  BY DEF LegsKeep
<1> QED
  BY <1>1, <1>2, PairsStay

LEMMA PairsGoto ==
  ASSUME TypeOK, PairsKept, NEW p \in Procs, pc[p] \in Begun, NEW label \in Begun, NEW found,
         Goto(p, label, found), rows' = rows
  PROVE  PairsKept'
<1>1. pc'[p] = label /\ req' = req /\ \A q \in Procs \ {p} : pc'[q] = pc[q]
  BY DEF Goto, TypeOK
<1>2. LegsKeep
  BY DEF LegsKeep
<1> QED
  BY <1>1, <1>2, PairsStay DEF Begun

LEMMA PairsRead ==
  ASSUME TypeOK, PairsKept, NEW p \in Procs, pc[p] \in Begun,
         NEW ok, NEW label \in Begun, NEW found, Proceed(p, ok, label, found)
  PROVE  PairsKept'
BY PairsGoto, PairsEnd DEF Proceed, data, Finished

LEMMA PairsReads ==
  ASSUME TypeOK, PairsKept, NEW p \in Procs, pc[p] \in Begun,
         \/ ReadAccount(p) \/ CheckFunds(p) \/ ReadRow(p) \/ ReadRowAccount(p) \/ CheckRowFunds(p)
         \/ ReadPair(p) \/ ReadCard(p) \/ CheckDebt(p) \/ ReadParent(p) \/ ReadBalance(p)
         \/ CountMovements(p) \/ CheckPockets(p) \/ ReadCardBalance(p) \/ ReadCached(p)
  PROVE  PairsKept'
<1> DEFINE Reads == \E ok, label, found : label \in Begun \ {"locked"} /\ Proceed(p, ok, label, found)
<1>1. CASE ReadAccount(p) \/ CheckFunds(p)
  <2>1. Reads
    BY <1>1, Zenon DEF ReadAccount, CheckFunds, Begun
  <2> QED
    BY <2>1, PairsRead
<1>2. CASE ReadRow(p) \/ ReadRowAccount(p) \/ CheckRowFunds(p)
  <2>1. Reads
    BY <1>2, Zenon DEF ReadRow, ReadRowAccount, CheckRowFunds, Begun
  <2> QED
    BY <2>1, PairsRead
<1>3. CASE ReadPair(p) \/ ReadCard(p) \/ CheckDebt(p)
  <2>1. Reads
    BY <1>3, Zenon DEF ReadPair, ReadCard, CheckDebt, Begun
  <2> QED
    BY <2>1, PairsRead
<1>4. CASE ReadParent(p) \/ ReadBalance(p) \/ CountMovements(p) \/ CheckPockets(p) \/ ReadCardBalance(p)
  <2>1. Reads
    BY <1>4, Zenon DEF ReadParent, ReadBalance, CountMovements, CheckPockets, ReadCardBalance, Begun
  <2> QED
    BY <2>1, PairsRead
<1>5. CASE ReadCached(p)
  <2>1. Reads
    BY <1>5, Zenon DEF ReadCached, Begun
  <2> QED
    BY <2>1, PairsRead
<1> QED
  BY <1>1, <1>2, <1>3, <1>4, <1>5

LEMMA PairsCreate ==
  ASSUME TypeOK, PairsKept, NEW p \in Procs, CommitCreate(p)
  PROVE  PairsKept'
<1>1. pc[p] \in Begun /\ req[p].op = "create"
  BY DEF CommitCreate, At, Begun
<1>2. CASE KeyTaken(req[p].key)
  BY <1>1, <1>2, PairsEnd DEF CommitCreate, data, Finished
<1>3. CASE ~KeyTaken(req[p].key)
  <2>1. PICK new : rows' = [rows EXCEPT ![Main(p)] = new]
    BY <1>3 DEF CommitCreate
  <2>2. pc'[p] = "done" /\ req' = req /\ \A q \in Procs \ {p} : pc'[q] = pc[q]
    BY <1>3, FinishTypes DEF CommitCreate, Finished
  <2>3. rows[Main(p)] = NoRow /\ rows[Other(p)] = NoRow
    BY <1>1 DEF PairsKept, Paired
  <2>4. \A i \in Legs \ {Main(p)} : rows'[i] = rows[i]
    BY <2>1 DEF TypeOK, Legs, RowIds
  <2>5. LegsKeep
    BY <2>3, <2>4 DEF LegsKeep
  <2>6. Paired(p)' /\ Positive(p)' /\ Reverses(p)' /\ LegsLeft(p)'
    <3>1. Other(p) \in Legs \ {Main(p)}
      BY DEF Legs, Main, Other
    <3> QED
      BY <1>1, <2>2, <2>3, <2>4, <3>1 DEF Paired, Positive, Reverses, LegsLeft, Begun
  <2> QED
    BY <2>2, <2>4, <2>5, <2>6, PairsStep
<1> QED
  BY <1>2, <1>3

LEMMA PairsMove ==
  ASSUME TypeOK, PairsKept, KeysKept, NEW p \in Procs, CommitMove(p)
  PROVE  PairsKept'
<1> DEFINE debit == DebitRow(req[p])
           credit == CreditRow(req[p])
<1>1. pc[p] \in Begun /\ req[p].op \in {"transfer", "pay"}
  BY DEF CommitMove, Begun, KeysKept, Moving
<1>2. CASE KeyTaken(req[p].key)
  <2>1. PICK how \in Finished \ {"done"} : Finish(p, how) /\ UNCHANGED data
    BY <1>2 DEF CommitMove, Finished
  <2> QED
    BY <2>1, <1>1, PairsEnd DEF data
<1>3. CASE ~KeyTaken(req[p].key)
  <2>1. rows' = [rows EXCEPT ![Main(p)] = debit, ![Other(p)] = credit] /\ Finish(p, "done")
    BY <1>3 DEF CommitMove
  <2>2. req[p].amt > 0 /\ req[p].amt \in Int /\ rows[Main(p)] = NoRow /\ rows[Other(p)] = NoRow
    BY <1>1, RequestTypes DEF PairsKept, Paired, Positive
  <2>3. /\ debit # NoRow /\ debit.acct = req[p].acct /\ debit.amt = -req[p].amt
        /\ credit # NoRow /\ credit.acct = req[p].to /\ credit.amt = req[p].amt
    <3>1. debit \in Row /\ credit \in Row
      BY <1>1, RequestTypes DEF DebitRow, CreditRow, NewRow, Row, Kinds
    <3>2. debit # NoRow /\ credit # NoRow
      BY <3>1, LedgerAssumption
    <3> QED
      BY <3>2 DEF DebitRow, CreditRow, NewRow
  <2> HIDE DEF debit, credit
  <2>4. pc'[p] = "done" /\ req' = req /\ \A q \in Procs \ {p} : pc'[q] = pc[q]
    BY <2>1, FinishTypes DEF Finished
  <2>5. /\ rows'[Main(p)] = debit /\ rows'[Other(p)] = credit
        /\ \A i \in Legs \ {Main(p), Other(p)} : rows'[i] = rows[i]
    <3>1. Main(p) \in RowIds /\ Other(p) \in RowIds /\ Main(p) # Other(p) /\ Legs \subseteq RowIds
      BY DEF RowIds, Main, Other, Legs
    <3> QED
      BY <3>1, <2>1 DEF TypeOK
  <2>6. LegsKeep
    BY <2>2, <2>5 DEF LegsKeep
  <2>7. Paired(p)' /\ Positive(p)' /\ LegsLeft(p)'
    BY <2>2, <2>3, <2>4, <2>5 DEF Paired, Positive, LegsLeft, Begun
  <2>8. Reverses(p)'
    <3> SUFFICES ASSUME req[p].op = "transfer", req[p].key = ServerKey PROVE Reverses(p)'
      BY <2>4 DEF Reverses
    <3>1. Reverses(p)
      BY DEF PairsKept
    <3>2. Main(req[p].of) \in Legs /\ Other(req[p].of) \in Legs
      BY <1>1, <3>1 DEF Reverses, Legs
    <3> QED
      BY <1>1, <2>4, <2>6, <3>1, <3>2 DEF Reverses, LegsKeep
  <2> QED
    BY <2>4, <2>5, <2>6, <2>7, <2>8, PairsStep
<1> QED
  BY <1>2, <1>3

\* The two active legs of a transfer are the one that gives and the one that
\* gets: the amounts tell them apart.
LEMMA PairsReadTransfer ==
  ASSUME TypeOK, PairsKept, NEW p \in Procs, ReadTransfer(p)
  PROVE  PairsKept'
<1> DEFINE q == req[p].of
           r == req'[p]
<1>1. pc[p] \in Begun /\ req[p].op = "reverse" /\ rows' = rows
  BY DEF ReadTransfer, At, Begun, data
<1>2. CASE Finish(p, "rejected")
  BY <1>1, <1>2, PairsEnd DEF Finished
<1>3. CASE ~Finish(p, "rejected")
  <2>1. PICK debit, credit \in {Main(q), Other(q)} :
          /\ debit # credit /\ Active(debit) /\ Active(credit)
          /\ rows[debit].amt <= rows[credit].amt
          /\ req' = [req EXCEPT ![p] = [req[p] EXCEPT
                       !.op = "transfer", !.acct = rows[credit].acct,
                       !.to = rows[debit].acct, !.key = ServerKey,
                       !.amt = IF rows[credit].amt < 0 THEN -rows[credit].amt
                                                       ELSE rows[credit].amt]]
          /\ pc' = pc
    BY <1>3 DEF ReadTransfer
  <2>2. req[p] \in Request /\ q \in Procs /\ Main(q) \in RowIds /\ Other(q) \in RowIds
    BY <1>1, RequestTypes DEF TypeOK, Request, RowIds
  <2>3. /\ rows[Main(q)] \in Row /\ rows[Other(q)] \in Row
        /\ rows[Main(q)] # NoRow /\ rows[Other(q)] # NoRow
    BY <2>1, <2>2 DEF Active, Exists, TypeOK
  <2>4. rows[Other(q)].amt > 0 /\ rows[Main(q)].amt = -rows[Other(q)].amt
    BY <2>2, <2>3 DEF PairsKept, Paired
  <2>5. debit = Main(q) /\ credit = Other(q)
    <3>1. rows[Main(q)].amt \in Int /\ rows[Other(q)].amt \in Int
      BY <2>3 DEF Row
    <3> QED
      BY <2>1, <2>4, <3>1
  <2>6. /\ r.op = "transfer" /\ r.key = ServerKey /\ r.of = q
        /\ r.acct = rows[Other(q)].acct /\ r.to = rows[Main(q)].acct
        /\ r.amt = rows[Other(q)].amt
        /\ \A x \in Procs \ {p} : req'[x] = req[x]
    <3>1. rows[Other(q)].amt \in Int
      BY <2>3 DEF Row
    <3> QED
      BY <2>1, <2>2, <2>4, <2>5, <3>1 DEF TypeOK, Request
  <2>7. LegsKeep
    BY <1>1 DEF LegsKeep
  <2>8. Paired(p)' /\ Positive(p)' /\ LegsLeft(p)'
    BY <1>1, <2>1, <2>4, <2>6 DEF PairsKept, Paired, Positive, LegsLeft, Begun
  <2>9. Reverses(p)'
    BY <1>1, <2>2, <2>3, <2>4, <2>6 DEF Reverses
  <2> QED
    BY <1>1, <2>1, <2>6, <2>7, <2>8, <2>9, PairsStep
<1> QED
  BY <1>2, <1>3

\* Deleting a movement, opening and closing an account leave the legs as they are.
LEMMA PairsCorrect ==
  ASSUME TypeInv, PairsKept, NEW p \in Procs,
         CommitDelete(p) \/ CommitOpen(p) \/ CommitClose(p)
  PROVE  PairsKept'
<1>0. TypeOK
  BY DEF TypeInv
<1>1. pc[p] = "checked" /\ pc[p] \in Begun /\ req[p].op # "transfer"
  BY DEF CommitDelete, CommitOpen, CommitClose, At, Begun
<1>2. pc'[p] \in Finished /\ req' = req /\ \A q \in Procs \ {p} : pc'[q] = pc[q]
  <2>1. PICK how \in Finished : Finish(p, how)
    BY DEF CommitDelete, CommitOpen, CommitClose, Finished
  <2> QED
    BY <2>1, <1>0, FinishTypes
<1>3. \/ \A i \in Legs : rows'[i] = rows[i]
      \/ \E i \in RowIds : /\ rows[i] \in Row
                           /\ rows' = [rows EXCEPT ![i] = [rows[i] EXCEPT !.active = FALSE]]
  <2>1. CASE CommitDelete(p)
    <3>1. req[p].op = "delete"
      BY <2>1 DEF CommitDelete, At
    <3>2. req[p].row \in RowIds /\ req[p] \in Request
      BY <1>0, <1>1, RequestTypes
    <3>3. rows[req[p].row] \in Row
      BY <1>0, <1>1, <3>1, <3>2 DEF TypeInv, RowFound, TypeOK
    <3> QED
      BY <2>1, <3>2, <3>3, <1>0 DEF CommitDelete, SetActive, TypeOK
  <2>2. CASE CommitOpen(p)
    <3>1. \A i \in Legs : i # OpeningRow(req[p].acct)
      BY DEF Legs, Main, Other, OpeningRow
    <3>2. Legs \subseteq RowIds
      BY DEF Legs, RowIds
    <3> QED
      BY <2>2, <3>1, <3>2, <1>0 DEF CommitOpen, data, TypeOK
  <2>3. CASE CommitClose(p)
    <3>1. OpeningRow(req[p].acct) \in RowIds
      BY <1>0, <1>1, RequestTypes
    <3> QED
      BY <2>3, <3>1, <1>0 DEF CommitClose, SetActive, TypeOK, Active, Exists
  <2> QED
    BY <2>1, <2>2, <2>3
<1>4. LegsKeep /\ \A i \in Legs : rows[i] = NoRow => rows'[i] = NoRow
  <2>1. Legs \subseteq RowIds
    BY DEF Legs, RowIds
  <2>2. CASE \A i \in Legs : rows'[i] = rows[i]
    BY <2>2 DEF LegsKeep
  <2>3. ASSUME NEW i \in RowIds, rows[i] \in Row,
               rows' = [rows EXCEPT ![i] = [rows[i] EXCEPT !.active = FALSE]]
        PROVE  LegsKeep /\ \A j \in Legs : rows[j] = NoRow => rows'[j] = NoRow
    <3>1. /\ rows'[i] \in Row /\ rows'[i].acct = rows[i].acct /\ rows'[i].amt = rows[i].amt
          /\ \A j \in RowIds \ {i} : rows'[j] = rows[j]
      BY <2>3, <1>0 DEF Row, TypeOK
    <3> QED
      BY <2>1, <2>3, <3>1, LedgerAssumption DEF LegsKeep
  <2> QED
    BY <1>3, <2>2, <2>3
<1> QED
  BY <1>1, <1>2, <1>4, PairsStay

LEMMA PairsRest ==
  ASSUME TypeOK, PairsKept, NEW p \in Procs, LockSource(p) \/ ReadTotal(p) \/ CommitReconcile(p)
  PROVE  PairsKept'
<1>1. pc[p] \in Begun /\ rows' = rows
  BY DEF LockSource, ReadTotal, CommitReconcile, At, Begun, data
<1>2. CASE Finish(p, "rejected") \/ (Finish(p, "done") /\ req[p].op = "reconcile")
  BY <1>1, <1>2, PairsEnd DEF Finished
<1>3. CASE \E label \in Begun : \E found : Goto(p, label, found)
  BY <1>1, <1>3, PairsGoto
<1> QED
  BY <1>2, <1>3 DEF LockSource, ReadTotal, CommitReconcile, At, Begun

LEMMA PairsBegin ==
  ASSUME TypeOK, PairsKept, NEW p \in Procs, Begin(p)
  PROVE  PairsKept'
<1>1. PICK r \in RequestsOf[p] :
        req' = [req EXCEPT ![p] = r] /\ pc' = [pc EXCEPT ![p] = IF AlreadyDone(r) THEN "repeated" ELSE "begun"]
  BY DEF Begin
<1>2. pc[p] = "idle" /\ rows' = rows
  BY DEF Begin, data
<1>3. /\ pc'[p] \in {"begun", "repeated"} /\ req'[p] = r
      /\ \A q \in Procs \ {p} : pc'[q] = pc[q] /\ req'[q] = req[q]
  BY <1>1 DEF TypeOK
<1>4. WellFormed(r) /\ ServerKey \notin Keys
  BY LedgerAssumption
<1>5. Paired(p)' /\ Positive(p)' /\ Reverses(p)' /\ LegsLeft(p)'
  BY <1>2, <1>3, <1>4 DEF PairsKept, Paired, Positive, Reverses, LegsLeft, WellFormed, Begun
<1>6. LegsKeep
  BY <1>2 DEF LegsKeep
<1> QED
  BY <1>2, <1>3, <1>5, <1>6, PairsStep

LEMMA ReversalNext ==
  ASSUME TypeInv, KeysKept, ReversalInv, [Next]_vars
  PROVE  ReversalInv'
<1>0. TypeOK
  BY DEF TypeInv
<1>1. IdleAsksNothing' /\ (NoneAsked({"update"})' => NoneAsked({"update"}))
  <2>1. ASSUME NEW p \in Procs, Begin(p)
        PROVE  IdleAsksNothing' /\ (NoneAsked({"update"})' => NoneAsked({"update"}))
    BY <1>0, <2>1 DEF Begin, TypeOK, ReversalInv, IdleAsksNothing, NoneAsked
  <2>2. ASSUME NEW p \in Procs, Abort(p)
        PROVE  IdleAsksNothing' /\ (NoneAsked({"update"})' => NoneAsked({"update"}))
    BY <1>0, <2>2 DEF Abort, Finish, TypeOK, ReversalInv, IdleAsksNothing, NoneAsked
  <2>3. ASSUME NEW p \in Procs, Step(p)
        PROVE  IdleAsksNothing' /\ (NoneAsked({"update"})' => NoneAsked({"update"}))
    <3>1. /\ \A q \in Procs \ {p} : pc'[q] = pc[q] /\ req'[q] = req[q]
          /\ pc'[p] # "idle" /\ pc[p] \in Begun
          /\ req'[p] = req[p] \/ req[p].op = "reverse"
      <4>1. CASE ReadTransfer(p)
        BY <4>1, <1>0 DEF ReadTransfer, At, Finish, TypeOK, Begun
      <4>2. CASE ~ReadTransfer(p)
        <5>1. \/ \E how \in Finished : Finish(p, how)
              \/ \E label \in Begun : \E found : Goto(p, label, found)
          BY <2>3, <4>2, Zenon
             DEF Step, Create, Amend, Move, OpenClose, Reconcile, ReadAccount, CheckFunds,
                 CommitCreate, ReadRow, ReadRowAccount, CheckRowFunds, CommitDelete, CommitUpdate,
                 ReadPair, ReadCard, CheckDebt, LockSource, CommitMove, ReadParent, CommitOpen,
                 ReadBalance, CountMovements, CheckPockets, ReadCardBalance, CommitClose,
                 ReadCached, ReadTotal, CommitReconcile, Proceed, Begun, Finished
        <5>2. pc[p] \in Begun
          BY <2>3
             DEF Step, Create, Amend, Move, OpenClose, Reconcile, ReadAccount, CheckFunds,
                 CommitCreate, ReadRow, ReadRowAccount, CheckRowFunds, CommitDelete, CommitUpdate,
                 ReadPair, ReadCard, CheckDebt, LockSource, CommitMove, ReadTransfer, ReadParent,
                 CommitOpen, ReadBalance, CountMovements, CheckPockets, ReadCardBalance,
                 CommitClose, ReadCached, ReadTotal, CommitReconcile, At, Begun
        <5> QED
          BY <5>1, <5>2, <1>0 DEF Finish, Goto, TypeOK, Begun, Finished
      <4> QED
        BY <4>1, <4>2
    <3>2. req[p] # NoRequest
      BY <3>1, <1>0, LedgerAssumption DEF TypeOK
    <3> QED
      BY <3>1, <3>2 DEF ReversalInv, IdleAsksNothing, NoneAsked
  <2>4. CASE UNCHANGED vars
    BY <2>4 DEF vars, ReversalInv, IdleAsksNothing, NoneAsked
  <2> QED
    BY <2>1, <2>2, <2>3, <2>4 DEF Next, AllOver
<1>2. ASSUME NoneAsked({"update"})' PROVE PairsKept'
  <2>0. PairsKept /\ NoneAsked({"update"})
    BY <1>1, <1>2 DEF ReversalInv
  <2>1. ASSUME NEW p \in Procs, Begin(p) PROVE PairsKept'
    BY <1>0, <2>0, <2>1, PairsBegin
  <2>2. ASSUME NEW p \in Procs, Abort(p) PROVE PairsKept'
    BY <1>0, <2>0, <2>2, PairsEnd DEF Abort, data, Finished
  <2>3. ASSUME NEW p \in Procs, Step(p) PROVE PairsKept'
    <3>1. pc[p] \in Begun
      BY <2>3
         DEF Step, Create, Amend, Move, OpenClose, Reconcile, ReadAccount, CheckFunds,
             CommitCreate, ReadRow, ReadRowAccount, CheckRowFunds, CommitDelete, CommitUpdate,
             ReadPair, ReadCard, CheckDebt, LockSource, CommitMove, ReadTransfer, ReadParent,
             CommitOpen, ReadBalance, CountMovements, CheckPockets, ReadCardBalance,
             CommitClose, ReadCached, ReadTotal, CommitReconcile, At, Begun
    <3>2. ~CommitUpdate(p)
      <4>1. req[p] # NoRequest
        BY <3>1, <1>0, LedgerAssumption DEF TypeOK
      <4> QED
        BY <4>1, <2>0 DEF CommitUpdate, At, NoneAsked
    <3> QED
      BY <1>0, <2>0, <2>3, <3>1, <3>2, PairsReads, PairsCreate, PairsMove, PairsReadTransfer,
         PairsCorrect, PairsRest
         DEF Step, Create, Amend, Move, OpenClose, Reconcile
  <2>4. CASE UNCHANGED vars
    BY <2>0, <2>4 DEF vars, PairsKept, Paired, Positive, Reverses, LegsLeft
  <2> QED
    BY <2>1, <2>2, <2>3, <2>4 DEF Next, AllOver
<1> QED
  BY <1>1, <1>2 DEF ReversalInv

LEMMA ReversalInit == Init => ReversalInv
<1> SUFFICES ASSUME Init PROVE ReversalInv
  OBVIOUS
<1>1. \A i \in Legs : rows[i] = NoRow
  BY DEF Init, Legs, RowIds, Main, Other, OpeningRow
<1>2. \A p \in Procs : Main(p) \in Legs /\ Other(p) \in Legs
  BY DEF Legs
<1> QED
  BY <1>1, <1>2
     DEF Init, ReversalInv, IdleAsksNothing, PairsKept, Paired, Positive, Reverses, LegsLeft, Begun

\* In every ledger whose movements are not edited, whatever overlaps, is retried
\* or aborts, a reversal moves exactly what its transfer moved back to where it
\* came from (transfer.actions.ts:432).
THEOREM ReversalsUndo == Spec => []ReversalUndoes
<1>1. Init => TypeInv /\ KeysKept /\ ReversalInv
  BY TypeInit, KeysInit, ReversalInit
<1>2. TypeInv /\ KeysKept /\ ReversalInv /\ [Next]_vars => TypeInv' /\ KeysKept' /\ ReversalInv'
  BY TypeNext, KeysNext, ReversalNext
<1>3. TypeInv /\ ReversalInv => ReversalUndoes
  BY ReversalInvImplies DEF TypeInv
<1> QED
  BY <1>1, <1>2, <1>3, PTL DEF Spec

-----------------------------------------------------------------------------
(* One request at a time.  What a request has read still is what the tables*)
(* hold when it writes: caches are exact, a card stays within its limit, an*)
(* account that is deleted is empty, in every history of the ledger.       *)

Solo == \A p, q \in Procs : pc[p] \in Begun /\ pc[q] \in Begun => p = q

\* A slot that is free has no request; its rows are yet to be made.
Slot(p) ==
  /\ req[p] # NoRequest => req[p] \in Request
  /\ pc[p] = "idle" => req[p] = NoRequest
  /\ pc[p] \in {"idle"} \cup Begun => rows[Main(p)] = NoRow /\ rows[Other(p)] = NoRow

\* What the request under way knows of the tables, at each of its steps.
KnowsCreate(p) ==
  LET a == req[p].acct IN
  req[p].op = "create" =>
    /\ pc[p] \in {"read", "checked"} => status[a] = "active" /\ seen[p].cached = cached[a]
    /\ pc[p] = "checked" => CanSpend(a, req[p].amt)

KnowsRow(p) ==
  req[p].op \in {"delete", "update"} =>
    /\ pc[p] \in {"row", "read", "checked"} => Active(req[p].row) /\ seen[p].row = rows[req[p].row]
    /\ pc[p] \in {"read", "checked"} => seen[p].cached = cached[seen[p].row.acct]

KnowsPair(p) ==
  LET from == req[p].acct
      to == req[p].to
  IN
  /\ req[p].op \in {"transfer", "pay"} => req[p].amt > 0 /\ from # to
  /\ req[p].op = "transfer" /\ pc[p] \in {"read", "locked"} =>
       {from, to} \cap Cards = {} /\ status[from] = "active" /\ status[to] = "active"
         /\ seen[p].other = cached[to]
  /\ req[p].op = "pay" /\ pc[p] \in {"row", "read", "locked"} =>
       to \in Cards /\ status[to] = "active" /\ seen[p].other = cached[to]
  /\ req[p].op = "pay" /\ pc[p] \in {"read", "locked"} =>
       from \notin Cards /\ status[from] = "active"
  /\ pc[p] = "locked" => req[p].op \in {"transfer", "pay"} /\ seen[p].cached = cached[from]

KnowsAccount(p) ==
  LET a == req[p].acct IN
  /\ req[p].op = "close" =>
       /\ pc[p] \in {"row", "read", "checked"} => status[a] = "active" /\ seen[p].total = total[a]
       /\ pc[p] \in {"read", "checked"} => seen[p].total = 0 \/ Movements(a) = {}
  /\ At(p, "closeCard", "checked") => a \in Cards
  /\ At(p, "reconcile", "checked") => seen[p].total = total[a]

Knows(p) == pc[p] \in Begun => KnowsCreate(p) /\ KnowsRow(p) /\ KnowsPair(p) /\ KnowsAccount(p)

\* The opening movement of an account is on it, and there is none before it is opened.
Openings ==
  \A a \in Accounts :
    /\ rows[OpeningRow(a)] # NoRow => rows[OpeningRow(a)].acct = a
    /\ status[a] = "none" => rows[OpeningRow(a)] = NoRow

Exact == \A a \in Accounts : status[a] = "active" => cached[a] = total[a]

\* The opening balance, as long as nobody has moved anything.
OpeningBalance(a) == IF Active(OpeningRow(a)) THEN rows[OpeningRow(a)].amt ELSE 0

\* The books, of a history that is left alone.
Balanced ==
  /\ \A a \in Cards : status[a] = "active" => total[a] >= -CreditLimit[a]
  /\ \A a \in Accounts \ Cards : status[a] = "deleted" => total[a] = 0
  /\ \A a \in Accounts : Movements(a) = {} => total[a] = OpeningBalance(a)

Books == NoneAsked({"delete", "update"}) => Balanced

SerialInv ==
  TypeInv /\ Solo /\ Openings /\ Exact /\ Books /\ \A p \in Procs : Slot(p) /\ Knows(p)

-----------------------------------------------------------------------------
\* Only p moves, and makes no row of another slot.
OwnRows(p) ==
  \A q \in Procs \ {p} : \A i \in {Main(q), Other(q)} : rows[i] = NoRow => rows'[i] = NoRow

Alone(p) ==
  /\ \A q \in Procs \ {p} : pc'[q] = pc[q] /\ req'[q] = req[q]
  /\ OwnRows(p)

LEMMA SerialStep ==
  ASSUME SerialInv, NEW p \in Procs, pc[p] \in Begun, Alone(p), TypeInv', Openings', Exact', Books',
         Slot(p)', Knows(p)'
  PROVE  SerialInv'
<1>1. \A q \in Procs \ {p} : pc[q] \notin Begun /\ pc'[q] \notin Begun
  BY DEF SerialInv, Solo, Alone
<1>2. Solo'
  BY <1>1 DEF Solo
<1>3. ASSUME NEW q \in Procs \ {p} PROVE Slot(q)' /\ Knows(q)'
  BY <1>1, <1>3 DEF SerialInv, Slot, Alone, OwnRows, Knows
<1> QED
  BY <1>2, <1>3 DEF SerialInv

LEMMA BooksStay ==
  ASSUME SerialInv, UNCHANGED data, NoneAsked({"delete", "update"})' => NoneAsked({"delete", "update"})
  PROVE  Openings' /\ Exact' /\ Books'
BY DEF SerialInv, data, Openings, Exact, Books, Balanced, OpeningBalance, Movements, Active, Exists

\* The moves of a request.
LEMMA EndMoves ==
  ASSUME TypeOK, NEW p \in Procs, NEW how \in Finished, Finish(p, how)
  PROVE  /\ req' = req /\ pc'[p] \in Finished /\ pc'[p] \notin Begun
         /\ \A q \in Procs \ {p} : pc'[q] = pc[q]
BY DEF Finish, TypeOK, Finished, Begun

LEMMA GotoMoves ==
  ASSUME TypeOK, NEW p \in Procs, NEW label, NEW found, Goto(p, label, found)
  PROVE  /\ req' = req /\ pc'[p] = label /\ seen'[p] = found
         /\ \A q \in Procs \ {p} : pc'[q] = pc[q]
BY DEF Goto, TypeOK

\* A request that ends, its rows made or not.
LEMMA SerialEnd ==
  ASSUME SerialInv, NEW p \in Procs, pc[p] \in Begun, NEW how \in Finished, Finish(p, how),
         TypeInv', Openings', Exact', Books', OwnRows(p)
  PROVE  SerialInv'
<1>1. TypeOK /\ Slot(p)
  BY DEF SerialInv, TypeInv
<1>2. Alone(p) /\ req' = req /\ pc'[p] \in Finished /\ pc'[p] \notin Begun
  BY <1>1, EndMoves DEF Alone
<1>3. Slot(p)'
  BY <1>1, <1>2 DEF Slot, Finished, Begun
<1>4. Knows(p)'
  BY <1>2 DEF Knows
<1> QED
  BY <1>2, <1>3, <1>4, SerialStep DEF SerialInv, Books

LEMMA SerialEndQuiet ==
  ASSUME SerialInv, NEW p \in Procs, pc[p] \in Begun, NEW how \in Finished, Finish(p, how),
         TypeInv', UNCHANGED data
  PROVE  SerialInv'
<1>1. NoneAsked({"delete", "update"})' => NoneAsked({"delete", "update"})
  BY DEF Finish, NoneAsked
<1>2. Openings' /\ Exact' /\ Books'
  BY <1>1, BooksStay
<1> QED
  BY <1>2, SerialEnd DEF data, OwnRows

\* A request that goes on without writing.
LEMMA SerialGoto ==
  ASSUME SerialInv, NEW p \in Procs, pc[p] \in Begun, NEW label \in Begun, NEW found,
         Goto(p, label, found), TypeInv', UNCHANGED data, Knows(p)'
  PROVE  SerialInv'
<1>1. TypeOK /\ Slot(p)
  BY DEF SerialInv, TypeInv
<1>2. Alone(p) /\ req' = req /\ pc'[p] = label
  BY <1>1, GotoMoves DEF Alone, OwnRows, data
<1>3. Slot(p)'
  BY <1>1, <1>2 DEF Slot, data, Begun
<1>4. Openings' /\ Exact' /\ Books'
  <2>1. NoneAsked({"delete", "update"})' => NoneAsked({"delete", "update"})
    BY <1>2 DEF NoneAsked
  <2> QED
    BY <2>1, BooksStay
<1> QED
  BY <1>2, <1>3, <1>4, SerialStep

LEMMA SerialProceed ==
  ASSUME SerialInv, NEW p \in Procs, pc[p] \in Begun, NEW ok \in BOOLEAN, NEW label \in Begun,
         NEW found, Proceed(p, ok, label, found), TypeInv',
         ok /\ pc'[p] = label /\ seen'[p] = found /\ req' = req /\ UNCHANGED data => Knows(p)'
  PROVE  SerialInv'
<1>1. UNCHANGED data /\ TypeOK
  BY DEF Proceed, SerialInv, TypeInv
<1>2. CASE ok
  BY <1>1, <1>2, GotoMoves, SerialGoto DEF Proceed
<1>3. CASE ~ok
  BY <1>1, <1>3, SerialEndQuiet DEF Proceed, Finished
<1> QED
  BY <1>2, <1>3

\* What the step of a request relies on.
LEMMA Relied ==
  ASSUME SerialInv, NEW p \in Procs, pc[p] \in Begun
  PROVE  /\ TypeOK /\ TypeInv /\ Knows(p) /\ Slot(p) /\ Openings /\ Exact /\ Books
         /\ KnowsCreate(p) /\ KnowsRow(p) /\ KnowsPair(p) /\ KnowsAccount(p)
         /\ req[p] \in Request /\ req[p].acct \in Accounts /\ req[p].to \in Accounts
         /\ req[p].amt \in Int /\ req[p].row \in RowIds /\ seen[p] \in Seen
BY RequestTypes DEF SerialInv, TypeInv, Knows

LEMMA SlotFresh ==
  ASSUME SerialInv, NEW p \in Procs, pc[p] \in Begun
  PROVE  /\ rows[Main(p)] = NoRow /\ rows[Other(p)] = NoRow
         /\ req[p] # NoRequest
<1>1. Slot(p) /\ req[p] \in Request
  BY Relied
<1>2. req[p] # NoRequest
  BY <1>1, LedgerAssumption
<1> QED
  BY <1>1, <1>2 DEF Slot

LEMMA SerialReadAccount ==
  ASSUME SerialInv, NEW p \in Procs, TypeInv', ReadAccount(p)
  PROVE  SerialInv'
<1> DEFINE a == req[p].acct
           found == [Nothing EXCEPT !.cached = cached[a]]
           ok == status[a] = "active"
<1>1. /\ pc[p] = "begun" /\ req[p].op = "create" /\ pc[p] \in Begun /\ "read" \in Begun
      /\ Proceed(p, ok, "read", found)
  BY DEF ReadAccount, At, Begun
<1>2. found.cached = cached[a]
  BY DEF Nothing
<1>3. ok /\ pc'[p] = "read" /\ seen'[p] = found /\ req' = req /\ UNCHANGED data => Knows(p)'
  BY <1>1, <1>2 DEF Knows, KnowsCreate, KnowsRow, KnowsPair, KnowsAccount, At, data
<1> QED
  BY <1>1, <1>3, SerialProceed

LEMMA SerialCheckFunds ==
  ASSUME SerialInv, NEW p \in Procs, TypeInv', CheckFunds(p)
  PROVE  SerialInv'
<1> DEFINE ok == CanSpend(req[p].acct, req[p].amt)
<1>1. /\ pc[p] = "read" /\ req[p].op = "create" /\ pc[p] \in Begun /\ "checked" \in Begun
      /\ Proceed(p, ok, "checked", seen[p])
  BY DEF CheckFunds, At, Begun
<1>2. KnowsCreate(p)
  BY <1>1, Relied
<1>3. ok /\ pc'[p] = "checked" /\ seen'[p] = seen[p] /\ req' = req /\ UNCHANGED data => Knows(p)'
  BY <1>1, <1>2 DEF Knows, KnowsCreate, KnowsRow, KnowsPair, KnowsAccount, At, data, CanSpend
<1>4. ok \in BOOLEAN
  BY DEF CanSpend
<1> QED
  BY <1>1, <1>3, <1>4, SerialProceed

LEMMA SerialReadRow ==
  ASSUME SerialInv, NEW p \in Procs, TypeInv', ReadRow(p)
  PROVE  SerialInv'
<1> DEFINE i == req[p].row
           found == [Nothing EXCEPT !.row = rows[i]]
           ok == Active(i)
<1>1. /\ pc[p] = "begun" /\ req[p].op \in {"delete", "update"} /\ pc[p] \in Begun /\ "row" \in Begun
      /\ Proceed(p, ok, "row", found)
  BY DEF ReadRow, At, Begun
<1>2. found.row = rows[i]
  BY DEF Nothing
<1>3. ok /\ pc'[p] = "row" /\ seen'[p] = found /\ req' = req /\ UNCHANGED data => Knows(p)'
  BY <1>1, <1>2 DEF Knows, KnowsCreate, KnowsRow, KnowsPair, KnowsAccount, At, data, Active, Exists
<1>4. CASE ok
  BY <1>1, <1>3, <1>4, SerialProceed
<1>5. CASE ~ok
  <2>1. Proceed(p, FALSE, "row", found)
    BY <1>1, <1>5 DEF Proceed
  <2> QED
    BY <1>1, <2>1, SerialProceed
<1> QED
  BY <1>4, <1>5

LEMMA SerialReadRowAccount ==
  ASSUME SerialInv, NEW p \in Procs, TypeInv', ReadRowAccount(p)
  PROVE  SerialInv'
<1> DEFINE a == seen[p].row.acct
           found == [seen[p] EXCEPT !.cached = cached[a]]
           fits == status[a] = "active" /\ SignFits(seen[p].row.kind, req[p].amt)
           ok == req[p].op = "update" => fits
<1>1. /\ pc[p] = "row" /\ req[p].op \in {"delete", "update"} /\ pc[p] \in Begun /\ "read" \in Begun
      /\ Proceed(p, ok, "read", found)
  BY DEF ReadRowAccount, At, Begun
<1>2. found.row = seen[p].row /\ found.cached = cached[a]
  BY <1>1, Relied DEF Seen
<1>3. KnowsRow(p)
  BY <1>1, Relied
<1> HIDE DEF found
<1>4. ok /\ pc'[p] = "read" /\ seen'[p] = found /\ req' = req /\ UNCHANGED data => Knows(p)'
  BY <1>1, <1>2, <1>3
     DEF Knows, KnowsCreate, KnowsRow, KnowsPair, KnowsAccount, At, data, Active, Exists
<1>5. ok \in BOOLEAN
  OBVIOUS
<1> QED
  BY <1>1, <1>4, <1>5, SerialProceed

LEMMA SerialCheckRowFunds ==
  ASSUME SerialInv, NEW p \in Procs, TypeInv', CheckRowFunds(p)
  PROVE  SerialInv'
<1> DEFINE ok == IF req[p].op = "delete" THEN CanDelete(seen[p].row)
                                         ELSE CanUpdate(seen[p].row, req[p].amt)
<1>1. /\ pc[p] = "read" /\ req[p].op \in {"delete", "update"} /\ pc[p] \in Begun
      /\ "checked" \in Begun /\ Proceed(p, ok, "checked", seen[p])
  BY DEF CheckRowFunds, At, Begun
<1>2. KnowsRow(p)
  BY <1>1, Relied
<1>3. ok /\ pc'[p] = "checked" /\ seen'[p] = seen[p] /\ req' = req /\ UNCHANGED data => Knows(p)'
  BY <1>1, <1>2
     DEF Knows, KnowsCreate, KnowsRow, KnowsPair, KnowsAccount, At, data, Active, Exists
<1>4. ok \in BOOLEAN
  BY DEF CanDelete, CanUpdate
<1> QED
  BY <1>1, <1>3, <1>4, SerialProceed

LEMMA SerialReadPair ==
  ASSUME SerialInv, NEW p \in Procs, TypeInv', ReadPair(p)
  PROVE  SerialInv'
<1> DEFINE from == req[p].acct
           to == req[p].to
           found == [Nothing EXCEPT !.other = cached[to]]
           ok == status[from] = "active" /\ status[to] = "active" /\ ValidPair(from, to)
<1>1. /\ pc[p] = "begun" /\ req[p].op = "transfer" /\ pc[p] \in Begun /\ "read" \in Begun
      /\ Proceed(p, ok, "read", found)
  BY DEF ReadPair, At, Begun
<1>2. found.other = cached[to]
  BY DEF Nothing
<1>3. KnowsPair(p)
  BY <1>1, Relied
<1> HIDE DEF found
<1>4. ok /\ pc'[p] = "read" /\ seen'[p] = found /\ req' = req /\ UNCHANGED data => Knows(p)'
  BY <1>1, <1>2, <1>3
     DEF Knows, KnowsCreate, KnowsRow, KnowsPair, KnowsAccount, At, data, ValidPair
<1> QED
  BY <1>1, <1>4, SerialProceed

LEMMA SerialReadCard ==
  ASSUME SerialInv, NEW p \in Procs, TypeInv', ReadCard(p)
  PROVE  SerialInv'
<1> DEFINE to == req[p].to
           found == [Nothing EXCEPT !.other = cached[to]]
           ok == status[to] = "active" /\ to \in Cards
<1>1. /\ pc[p] = "begun" /\ req[p].op = "pay" /\ pc[p] \in Begun /\ "row" \in Begun
      /\ Proceed(p, ok, "row", found)
  BY DEF ReadCard, At, Begun
<1>2. found.other = cached[to]
  BY DEF Nothing
<1>3. KnowsPair(p)
  BY <1>1, Relied
<1> HIDE DEF found
<1>4. ok /\ pc'[p] = "row" /\ seen'[p] = found /\ req' = req /\ UNCHANGED data => Knows(p)'
  BY <1>1, <1>2, <1>3 DEF Knows, KnowsCreate, KnowsRow, KnowsPair, KnowsAccount, At, data
<1> QED
  BY <1>1, <1>4, SerialProceed

LEMMA SerialCheckDebt ==
  ASSUME SerialInv, NEW p \in Procs, TypeInv', CheckDebt(p)
  PROVE  SerialInv'
<1> DEFINE ok == /\ total[req[p].to] < 0
                 /\ req[p].amt <= -total[req[p].to]
                 /\ status[req[p].acct] = "active"
                 /\ req[p].acct \notin Cards
<1>1. /\ pc[p] = "row" /\ req[p].op = "pay" /\ pc[p] \in Begun /\ "read" \in Begun
      /\ Proceed(p, ok, "read", seen[p])
  BY DEF CheckDebt, At, Begun
<1>2. KnowsPair(p)
  BY <1>1, Relied
<1>3. ok /\ pc'[p] = "read" /\ seen'[p] = seen[p] /\ req' = req /\ UNCHANGED data => Knows(p)'
  BY <1>1, <1>2 DEF Knows, KnowsCreate, KnowsRow, KnowsPair, KnowsAccount, At, data
<1> QED
  BY <1>1, <1>3, SerialProceed

LEMMA SerialLockSource ==
  ASSUME SerialInv, NEW p \in Procs, TypeInv', LockSource(p)
  PROVE  SerialInv'
<1> DEFINE from == req[p].acct
           found == [seen[p] EXCEPT !.cached = cached[from]]
<1>1. /\ pc[p] = "read" /\ req[p].op \in {"transfer", "pay"} /\ pc[p] \in Begun
      /\ "locked" \in Begun /\ "rejected" \in Finished /\ UNCHANGED data
      /\ Goto(p, "locked", found) \/ Finish(p, "rejected")
  BY DEF LockSource, At, Begun, Finished
<1>2. found.cached = cached[from] /\ found.other = seen[p].other
  BY <1>1, Relied DEF Seen
<1>3. KnowsPair(p) /\ TypeOK
  BY <1>1, Relied
<1> HIDE DEF found
<1>4. CASE Goto(p, "locked", found)
  <2>1. pc'[p] = "locked" /\ seen'[p] = found /\ req' = req
    BY <1>3, <1>4, GotoMoves
  <2>2. Knows(p)'
    BY <1>1, <1>2, <1>3, <2>1 DEF Knows, KnowsCreate, KnowsRow, KnowsPair, KnowsAccount, At, data
  <2> QED
    BY <1>1, <1>4, <2>2, SerialGoto
<1>5. CASE Finish(p, "rejected")
  BY <1>1, <1>5, SerialEndQuiet
<1> QED
  BY <1>1, <1>4, <1>5

\* Rows that are made leave those that are there alone.
LEMMA RowsAdded ==
  ASSUME \A i \in RowIds : rows[i] # NoRow => rows'[i] = rows[i],
         \A a \in Accounts : rows'[OpeningRow(a)] = rows[OpeningRow(a)],
         status' = status, Openings
  PROVE  /\ \A a \in Accounts : Movements(a) \subseteq Movements(a)'
         /\ \A a \in Accounts : OpeningBalance(a)' = OpeningBalance(a)
         /\ Openings'
<1>1. Openings'
  BY DEF Openings
<1>2. \A a \in Accounts : Movements(a) \subseteq Movements(a)'
  BY DEF Movements, Active, Exists
<1>3. \A a \in Accounts : OpeningBalance(a)' = OpeningBalance(a)
  BY DEF OpeningBalance, Active, Exists
<1> QED
  BY <1>1, <1>2, <1>3

LEMMA MadeMovement ==
  ASSUME NEW a \in Accounts, NEW i \in RowIds \ {OpeningRow(a)},
         rows'[i] # NoRow, rows'[i].active, rows'[i].acct = a
  PROVE  i \in Movements(a)'
BY DEF Movements, Active, Exists

LEMMA SlotRows ==
  ASSUME NEW p \in Procs
  PROVE  /\ Main(p) \in RowIds /\ Other(p) \in RowIds /\ Main(p) # Other(p)
         /\ \A a : Main(p) # OpeningRow(a) /\ Other(p) # OpeningRow(a)
         /\ \A q \in Procs \ {p} : {Main(q), Other(q)} \cap {Main(p), Other(p)} = {}
BY DEF Main, Other, OpeningRow, RowIds

LEMMA SerialCommitCreate ==
  ASSUME SerialInv, NEW p \in Procs, TypeInv', CommitCreate(p)
  PROVE  SerialInv'
<1> DEFINE a == req[p].acct
           n == req[p].amt
           new == NewRow(a, n, IF n > 0 THEN "INCOME" ELSE "EXPENSE", req[p].key)
           i == Main(p)
<1>1. /\ pc[p] = "checked" /\ req[p].op = "create" /\ pc[p] \in Begun
      /\ {"done", "rejected"} \subseteq Finished
      /\ \/ Finish(p, "rejected") /\ UNCHANGED data
         \/ /\ rows' = [rows EXCEPT ![i] = new]
            /\ total' = [total EXCEPT ![a] = @ + n]
            /\ cached' = [cached EXCEPT ![a] = seen[p].cached + n]
            /\ Finish(p, "done") /\ status' = status
  BY DEF CommitCreate, At, Begun, Finished
<1>2. CASE Finish(p, "rejected") /\ UNCHANGED data
  BY <1>1, <1>2, SerialEndQuiet
<1>3. CASE /\ rows' = [rows EXCEPT ![i] = new]
           /\ total' = [total EXCEPT ![a] = @ + n]
           /\ cached' = [cached EXCEPT ![a] = seen[p].cached + n]
           /\ Finish(p, "done") /\ status' = status
  <2>1. /\ TypeOK /\ a \in Accounts /\ n \in Int /\ status[a] = "active"
        /\ seen[p].cached = cached[a] /\ CanSpend(a, n)
        /\ rows[i] = NoRow /\ Openings /\ Exact /\ Books /\ req[p].key \in Keys \cup {ServerKey}
    <3>1. TypeOK /\ a \in Accounts /\ n \in Int /\ Openings /\ Exact /\ Books
      BY <1>1, Relied
    <3>2. status[a] = "active" /\ seen[p].cached = cached[a] /\ CanSpend(a, n)
      BY <1>1, Relied DEF KnowsCreate
    <3>3. rows[i] = NoRow
      BY <1>1, SlotFresh
    <3>4. req[p].key \in Keys \cup {ServerKey}
      BY <1>1, RequestTypes, Relied
    <3> QED
      BY <3>1, <3>2, <3>3, <3>4
  <2>2. new # NoRow /\ new.active /\ new.acct = a
    <3>1. new = NewRow(a, n, "INCOME", req[p].key) \/ new = NewRow(a, n, "EXPENSE", req[p].key)
      OBVIOUS
    <3> HIDE DEF new
    <3>2. new # NoRow
      BY <2>1, <3>1, NewRowTypes DEF Kinds
    <3> QED
      BY <3>1, <3>2 DEF NewRow
  <2> HIDE DEF new
  <2>3. rows'[i] = new /\ \A j \in RowIds \ {i} : rows'[j] = rows[j]
    BY <1>3, <2>1, SlotRows DEF TypeOK
  <2>4. /\ \A b \in Accounts : Movements(b) \subseteq Movements(b)'
        /\ \A b \in Accounts : OpeningBalance(b)' = OpeningBalance(b)
        /\ Openings'
    <3>1. \A j \in RowIds : rows[j] # NoRow => rows'[j] = rows[j]
      BY <2>1, <2>3
    <3>2. \A b \in Accounts : rows'[OpeningRow(b)] = rows[OpeningRow(b)]
      BY <2>3, SlotRows DEF RowIds
    <3> QED
      BY <1>3, <2>1, <3>1, <3>2, RowsAdded
  <2>5. ASSUME NEW b \in Accounts, b = a PROVE i \in Movements(b)'
    <3>1. i \in RowIds \ {OpeningRow(b)}
      BY SlotRows
    <3>2. rows'[i].active /\ rows'[i].acct = b /\ rows'[i] # NoRow
      BY <2>2, <2>3, <2>5
    <3> HIDE DEF i, a
    <3> QED
      BY <3>1, <3>2, MadeMovement
  <2>6. /\ total'[a] = total[a] + n /\ cached'[a] = cached[a] + n
        /\ \A b \in Accounts \ {a} : total'[b] = total[b] /\ cached'[b] = cached[b]
    BY <1>3, <2>1 DEF TypeOK
  <2>7. Exact'
    BY <1>3, <2>1, <2>6 DEF Exact
  <2>8. Books'
    <3> SUFFICES ASSUME NoneAsked({"delete", "update"})' PROVE Balanced'
      BY DEF Books
    <3>1. Balanced
      BY <1>3, <2>1 DEF Books, NoneAsked, Finish
    <3>2. \A b \in Cards : status'[b] = "active" => total'[b] >= -CreditLimit[b]
      <4>1. a \in Cards => total'[a] >= -CreditLimit[a]
        <5> SUFFICES ASSUME a \in Cards PROVE total'[a] >= -CreditLimit[a]
          OBVIOUS
        <5>1. total[a] \in Int /\ CreditLimit[a] \in Nat /\ total[a] >= -CreditLimit[a]
          BY <2>1, <3>1, LedgerAssumption DEF TypeOK, Balanced
        <5> QED
          BY <2>1, <2>6, <5>1 DEF CanSpend
      <4> QED
        BY <1>3, <2>6, <3>1, <4>1, LedgerAssumption DEF Balanced
    <3>3. \A b \in Accounts \ Cards : status'[b] = "deleted" => total'[b] = 0
      BY <1>3, <2>1, <2>6, <3>1 DEF Balanced
    <3>4. \A b \in Accounts : Movements(b)' = {} => total'[b] = OpeningBalance(b)'
      <4> SUFFICES ASSUME NEW b \in Accounts, Movements(b)' = {}
                   PROVE  total'[b] = OpeningBalance(b)'
        OBVIOUS
      <4>1. b # a /\ Movements(b) = {}
        BY <2>4, <2>5
      <4>2. total[b] = OpeningBalance(b) /\ OpeningBalance(b)' = OpeningBalance(b)
        BY <2>4, <3>1, <4>1 DEF Balanced
      <4> QED
        BY <2>6, <4>1, <4>2
    <3> QED
      BY <3>2, <3>3, <3>4 DEF Balanced
  <2>9. OwnRows(p)
    BY <2>3, SlotRows DEF OwnRows
  <2> QED
    BY <1>1, <1>3, <2>1, <2>4, <2>7, <2>8, <2>9, SerialEnd
<1> QED
  BY <1>1, <1>2, <1>3

\* A deletion or an edit asks for its history not to be left alone.
LEMMA NotLeftAlone ==
  ASSUME SerialInv, NEW p \in Procs, pc[p] \in Begun, req[p].op \in {"delete", "update"}, req' = req
  PROVE  Books'
<1>1. req[p] # NoRequest
  BY Relied, LedgerAssumption
<1> QED
  BY <1>1 DEF Books, NoneAsked

LEMMA SerialAmend ==
  ASSUME SerialInv, NEW p \in Procs, TypeInv', CommitDelete(p) \/ CommitUpdate(p)
  PROVE  SerialInv'
<1> DEFINE i == req[p].row
           a == seen[p].row.acct
           old == seen[p].row.amt
           new == req[p].amt
<1>1. /\ pc[p] = "checked" /\ req[p].op \in {"delete", "update"} /\ pc[p] \in Begun
      /\ "done" \in Finished /\ Finish(p, "done") /\ status' = status /\ req' = req
  BY DEF CommitDelete, CommitUpdate, At, Begun, Finished, Finish
<1>2. /\ TypeOK /\ i \in RowIds /\ new \in Int /\ Active(i) /\ seen[p].row = rows[i]
      /\ seen[p].cached = cached[a] /\ Openings /\ Exact
  <2>1. TypeOK /\ i \in RowIds /\ new \in Int /\ Openings /\ Exact
    BY <1>1, Relied
  <2>2. Active(i) /\ seen[p].row = rows[i] /\ seen[p].cached = cached[a]
    BY <1>1, Relied DEF KnowsRow
  <2> QED
    BY <2>1, <2>2
<1>3. rows[i] \in Row /\ a \in Accounts /\ old \in Int /\ rows[i].amt = old /\ rows[i].acct = a
  BY <1>2 DEF TypeOK, Active, Exists, Row
<1>4. Books'
  BY <1>1, NotLeftAlone
<1>5. /\ \A j \in RowIds \ {i} : rows'[j] = rows[j]
      /\ rows'[i].acct = a
      /\ total'[a] - total[a] = cached'[a] - cached[a]
      /\ \A b \in Accounts \ {a} : total'[b] = total[b] /\ cached'[b] = cached[b]
  <2>1. CASE CommitDelete(p)
    <3>1. /\ rows' = [rows EXCEPT ![i] = [rows[i] EXCEPT !.active = FALSE]]
          /\ cached' = [cached EXCEPT ![a] = cached[a] - old]
          /\ total' = [total EXCEPT ![a] = total[a] - old]
      BY <1>2, <1>3, <2>1 DEF CommitDelete, SetActive
    <3>2. rows'[i] = [rows[i] EXCEPT !.active = FALSE]
      BY <1>2, <3>1 DEF TypeOK
    <3> QED
      BY <1>2, <1>3, <3>1, <3>2 DEF TypeOK, Row
  <2>2. CASE CommitUpdate(p)
    <3>1. /\ rows' = [rows EXCEPT ![i] = [rows[i] EXCEPT !.amt = new]]
          /\ cached' = [cached EXCEPT ![a] = IF new # old THEN cached[a] - old + new ELSE cached[a]]
          /\ total' = [total EXCEPT ![a] = total[a] - old + new]
      BY <1>2, <1>3, <2>2 DEF CommitUpdate
    <3>2. rows'[i] = [rows[i] EXCEPT !.amt = new]
      BY <1>2, <3>1 DEF TypeOK
    <3> QED
      BY <1>2, <1>3, <3>1, <3>2 DEF TypeOK, Row
  <2> QED
    BY <2>1, <2>2
<1>6. Exact'
  <2>1. \A b \in Accounts : {total[b], total'[b], cached[b], cached'[b]} \subseteq Int
    BY <1>2 DEF TypeInv, TypeOK
  <2> QED
    BY <1>1, <1>2, <1>3, <1>5, <2>1 DEF Exact
<1>7. Openings'
  <2>1. rows[i] # NoRow
    BY <1>2 DEF Active, Exists
  <2>2. \A b \in Accounts : OpeningRow(b) \in RowIds
    BY DEF RowIds
  <2> QED
    BY <1>1, <1>2, <1>3, <1>5, <2>1, <2>2 DEF Openings
<1>8. OwnRows(p)
  BY <1>2, <1>5, SlotRows DEF OwnRows, Active, Exists
<1> QED
  BY <1>1, <1>2, <1>4, <1>6, <1>7, <1>8, SerialEnd
LEMMA SerialCommitMove ==
  ASSUME SerialInv, NEW p \in Procs, TypeInv', CommitMove(p)
  PROVE  SerialInv'
<1> DEFINE from == req[p].acct
           to == req[p].to
           n == req[p].amt
           one == DebitRow(req[p])
           two == CreditRow(req[p])
           Moved == /\ rows' = [rows EXCEPT ![Main(p)] = one, ![Other(p)] = two]
                    /\ total' = [total EXCEPT ![from] = @ - n, ![to] = @ + n]
                    /\ cached' = [cached EXCEPT ![from] = seen[p].cached - n,
                                                ![to] = seen[p].other + n]
                    /\ Finish(p, "done") /\ status' = status
<1>1. /\ pc[p] = "locked" /\ pc[p] \in Begun /\ {"done", "rejected", "repeated"} \subseteq Finished
      /\ \/ (Finish(p, "repeated") \/ Finish(p, "rejected")) /\ UNCHANGED data
         \/ Moved
  BY DEF CommitMove, Begun, Finished
<1>2. CASE (Finish(p, "repeated") \/ Finish(p, "rejected")) /\ UNCHANGED data
  BY <1>1, <1>2, SerialEndQuiet
<1>3. CASE Moved
  <2>1. /\ TypeOK /\ from \in Accounts /\ to \in Accounts /\ n \in Int /\ n > 0 /\ from # to
        /\ status[from] = "active" /\ status[to] = "active" /\ from \notin Cards
        /\ seen[p].cached = cached[from] /\ seen[p].other = cached[to]
        /\ rows[Main(p)] = NoRow /\ rows[Other(p)] = NoRow
        /\ Openings /\ Exact /\ Books
    <3>1. TypeOK /\ from \in Accounts /\ to \in Accounts /\ n \in Int /\ Openings /\ Exact /\ Books
      BY <1>1, Relied
    <3>2. req[p].op \in {"transfer", "pay"}
      BY <1>1, Relied DEF KnowsPair
    <3>3. /\ n > 0 /\ from # to /\ status[from] = "active" /\ status[to] = "active"
          /\ from \notin Cards /\ seen[p].cached = cached[from] /\ seen[p].other = cached[to]
      BY <1>1, <3>2, Relied DEF KnowsPair
    <3>4. rows[Main(p)] = NoRow /\ rows[Other(p)] = NoRow
      BY <1>1, <3>2, SlotFresh
    <3> QED
      BY <3>1, <3>3, <3>4
  <2>2. one # NoRow /\ two # NoRow /\ one.active /\ two.active /\ one.acct = from /\ two.acct = to
    <3>1. req[p].key \in Keys \cup {ServerKey} /\ -n \in Int
      BY <1>1, <2>1, RequestTypes
    <3>2. one = NewRow(from, -n, "EXPENSE", ServerKey) \/ one = NewRow(from, -n, "TRANSFER_OUT", req[p].key)
      BY DEF DebitRow
    <3>3. two = NewRow(to, n, "CREDIT_PAYMENT", req[p].key) \/ two = NewRow(to, n, "TRANSFER_IN", ServerKey)
      BY DEF CreditRow
    <3> HIDE DEF one, two
    <3>4. one # NoRow /\ two # NoRow
      BY <2>1, <3>1, <3>2, <3>3, NewRowTypes DEF Kinds
    <3> QED
      BY <3>2, <3>3, <3>4 DEF NewRow
  <2> HIDE DEF one, two
  <2>3. /\ rows'[Main(p)] = one /\ rows'[Other(p)] = two
        /\ \A j \in RowIds \ {Main(p), Other(p)} : rows'[j] = rows[j]
    BY <1>3, <2>1, SlotRows DEF TypeOK
  <2>4. /\ \A b \in Accounts : Movements(b) \subseteq Movements(b)'
        /\ \A b \in Accounts : OpeningBalance(b)' = OpeningBalance(b)
        /\ Openings'
    <3>1. \A j \in RowIds : rows[j] # NoRow => rows'[j] = rows[j]
      BY <2>1, <2>3
    <3>2. \A b \in Accounts : rows'[OpeningRow(b)] = rows[OpeningRow(b)]
      BY <2>3, SlotRows DEF RowIds
    <3> QED
      BY <1>3, <2>1, <3>1, <3>2, RowsAdded
  <2>5. ASSUME NEW b \in Accounts, b \in {from, to} PROVE Movements(b)' # {}
    <3>1. Main(p) \in RowIds \ {OpeningRow(b)} /\ Other(p) \in RowIds \ {OpeningRow(b)}
      BY SlotRows
    <3>2. CASE b = from
      <4>1. rows'[Main(p)].active /\ rows'[Main(p)].acct = b /\ rows'[Main(p)] # NoRow
        BY <2>2, <2>3, <3>2
      <4> QED
        BY <3>1, <4>1, MadeMovement
    <3>3. CASE b = to
      <4>1. rows'[Other(p)].active /\ rows'[Other(p)].acct = b /\ rows'[Other(p)] # NoRow
        BY <2>2, <2>3, <3>3
      <4> QED
        BY <3>1, <4>1, MadeMovement
    <3> QED
      BY <2>5, <3>2, <3>3
  <2>6. /\ total'[from] = total[from] - n /\ cached'[from] = cached[from] - n
        /\ total'[to] = total[to] + n /\ cached'[to] = cached[to] + n
        /\ \A b \in Accounts \ {from, to} : total'[b] = total[b] /\ cached'[b] = cached[b]
    BY <1>3, <2>1 DEF TypeOK
  <2>7. Exact'
    BY <1>3, <2>1, <2>6 DEF Exact
  <2>8. Books'
    <3> SUFFICES ASSUME NoneAsked({"delete", "update"})' PROVE Balanced'
      BY DEF Books
    <3>1. Balanced
      BY <1>3, <2>1 DEF Books, NoneAsked, Finish
    <3>2. \A b \in Cards : status'[b] = "active" => total'[b] >= -CreditLimit[b]
      <4>1. to \in Cards => total'[to] >= -CreditLimit[to]
        <5> SUFFICES ASSUME to \in Cards PROVE total'[to] >= -CreditLimit[to]
          OBVIOUS
        <5>1. total[to] \in Int /\ CreditLimit[to] \in Nat /\ total[to] >= -CreditLimit[to]
          BY <2>1, <3>1, LedgerAssumption DEF TypeOK, Balanced
        <5> QED
          BY <2>1, <2>6, <5>1
      <4> QED
        BY <1>3, <2>1, <2>6, <3>1, <4>1, LedgerAssumption DEF Balanced
    <3>3. \A b \in Accounts \ Cards : status'[b] = "deleted" => total'[b] = 0
      BY <1>3, <2>1, <2>6, <3>1 DEF Balanced
    <3>4. \A b \in Accounts : Movements(b)' = {} => total'[b] = OpeningBalance(b)'
      <4> SUFFICES ASSUME NEW b \in Accounts, Movements(b)' = {}
                   PROVE  total'[b] = OpeningBalance(b)'
        OBVIOUS
      <4>1. b \notin {from, to} /\ Movements(b) = {}
        BY <2>4, <2>5
      <4>2. total[b] = OpeningBalance(b) /\ OpeningBalance(b)' = OpeningBalance(b)
        BY <2>4, <3>1, <4>1 DEF Balanced
      <4> QED
        BY <2>6, <4>1, <4>2
    <3> QED
      BY <3>2, <3>3, <3>4 DEF Balanced
  <2>9. OwnRows(p)
    BY <2>3, SlotRows DEF OwnRows
  <2> QED
    BY <1>1, <1>3, <2>1, <2>4, <2>7, <2>8, <2>9, SerialEnd
<1> QED
  BY <1>1, <1>2, <1>3

\* A reversal is a transfer from there on: between two accounts, of a positive amount.
LEMMA SerialReadTransfer ==
  ASSUME SerialInv, NEW p \in Procs, TypeInv', ReadTransfer(p)
  PROVE  SerialInv'
<1>1. /\ pc[p] = "begun" /\ req[p].op = "reverse" /\ pc[p] \in Begun /\ "rejected" \in Finished
      /\ UNCHANGED data
      /\ Finish(p, "rejected") \/ (UNCHANGED <<pc, seen>> /\ ~Finish(p, "rejected"))
  BY DEF ReadTransfer, At, Begun, Finished
<1>2. CASE Finish(p, "rejected")
  BY <1>1, <1>2, SerialEndQuiet
<1>3. CASE UNCHANGED <<pc, seen>> /\ ~Finish(p, "rejected")
  <2>1. TypeOK /\ Slot(p) /\ req[p] \in Request
    BY <1>1, Relied
  <2>2. PICK debit, credit \in {Main(req[p].of), Other(req[p].of)} :
          /\ Active(debit) /\ Active(credit)
          /\ rows[credit].amt # 0 /\ rows[credit].acct # rows[debit].acct
          /\ req' = [req EXCEPT ![p] = [@ EXCEPT
                       !.op = "transfer", !.acct = rows[credit].acct,
                       !.to = rows[debit].acct, !.key = ServerKey,
                       !.amt = IF rows[credit].amt < 0 THEN -rows[credit].amt
                                                       ELSE rows[credit].amt]]
    BY <1>3 DEF ReadTransfer
  <2>3. rows[credit].amt \in Int
    <3>1. credit \in RowIds
      BY <1>1, <2>1, RequestTypes DEF RowIds
    <3> QED
      BY <2>1, <2>2, <3>1 DEF TypeOK, Active, Exists, Row
  <2> DEFINE n == IF rows[credit].amt < 0 THEN -rows[credit].amt ELSE rows[credit].amt
  <2>4. n \in Int /\ n > 0
    BY <2>2, <2>3
  <2> HIDE DEF n
  <2>5. /\ req'[p] = [req[p] EXCEPT !.op = "transfer", !.acct = rows[credit].acct,
                        !.to = rows[debit].acct, !.key = ServerKey, !.amt = n]
        /\ \A q \in Procs \ {p} : req'[q] = req[q]
    BY <2>1, <2>2 DEF TypeOK, n
  <2>6. /\ req'[p].op = "transfer" /\ req'[p].acct = rows[credit].acct
        /\ req'[p].to = rows[debit].acct /\ req'[p].amt = n
    BY <2>1, <2>5 DEF Request
  <2>7. Knows(p)'
    BY <1>1, <1>3, <2>2, <2>4, <2>6
       DEF Knows, KnowsCreate, KnowsRow, KnowsPair, KnowsAccount, At
  <2>8. Slot(p)'
    <3>1. req'[p] \in Request
      BY <1>1, <1>3 DEF TypeInv, TypeOK
    <3> QED
      BY <1>1, <1>3, <2>1, <3>1 DEF Slot, data, Begun
  <2>9. NoneAsked({"delete", "update"})' => NoneAsked({"delete", "update"})
    <3> SUFFICES ASSUME NoneAsked({"delete", "update"})', NEW q \in Procs, req[q] # NoRequest
                 PROVE  req[q].op \notin {"delete", "update"}
      BY DEF NoneAsked
    <3>1. CASE q = p
      BY <1>1, <3>1
    <3>2. CASE q # p
      BY <2>5, <3>2 DEF NoneAsked
    <3> QED
      BY <3>1, <3>2
  <2>10. Alone(p)
    BY <1>1, <1>3, <2>5 DEF Alone, OwnRows, data
  <2> QED
    BY <1>1, <2>7, <2>8, <2>9, <2>10, BooksStay, SerialStep
<1> QED
  BY <1>1, <1>2, <1>3

\* The reads that open and close accounts.
LEMMA SerialOpenCloseReads ==
  ASSUME SerialInv, NEW p \in Procs, TypeInv',
         ReadParent(p) \/ ReadBalance(p) \/ CountMovements(p) \/ CheckPockets(p) \/ ReadCardBalance(p)
  PROVE  SerialInv'
<1> USE DEF Knows, KnowsCreate, KnowsRow, KnowsPair, KnowsAccount, At, data
<1> {"row", "read", "checked"} \subseteq Begun
  BY DEF Begun
<1> DEFINE a == req[p].acct
<1>1. CASE ReadParent(p)
  <2> DEFINE parent == Parent[a]
             ok == parent = NoAccount \/ (status[parent] = "active" /\ ~IsPocket(parent))
  <2>1. /\ pc[p] = "begun" /\ req[p].op = "open" /\ pc[p] \in Begun
        /\ Proceed(p, ok, "checked", Nothing)
    BY <1>1 DEF ReadParent, Begun
  <2>2. ok \in BOOLEAN
    BY DEF IsPocket
  <2> QED
    BY <2>1, <2>2, SerialProceed
<1>2. CASE ReadBalance(p)
  <2> DEFINE ok == status[a] = "active"
             found == [Nothing EXCEPT !.total = total[a]]
  <2>1. /\ pc[p] = "begun" /\ req[p].op = "close" /\ pc[p] \in Begun
        /\ Proceed(p, ok, "row", found)
    BY <1>2 DEF ReadBalance, Begun
  <2>2. found.total = total[a]
    BY DEF Nothing
  <2> HIDE DEF found
  <2>3. ok /\ pc'[p] = "row" /\ seen'[p] = found /\ req' = req /\ UNCHANGED data => Knows(p)'
    BY <2>1, <2>2
  <2> QED
    BY <2>1, <2>3, SerialProceed
<1>3. CASE CountMovements(p)
  <2> DEFINE ok == seen[p].total = 0 \/ Movements(a) = {}
  <2>1. /\ pc[p] = "row" /\ req[p].op = "close" /\ pc[p] \in Begun
        /\ Proceed(p, ok, "read", seen[p])
    BY <1>3 DEF CountMovements, Begun
  <2>2. KnowsAccount(p)
    BY <2>1, Relied
  <2>3. ok /\ pc'[p] = "read" /\ seen'[p] = seen[p] /\ req' = req /\ UNCHANGED data => Knows(p)'
    BY <2>1, <2>2 DEF Movements, Active, Exists
  <2>4. ok \in BOOLEAN
    OBVIOUS
  <2> QED
    BY <2>1, <2>3, <2>4, SerialProceed
<1>4. CASE CheckPockets(p)
  <2> DEFINE ok == \A b \in Pockets(a) : total[b] = 0
  <2>1. /\ pc[p] = "read" /\ req[p].op = "close" /\ pc[p] \in Begun
        /\ Proceed(p, ok, "checked", seen[p])
    BY <1>4 DEF CheckPockets, Begun
  <2>2. KnowsAccount(p)
    BY <2>1, Relied
  <2>3. ok /\ pc'[p] = "checked" /\ seen'[p] = seen[p] /\ req' = req /\ UNCHANGED data => Knows(p)'
    BY <2>1, <2>2 DEF Movements, Active, Exists
  <2> QED
    BY <2>1, <2>3, SerialProceed
<1>5. CASE ReadCardBalance(p)
  <2> DEFINE ok == status[a] = "active" /\ a \in Cards /\ total[a] >= 0
  <2>1. /\ pc[p] = "begun" /\ req[p].op = "closeCard" /\ pc[p] \in Begun
        /\ Proceed(p, ok, "checked", Nothing)
    BY <1>5 DEF ReadCardBalance, Begun
  <2>2. ok /\ pc'[p] = "checked" /\ seen'[p] = Nothing /\ req' = req /\ UNCHANGED data => Knows(p)'
    BY <2>1
  <2> QED
    BY <2>1, <2>2, SerialProceed
<1> QED
  BY <1>1, <1>2, <1>3, <1>4, <1>5

LEMMA SerialCommitOpen ==
  ASSUME SerialInv, NEW p \in Procs, TypeInv', CommitOpen(p)
  PROVE  SerialInv'
<1> DEFINE a == req[p].acct
           new == NewRow(a, Opening[a], "INCOME", ServerKey)
           i == OpeningRow(a)
           Opened == /\ status[a] = "none"
                     /\ status' = [status EXCEPT ![a] = "active"]
                     /\ cached' = [cached EXCEPT ![a] = Opening[a]]
                     /\ total' = [total EXCEPT ![a] = Opening[a]]
                     /\ rows' = IF Opening[a] = 0 THEN rows ELSE [rows EXCEPT ![i] = new]
                     /\ Finish(p, "done")
<1>1. /\ pc[p] = "checked" /\ req[p].op = "open" /\ pc[p] \in Begun
      /\ {"done", "rejected"} \subseteq Finished
      /\ Opened \/ (Finish(p, "rejected") /\ UNCHANGED data)
  BY DEF CommitOpen, At, Begun, Finished
<1>2. CASE Finish(p, "rejected") /\ UNCHANGED data
  BY <1>1, <1>2, SerialEndQuiet
<1>3. CASE Opened
  <2>1. /\ TypeOK /\ a \in Accounts /\ i \in RowIds
        /\ Openings /\ Exact /\ Books /\ rows[i] = NoRow /\ Opening[a] \in Nat
    <3>1. TypeOK /\ a \in Accounts /\ Openings /\ Exact /\ Books
      BY <1>1, Relied
    <3>2. rows[i] = NoRow
      BY <1>3, <3>1 DEF Openings
    <3> QED
      BY <3>1, <3>2, LedgerAssumption DEF RowIds
  <2>2. new # NoRow /\ new.acct = a /\ new.active /\ new.amt = Opening[a]
    <3>1. new # NoRow
      BY <2>1, NewRowTypes DEF Kinds
    <3> QED
      BY <3>1 DEF NewRow
  <2>3. /\ rows'[i] = IF Opening[a] = 0 THEN NoRow ELSE new
        /\ \A j \in RowIds \ {i} : rows'[j] = rows[j]
    BY <1>3, <2>1 DEF TypeOK
  <2> HIDE DEF new
  <2>4. /\ total'[a] = Opening[a] /\ cached'[a] = Opening[a] /\ status'[a] = "active"
        /\ \A b \in Accounts \ {a} :
             total'[b] = total[b] /\ cached'[b] = cached[b] /\ status'[b] = status[b]
    BY <1>3, <2>1 DEF TypeOK
  <2>5. \A b \in Accounts : OpeningRow(b) \in RowIds /\ (b # a => OpeningRow(b) # i)
    BY DEF RowIds, OpeningRow
  <2>6. Openings'
    BY <2>1, <2>2, <2>3, <2>4, <2>5 DEF Openings
  <2>7. Exact'
    BY <2>1, <2>4 DEF Exact
  <2>8. ASSUME NEW b \in Accounts PROVE Movements(b) \subseteq Movements(b)'
    BY <2>1, <2>3 DEF Movements, Active, Exists
  <2>9. Books'
    <3> SUFFICES ASSUME NoneAsked({"delete", "update"})' PROVE Balanced'
      BY DEF Books
    <3>1. Balanced
      BY <1>3, <2>1 DEF Books, NoneAsked, Finish
    <3>2. \A b \in Cards : status'[b] = "active" => total'[b] >= -CreditLimit[b]
      BY <2>1, <2>4, <3>1, LedgerAssumption DEF Balanced
    <3>3. \A b \in Accounts \ Cards : status'[b] = "deleted" => total'[b] = 0
      BY <2>4, <3>1 DEF Balanced
    <3>4. ASSUME NEW b \in Accounts, Movements(b)' = {} PROVE total'[b] = OpeningBalance(b)'
      <4>1. CASE b = a
        <5>1. total'[b] = Opening[b] /\ OpeningRow(b) = i
          BY <2>4, <4>1
        <5>2. CASE Opening[b] = 0
          BY <2>3, <4>1, <5>1, <5>2 DEF OpeningBalance, Active, Exists
        <5>3. CASE Opening[b] # 0
          BY <2>2, <2>3, <4>1, <5>1, <5>3 DEF OpeningBalance, Active, Exists
        <5> QED
          BY <5>2, <5>3
      <4>2. CASE b # a
        <5>1. total[b] = OpeningBalance(b)
          BY <2>8, <3>1, <3>4 DEF Balanced
        <5>2. rows'[OpeningRow(b)] = rows[OpeningRow(b)]
          BY <2>3, <2>5, <4>2
        <5> QED
          BY <2>4, <4>2, <5>1, <5>2 DEF OpeningBalance, Active, Exists
      <4> QED
        BY <4>1, <4>2
    <3> QED
      BY <3>2, <3>3, <3>4 DEF Balanced
  <2>10. OwnRows(p)
    <3>1. \A q \in Procs : {Main(q), Other(q)} \subseteq RowIds \ {i}
      BY SlotRows
    <3> QED
      BY <2>3, <3>1 DEF OwnRows
  <2> QED
    BY <1>1, <1>3, <2>1, <2>6, <2>7, <2>9, <2>10, SerialEnd
<1> QED
  BY <1>1, <1>2, <1>3

LEMMA SerialCommitClose ==
  ASSUME SerialInv, NEW p \in Procs, TypeInv', CommitClose(p)
  PROVE  SerialInv'
<1> DEFINE a == req[p].acct
           i == OpeningRow(a)
           drop == seen[p].total # 0 /\ Active(i)
<1>1. /\ pc[p] = "checked" /\ req[p].op \in {"close", "closeCard"} /\ pc[p] \in Begun
      /\ "done" \in Finished /\ Finish(p, "done") /\ cached' = cached
      /\ status' = [status EXCEPT ![a] = "deleted"]
      /\ rows' = IF drop THEN [rows EXCEPT ![i] = [rows[i] EXCEPT !.active = FALSE]] ELSE rows
      /\ total' = [total EXCEPT ![a] = IF drop THEN total[a] - rows[i].amt ELSE total[a]]
  BY DEF CommitClose, At, Begun, Finished, SetActive
<1>2. TypeOK /\ a \in Accounts /\ i \in RowIds /\ Openings /\ Exact /\ Books
  BY <1>1, Relied DEF RowIds
<1>3. /\ status'[a] = "deleted"
      /\ total'[a] = IF drop THEN total[a] - rows[i].amt ELSE total[a]
      /\ \A b \in Accounts \ {a} : status'[b] = status[b] /\ total'[b] = total[b]
  BY <1>1, <1>2 DEF TypeOK
<1>4. /\ \A j \in RowIds \ {i} : rows'[j] = rows[j]
      /\ ~drop => rows' = rows
      /\ drop => rows[i] # NoRow /\ rows'[i].acct = rows[i].acct /\ ~rows'[i].active
  <2>1. CASE drop
    <3>1. rows[i] \in Row /\ rows[i] # NoRow /\ rows'[i] = [rows[i] EXCEPT !.active = FALSE]
      BY <1>1, <1>2, <2>1 DEF TypeOK, Active, Exists
    <3> QED
      BY <1>1, <1>2, <2>1, <3>1 DEF TypeOK, Row
  <2>2. CASE ~drop
    BY <1>1, <2>2
  <2> QED
    BY <2>1, <2>2
<1> HIDE DEF drop
<1>5. \A b \in Accounts : OpeningRow(b) \in RowIds /\ (b # a => OpeningRow(b) # i)
  BY DEF RowIds, OpeningRow
<1>6. Openings'
  BY <1>2, <1>3, <1>4, <1>5 DEF Openings
<1>7. Exact'
  BY <1>1, <1>2, <1>3 DEF Exact
<1>8. ASSUME NEW b \in Accounts PROVE Movements(b) \subseteq Movements(b)'
  <2>1. CASE b = a
    BY <1>4, <2>1 DEF Movements, Active, Exists
  <2>2. CASE b # a
    <3>1. rows[i] # NoRow => rows[i].acct # b
      BY <1>2, <2>2 DEF Openings
    <3> QED
      BY <1>4, <3>1 DEF Movements, Active, Exists
  <2> QED
    BY <2>1, <2>2
<1>9. Books'
  <2> SUFFICES ASSUME NoneAsked({"delete", "update"})' PROVE Balanced'
    BY DEF Books
  <2>1. Balanced
    BY <1>1, <1>2 DEF Books, NoneAsked, Finish
  <2>2. \A b \in Cards : status'[b] = "active" => total'[b] >= -CreditLimit[b]
    BY <1>3, <2>1, LedgerAssumption DEF Balanced
  <2>3. drop /\ Movements(a) = {} => total'[a] = 0
    <3>1. drop /\ Movements(a) = {} => total[a] = rows[i].amt
      BY <1>2, <2>1 DEF Balanced, OpeningBalance, drop
    <3> QED
      BY <1>2, <1>3, <3>1 DEF TypeOK
  <2>4. a \notin Cards => total'[a] = 0
    <3> SUFFICES ASSUME a \notin Cards PROVE total'[a] = 0
      OBVIOUS
    <3>1. req[p].op = "close" /\ seen[p].total = total[a] /\ (total[a] = 0 \/ Movements(a) = {})
      BY <1>1, Relied DEF KnowsAccount, At
    <3>2. CASE drop
      <4>1. Movements(a) = {}
        BY <3>1, <3>2 DEF drop
      <4> QED
        BY <2>3, <3>2, <4>1
    <3>3. CASE ~drop
      <4>1. total[a] = 0
        BY <1>2, <2>1, <3>1, <3>3 DEF Balanced, OpeningBalance, drop
      <4> QED
        BY <1>3, <3>3, <4>1
    <3> QED
      BY <3>2, <3>3
  <2>5. \A b \in Accounts \ Cards : status'[b] = "deleted" => total'[b] = 0
    BY <1>3, <2>1, <2>4 DEF Balanced
  <2>6. ASSUME NEW b \in Accounts, Movements(b)' = {} PROVE total'[b] = OpeningBalance(b)'
    <3>1. Movements(b) = {} /\ total[b] = OpeningBalance(b)
      BY <1>8, <2>1, <2>6 DEF Balanced
    <3>2. CASE b # a \/ ~drop
      <4>1. rows'[OpeningRow(b)] = rows[OpeningRow(b)] /\ total'[b] = total[b]
        BY <1>3, <1>4, <1>5, <3>2
      <4> QED
        BY <3>1, <4>1 DEF OpeningBalance, Active, Exists
    <3>3. CASE b = a /\ drop
      <4>1. total'[b] = 0 /\ ~rows'[OpeningRow(b)].active
        BY <1>4, <2>3, <3>1, <3>3
      <4> QED
        BY <4>1 DEF OpeningBalance, Active, Exists
    <3> QED
      BY <3>2, <3>3
  <2> QED
    BY <2>2, <2>5, <2>6 DEF Balanced
<1>10. OwnRows(p)
  <2>1. \A q \in Procs : {Main(q), Other(q)} \subseteq RowIds \ {i}
    BY SlotRows
  <2> QED
    BY <1>4, <2>1 DEF OwnRows
<1> QED
  BY <1>1, <1>2, <1>6, <1>7, <1>9, <1>10, SerialEnd

LEMMA SerialReconcile ==
  ASSUME SerialInv, NEW p \in Procs, TypeInv', Reconcile(p)
  PROVE  SerialInv'
<1> USE DEF Knows, KnowsCreate, KnowsRow, KnowsPair, KnowsAccount, At, data
<1> {"read", "checked"} \subseteq Begun /\ "done" \in Finished
  BY DEF Begun, Finished
<1> DEFINE a == req[p].acct
<1>1. CASE ReadCached(p)
  <2> DEFINE ok == status[a] = "active"
             found == [Nothing EXCEPT !.cached = cached[a]]
  <2>1. /\ pc[p] = "begun" /\ req[p].op = "reconcile" /\ pc[p] \in Begun
        /\ Proceed(p, ok, "read", found)
    BY <1>1 DEF ReadCached, Begun
  <2> QED
    BY <2>1, SerialProceed
<1>2. CASE ReadTotal(p)
  <2> DEFINE found == [seen[p] EXCEPT !.total = total[a]]
  <2>1. /\ pc[p] = "read" /\ req[p].op = "reconcile" /\ pc[p] \in Begun /\ UNCHANGED data
        /\ Goto(p, "checked", found) \/ Finish(p, "done")
    BY <1>2 DEF ReadTotal, Begun
  <2>2. found.total = total[a]
    BY <2>1, Relied DEF Seen
  <2> HIDE DEF found
  <2>3. CASE Goto(p, "checked", found)
    <3>1. pc'[p] = "checked" /\ seen'[p] = found /\ req' = req
      BY <2>1, <2>3, Relied, GotoMoves
    <3>2. Knows(p)'
      BY <2>1, <2>2, <3>1
    <3> QED
      BY <2>1, <2>3, <3>2, SerialGoto
  <2> QED
    BY <2>1, <2>3, SerialEndQuiet
<1>3. CASE CommitReconcile(p)
  <2>1. /\ pc[p] = "checked" /\ req[p].op = "reconcile" /\ pc[p] \in Begun
        /\ cached' = [cached EXCEPT ![a] = seen[p].total] /\ Finish(p, "done")
        /\ UNCHANGED <<status, rows, total>>
    BY <1>3 DEF CommitReconcile, Begun
  <2>2. TypeOK /\ a \in Accounts /\ Openings /\ Exact /\ Books /\ seen[p].total = total[a]
    BY <2>1, Relied
  <2>3. Openings' /\ Exact'
    BY <2>1, <2>2 DEF Openings, Exact, TypeOK
  <2>4. Books'
    <3>1. NoneAsked({"delete", "update"})' => NoneAsked({"delete", "update"})
      BY <2>1 DEF Finish, NoneAsked
    <3>2. Balanced => Balanced'
      BY <2>1 DEF Balanced, OpeningBalance, Movements, Active, Exists
    <3> QED
      BY <2>2, <3>1, <3>2 DEF Books
  <2> QED
    BY <2>1, <2>3, <2>4, SerialEnd DEF OwnRows
<1> QED
  BY <1>1, <1>2, <1>3 DEF Reconcile

\* A request is let in when no other is running.
LEMMA AloneInFlight ==
  ASSUME MaxInFlight = 1, SerialInv, Cardinality(InFlight) < MaxInFlight
  PROVE  InFlight = {}
<1> SUFFICES ASSUME NEW p \in InFlight PROVE FALSE
  OBVIOUS
<1>1. InFlight = {p}
  BY DEF SerialInv, Solo, InFlight
<1>2. Cardinality(InFlight) = 1
  BY <1>1, FS_Singleton
<1> QED
  BY <1>2

LEMMA SerialBegin ==
  ASSUME MaxInFlight = 1, SerialInv, NEW p \in Procs, TypeInv', Begin(p)
  PROVE  SerialInv'
<1>1. TypeOK /\ Slot(p)
  BY DEF SerialInv, TypeInv
<1>2. \A q \in Procs : pc[q] \notin Begun
  BY AloneInFlight DEF Begin, InFlight
<1>3. PICK r \in RequestsOf[p] :
        /\ req' = [req EXCEPT ![p] = r]
        /\ pc' = [pc EXCEPT ![p] = IF AlreadyDone(r) THEN "repeated" ELSE "begun"]
  BY DEF Begin
<1>4. /\ pc[p] = "idle" /\ UNCHANGED data /\ req'[p] = r
      /\ pc'[p] \in {"begun", "repeated"}
      /\ \A q \in Procs \ {p} : pc'[q] = pc[q] /\ req'[q] = req[q]
  BY <1>1, <1>3 DEF Begin, TypeOK
<1>5. r \in Request /\ WellFormed(r)
  BY <1>3, LedgerAssumption
<1>6. NoneAsked({"delete", "update"})' => NoneAsked({"delete", "update"})
  <2> SUFFICES ASSUME NoneAsked({"delete", "update"})', NEW q \in Procs, req[q] # NoRequest
               PROVE  req[q].op \notin {"delete", "update"}
    BY DEF NoneAsked
  <2>1. CASE q = p
    BY <1>1, <1>4, <2>1 DEF Slot
  <2>2. CASE q # p
    BY <1>4, <2>2 DEF NoneAsked
  <2> QED
    BY <2>1, <2>2
<1>7. Openings' /\ Exact' /\ Books'
  BY <1>4, <1>6, BooksStay
<1>8. Solo'
  BY <1>2, <1>4 DEF Solo
<1>9. Slot(p)' /\ Knows(p)'
  <2>1. Slot(p)'
    BY <1>1, <1>4, <1>5 DEF Slot, data
  <2>2. Knows(p)'
    BY <1>4, <1>5, LedgerAssumption
       DEF WellFormed, Begun, Knows, KnowsCreate, KnowsRow, KnowsPair, KnowsAccount, At
  <2> QED
    BY <2>1, <2>2
<1>10. ASSUME NEW q \in Procs \ {p} PROVE Slot(q)' /\ Knows(q)'
  BY <1>2, <1>4, <1>10 DEF SerialInv, Slot, Knows, data
<1> QED
  BY <1>7, <1>8, <1>9, <1>10 DEF SerialInv

LEMMA SerialInit == Init => SerialInv
<1> SUFFICES ASSUME Init PROVE SerialInv
  OBVIOUS
<1>1. TypeInv
  BY TypeInit
<1>2. \A a, b \in Accounts : OpeningRow(a) \in RowIds /\ OpeningRow(a)[1] = a
                               /\ (OpeningRow(a) = OpeningRow(b) => a = b)
  BY DEF OpeningRow, RowIds
<1>3. \A a \in Accounts : rows[OpeningRow(a)] =
        IF a \in InitiallyOpen /\ Opening[a] > 0
        THEN NewRow(a, Opening[a], "INCOME", ServerKey) ELSE NoRow
  <2> SUFFICES ASSUME NEW a \in Accounts
               PROVE  rows[OpeningRow(a)] =
                        IF a \in InitiallyOpen /\ Opening[a] > 0
                        THEN NewRow(a, Opening[a], "INCOME", ServerKey) ELSE NoRow
    OBVIOUS
  <2> DEFINE i == OpeningRow(a)
  <2>1. i \in RowIds /\ i[1] = a /\ \A b \in Accounts : i = OpeningRow(b) => a = b
    BY <1>2
  <2>2. rows[i] = IF \E b \in InitiallyOpen : i = OpeningRow(b) /\ Opening[b] > 0
                  THEN NewRow(i[1], Opening[i[1]], "INCOME", ServerKey) ELSE NoRow
    BY <2>1 DEF Init
  <2> HIDE DEF i
  <2>3. (\E b \in InitiallyOpen : i = OpeningRow(b) /\ Opening[b] > 0)
          <=> a \in InitiallyOpen /\ Opening[a] > 0
    BY <2>1, LedgerAssumption DEF i
  <2> QED
    BY <2>1, <2>2, <2>3 DEF i
<1>4. \A a \in Accounts : a \in InitiallyOpen /\ Opening[a] > 0 => rows[OpeningRow(a)] # NoRow
  BY <1>3, NewRowTypes, LedgerAssumption DEF Kinds
<1>5. \A a \in Accounts : a \in InitiallyOpen /\ Opening[a] > 0 =>
        /\ rows[OpeningRow(a)].acct = a /\ rows[OpeningRow(a)].active
        /\ rows[OpeningRow(a)].amt = Opening[a]
  <2> SUFFICES ASSUME NEW a \in Accounts, a \in InitiallyOpen, Opening[a] > 0
               PROVE  /\ rows[OpeningRow(a)].acct = a /\ rows[OpeningRow(a)].active
                      /\ rows[OpeningRow(a)].amt = Opening[a]
    OBVIOUS
  <2>1. rows[OpeningRow(a)] = NewRow(a, Opening[a], "INCOME", ServerKey)
    BY <1>3
  <2> QED
    BY <2>1 DEF NewRow
<1>6. Openings
  BY <1>3, <1>4, <1>5 DEF Openings, Init
<1>7. Exact
  BY DEF Exact, Init
<1>8. Books
  <2>1. \A a \in Accounts : total[a] = IF a \in InitiallyOpen THEN Opening[a] ELSE 0
    BY DEF Init
  <2>2. \A a \in Accounts : total[a] = OpeningBalance(a)
    BY <1>3, <1>4, <1>5, <2>1, LedgerAssumption DEF OpeningBalance, Active, Exists
  <2>3. \A a \in Cards : total[a] >= -CreditLimit[a]
    BY <2>1, LedgerAssumption
  <2> QED
    BY <2>2, <2>3 DEF Books, Balanced, Init
<1>9. Solo /\ \A p \in Procs : Slot(p) /\ Knows(p)
  <2>1. ASSUME NEW p \in Procs PROVE rows[Main(p)] = NoRow /\ rows[Other(p)] = NoRow
    BY SlotRows DEF Init
  <2> QED
    BY <2>1 DEF Solo, Slot, Knows, Init, Begun
<1> QED
  BY <1>1, <1>6, <1>7, <1>8, <1>9 DEF SerialInv

LEMMA SerialNext == MaxInFlight = 1 /\ SerialInv /\ [Next]_vars => SerialInv'
<1> SUFFICES ASSUME MaxInFlight = 1, SerialInv, [Next]_vars PROVE SerialInv'
  OBVIOUS
<1>1. TypeInv'
  BY TypeNext DEF SerialInv
<1>2. ASSUME NEW p \in Procs, Begin(p) PROVE SerialInv'
  BY <1>1, <1>2, SerialBegin
<1>3. ASSUME NEW p \in Procs, Create(p) PROVE SerialInv'
  BY <1>1, <1>3, SerialReadAccount, SerialCheckFunds, SerialCommitCreate DEF Create
<1>4. ASSUME NEW p \in Procs, Amend(p) PROVE SerialInv'
  BY <1>1, <1>4, SerialReadRow, SerialReadRowAccount, SerialCheckRowFunds, SerialAmend DEF Amend
<1>5. ASSUME NEW p \in Procs, Move(p) PROVE SerialInv'
  BY <1>1, <1>5, SerialReadTransfer, SerialReadPair, SerialReadCard, SerialCheckDebt,
     SerialLockSource, SerialCommitMove DEF Move
<1>6. ASSUME NEW p \in Procs, OpenClose(p) PROVE SerialInv'
  BY <1>1, <1>6, SerialOpenCloseReads, SerialCommitOpen, SerialCommitClose DEF OpenClose
<1>7. ASSUME NEW p \in Procs, Reconcile(p) PROVE SerialInv'
  BY <1>1, <1>7, SerialReconcile
<1>8. ASSUME NEW p \in Procs, Abort(p) PROVE SerialInv'
  BY <1>1, <1>8, SerialEndQuiet DEF Abort, Finished
<1>9. CASE UNCHANGED vars
  <2>1. NoneAsked({"delete", "update"})' => NoneAsked({"delete", "update"})
    BY <1>9 DEF vars, NoneAsked
  <2>2. Openings' /\ Exact' /\ Books'
    BY <1>9, <2>1, BooksStay DEF vars, data
  <2>3. Solo' /\ \A p \in Procs : Slot(p)' /\ Knows(p)'
    BY <1>9 DEF vars, SerialInv, Solo, Slot, Knows, KnowsCreate, KnowsRow, KnowsPair, KnowsAccount,
                At, CanSpend, Active, Exists, Movements
  <2> QED
    BY <1>1, <2>2, <2>3 DEF SerialInv
<1> QED
  BY <1>2, <1>3, <1>4, <1>5, <1>6, <1>7, <1>8, <1>9 DEF Next, Step, AllOver

LEMMA SerialInvariant == MaxInFlight = 1 /\ Spec => []SerialInv
<1> SUFFICES ASSUME MaxInFlight = 1 PROVE Spec => []SerialInv
  OBVIOUS
<1>1. Init => SerialInv
  BY SerialInit
<1>2. SerialInv /\ [Next]_vars => SerialInv'
  BY SerialNext
<1> QED
  BY <1>1, <1>2, PTL DEF Spec

\* When requests do not overlap, the cached balance of every open account is its
\* true balance whenever none is running (README.md:21): every handler writes a
\* balance that is still the one it read.
THEOREM CacheStaysExact ==
  ASSUME MaxInFlight = 1
  PROVE  Spec => []CacheExactWhenQuiet
<1>1. SerialInv => CacheExactWhenQuiet
  BY DEF SerialInv, Exact, CacheExactWhenQuiet
<1> QED
  BY <1>1, SerialInvariant, PTL

\* When requests do not overlap and no movement is deleted or edited, no card
\* owes more than its limit (transaction.actions.ts:59).
THEOREM CardsStayWithinLimit ==
  ASSUME MaxInFlight = 1
  PROVE  Spec => []WithinLimit
<1>1. SerialInv => WithinLimit
  BY DEF SerialInv, Books, Balanced, WithinLimit
<1> QED
  BY <1>1, SerialInvariant, PTL

\* When requests do not overlap and no movement is deleted or edited, an account
\* that is deleted holds nothing, also when what it held was its opening balance,
\* whose movement goes with it (account.actions.ts:258).
THEOREM ClosedAccountsAreEmpty ==
  ASSUME MaxInFlight = 1
  PROVE  Spec => []ClosedIsEmpty
<1>1. SerialInv => ClosedIsEmpty
  BY DEF SerialInv, Books, Balanced, ClosedIsEmpty
<1> QED
  BY <1>1, SerialInvariant, PTL
-----------------------------------------------------------------------------
(* Transfers and card payments that overlap, with no bound on how many run *)
(* at once.  Under the lock of the source its balances are read again, so  *)
(* what a move writes to the source is exact, whatever other moves do in   *)
(* the meantime.  A reversal is a transfer once it has read its rows.      *)

\* Nothing but money paid out has happened to the account.
PaysOutOnly(a) ==
  \A p \in Procs : pc[p] # "idle" =>
    req[p].op = "reverse" \/ (req[p].op \in {"transfer", "pay"} /\ req[p].to # a)

\* A move that holds the source has read its cache, and keeps others from writing it.
SourceHeld(a) ==
  \A p \in Procs : pc[p] = "locked" /\ req[p].acct = a =>
    lock[a] = p /\ seen[p].cached = cached[a]

SourceExact(a) == cached[a] = total[a] /\ SourceHeld(a)

SourceInv == \A a \in Accounts : PaysOutOnly(a) => SourceExact(a)

\* What has happened to an account stays in the slots: none is idle again.
LEMMA PaysOutBefore ==
  ASSUME TypeOK, NEW p \in Procs, Begin(p) \/ Step(p) \/ Abort(p),
         NEW a \in Accounts, PaysOutOnly(a)'
  PROVE  PaysOutOnly(a)
<1>1. \A q \in Procs \ {p} : pc'[q] = pc[q] /\ req'[q] = req[q]
  BY DEF Begin, Step, Abort, Create, Amend, Move, OpenClose, Reconcile, ReadAccount, CheckFunds,
         CommitCreate, ReadRow, ReadRowAccount, CheckRowFunds, CommitDelete, CommitUpdate,
         ReadTransfer, ReadPair, ReadCard, CheckDebt, LockSource, CommitMove, ReadParent,
         CommitOpen, ReadBalance, CountMovements, CheckPockets, ReadCardBalance, CommitClose,
         ReadCached, ReadTotal, CommitReconcile, Proceed, Goto, Finish, TypeOK
<1>2. pc[p] # "idle" => pc'[p] # "idle" /\ (req'[p] = req[p] \/ req[p].op = "reverse")
  <2> SUFFICES ASSUME pc[p] # "idle"
               PROVE  pc'[p] # "idle" /\ (req'[p] = req[p] \/ req[p].op = "reverse")
    OBVIOUS
  <2>1. CASE ReadTransfer(p)
    BY <2>1 DEF ReadTransfer, At, Finish, TypeOK
  <2>2. CASE ~ReadTransfer(p)
    <3>1. pc'[p] # "idle" /\ req' = req
      BY <2>2 DEF Begin, Step, Abort, Create, Amend, Move, OpenClose, Reconcile, ReadAccount,
           CheckFunds, CommitCreate, ReadRow, ReadRowAccount, CheckRowFunds, CommitDelete,
           CommitUpdate, ReadPair, ReadCard, CheckDebt, LockSource, CommitMove, ReadParent,
           CommitOpen, ReadBalance, CountMovements, CheckPockets, ReadCardBalance, CommitClose,
           ReadCached, ReadTotal, CommitReconcile, Proceed, Goto, Finish, TypeOK
    <3> QED
      BY <3>1
  <2> QED
    BY <2>1, <2>2
<1> QED
  BY <1>1, <1>2 DEF PaysOutOnly

\* A step that leaves the account alone, and does not come to hold it.
LEMMA SourceKept ==
  ASSUME NEW a \in Accounts, SourceExact(a), NEW p \in Procs, pc'[p] # "locked",
         \A q \in Procs \ {p} : pc'[q] = pc[q] /\ req'[q] = req[q] /\ seen'[q] = seen[q],
         cached'[a] = cached[a], total'[a] = total[a],
         \A q \in Procs \ {p} : lock[a] = q => lock'[a] = q
  PROVE  SourceExact(a)'
BY DEF SourceExact, SourceHeld

LEMMA SourceFinish ==
  ASSUME TypeOK, NEW a \in Accounts, SourceExact(a), NEW p \in Procs, NEW how \in Finished,
         Finish(p, how), UNCHANGED data, lock' = lock \/ Release(p)
  PROVE  SourceExact(a)'
<1>1. /\ pc'[p] # "locked"
      /\ \A q \in Procs \ {p} : pc'[q] = pc[q] /\ req'[q] = req[q] /\ seen'[q] = seen[q]
  BY FinishTypes DEF Begun
<1>2. \A q \in Procs \ {p} : lock[a] = q => lock'[a] = q
  BY DEF Release
<1> QED
  BY <1>1, <1>2, SourceKept DEF data

LEMMA SourceProceed ==
  ASSUME TypeOK, NEW a \in Accounts, SourceExact(a), NEW p \in Procs, NEW ok,
         NEW label \in Begun \ {"locked"}, NEW found, Proceed(p, ok, label, found)
  PROVE  SourceExact(a)'
<1>1. CASE Goto(p, label, found) /\ UNCHANGED <<data, lock>>
  <2>1. /\ pc'[p] # "locked"
        /\ \A q \in Procs \ {p} : pc'[q] = pc[q] /\ req'[q] = req[q] /\ seen'[q] = seen[q]
    BY <1>1 DEF Goto, TypeOK
  <2> QED
    BY <1>1, <2>1, SourceKept DEF data
<1>2. CASE Finish(p, "rejected") /\ UNCHANGED <<data, lock>>
  BY <1>2, SourceFinish DEF Finished
<1> QED
  BY <1>1, <1>2 DEF Proceed

LEMMA SourceLock ==
  ASSUME TypeOK, NEW a \in Accounts, SourceExact(a), NEW p \in Procs, LockSource(p)
  PROVE  SourceExact(a)'
<1> DEFINE from == req[p].acct
           found == [seen[p] EXCEPT !.cached = cached[from]]
<1>1. /\ pc[p] \in Begun /\ lock[from] = NoProc /\ UNCHANGED data
      /\ \/ Goto(p, "locked", found) /\ lock' = [lock EXCEPT ![from] = p]
         \/ Finish(p, "rejected") /\ UNCHANGED lock
  BY DEF LockSource, At, Begun
<1>2. CASE Goto(p, "locked", found) /\ lock' = [lock EXCEPT ![from] = p]
  <2>1. from \in Accounts /\ seen[p] \in Seen
    BY <1>1, RequestTypes
  <2>2. found.cached = cached[from]
    BY <2>1 DEF Seen
  <2> HIDE DEF found
  <2>3. /\ pc'[p] = "locked" /\ seen'[p] = found /\ req' = req
        /\ \A q \in Procs \ {p} : pc'[q] = pc[q] /\ seen'[q] = seen[q]
    BY <1>2 DEF Goto, TypeOK
  <2>4. lock'[from] = p /\ \A b \in Accounts \ {from} : lock'[b] = lock[b]
    BY <1>2, <2>1 DEF TypeOK
  <2>5. SourceHeld(a)'
    <3> SUFFICES ASSUME NEW q \in Procs, pc'[q] = "locked", req'[q].acct = a
                 PROVE  lock'[a] = q /\ seen'[q].cached = cached'[a]
      BY DEF SourceHeld
    <3>1. CASE q = p
      BY <1>1, <2>2, <2>3, <2>4, <3>1 DEF data
    <3>2. CASE q # p
      <4>1. lock[a] = q /\ seen[q].cached = cached[a]
        BY <2>3, <3>2 DEF SourceExact, SourceHeld
      <4>2. a # from
        BY <1>1, <4>1, LedgerAssumption
      <4> QED
        BY <1>1, <2>3, <2>4, <3>2, <4>1, <4>2 DEF data
    <3> QED
      BY <3>1, <3>2
  <2> QED
    BY <1>1, <2>5 DEF SourceExact, data
<1>3. CASE Finish(p, "rejected") /\ UNCHANGED lock
  BY <1>1, <1>3, SourceFinish DEF Finished
<1> QED
  BY <1>1, <1>2, <1>3

LEMMA SourceMove ==
  ASSUME TypeOK, NEW a \in Accounts, SourceExact(a), NEW p \in Procs, CommitMove(p),
         req[p].to # a
  PROVE  SourceExact(a)'
<1> DEFINE from == req[p].acct
           to == req[p].to
           n == req[p].amt
           Moved == /\ total' = [total EXCEPT ![from] = @ - n, ![to] = @ + n]
                    /\ cached' = [cached EXCEPT ![from] = seen[p].cached - n,
                                                ![to] = seen[p].other + n]
                    /\ Finish(p, "done")
<1>1. /\ pc[p] = "locked" /\ pc[p] \in Begun /\ Release(p)
      /\ Moved \/ ((Finish(p, "repeated") \/ Finish(p, "rejected")) /\ UNCHANGED data)
  BY DEF CommitMove, Begun
<1>2. CASE (Finish(p, "repeated") \/ Finish(p, "rejected")) /\ UNCHANGED data
  BY <1>1, <1>2, SourceFinish DEF Finished
<1>3. CASE Moved
  <2>1. /\ pc'[p] # "locked"
        /\ \A q \in Procs \ {p} : pc'[q] = pc[q] /\ req'[q] = req[q] /\ seen'[q] = seen[q]
    BY <1>3, FinishTypes DEF Begun, Finished
  <2>2. from \in Accounts /\ to \in Accounts /\ n \in Int
    BY <1>1, RequestTypes
  <2>3. CASE from # a
    <3>1. cached'[a] = cached[a] /\ total'[a] = total[a]
      BY <1>3, <2>2, <2>3 DEF TypeOK
    <3>2. \A q \in Procs \ {p} : lock[a] = q => lock'[a] = q
      BY <1>1 DEF Release
    <3> QED
      BY <2>1, <3>1, <3>2, SourceKept
  <2>4. CASE from = a
    <3>1. lock[a] = p /\ seen[p].cached = cached[a] /\ cached[a] = total[a]
      BY <1>1, <2>4 DEF SourceExact, SourceHeld
    <3>2. cached'[a] = cached[a] - n /\ total'[a] = total[a] - n
      BY <1>3, <2>2, <2>4, <3>1 DEF TypeOK
    <3>3. SourceHeld(a)'
      <4> SUFFICES ASSUME NEW q \in Procs, pc'[q] = "locked", req'[q].acct = a PROVE FALSE
        BY DEF SourceHeld
      <4>1. q # p /\ pc[q] = "locked" /\ req[q].acct = a
        BY <2>1
      <4> QED
        BY <3>1, <4>1 DEF SourceExact, SourceHeld
    <3> QED
      BY <3>1, <3>2, <3>3 DEF SourceExact
  <2> QED
    BY <2>3, <2>4
<1> QED
  BY <1>1, <1>2, <1>3

LEMMA SourceStep ==
  ASSUME TypeOK, KeysKept, NEW a \in Accounts, SourceExact(a), PaysOutOnly(a), NEW p \in Procs,
         Begin(p) \/ Step(p) \/ Abort(p)
  PROVE  SourceExact(a)'
<1>1. CASE Begin(p)
  <2>1. /\ pc'[p] # "locked" /\ UNCHANGED <<data, lock, seen>>
        /\ \A q \in Procs \ {p} : pc'[q] = pc[q] /\ req'[q] = req[q]
    BY <1>1 DEF Begin, TypeOK
  <2> QED
    BY <2>1, SourceKept DEF data
<1>2. CASE Abort(p)
  BY <1>2, SourceFinish DEF Abort, Finished
<1>3. CASE ReadTransfer(p)
  <2>1. UNCHANGED data /\ UNCHANGED lock
    BY <1>3 DEF ReadTransfer
  <2>2. CASE Finish(p, "rejected")
    BY <2>1, <2>2, SourceFinish DEF Finished
  <2>3. CASE ~Finish(p, "rejected")
    <3>1. /\ pc'[p] # "locked" /\ UNCHANGED <<pc, seen>>
          /\ \A q \in Procs \ {p} : req'[q] = req[q]
      BY <1>3, <2>3 DEF ReadTransfer, At, TypeOK
    <3> QED
      BY <2>1, <3>1, SourceKept DEF data
  <2> QED
    BY <2>2, <2>3
<1>4. CASE ReadPair(p) \/ ReadCard(p) \/ CheckDebt(p)
  <2>1. {"read", "row"} \subseteq Begun \ {"locked"}
    BY DEF Begun
  <2>2. CASE ReadPair(p)
    BY <2>1, <2>2, SourceProceed DEF ReadPair
  <2>3. CASE ReadCard(p)
    BY <2>1, <2>3, SourceProceed DEF ReadCard
  <2>4. CASE CheckDebt(p)
    BY <2>1, <2>4, SourceProceed DEF CheckDebt
  <2> QED
    BY <1>4, <2>2, <2>3, <2>4
<1>5. CASE LockSource(p)
  BY <1>5, SourceLock
<1>6. CASE CommitMove(p)
  <2>1. pc[p] = "locked" /\ req[p].op \in {"transfer", "pay"}
    BY <1>6 DEF CommitMove, KeysKept, Moving
  <2>2. req[p].to # a
    BY <2>1 DEF PaysOutOnly
  <2> QED
    BY <1>6, <2>2, SourceMove
<1>7. CASE Create(p) \/ Amend(p) \/ OpenClose(p) \/ Reconcile(p)
  <2>1. pc[p] # "idle" /\ req[p].op \notin {"transfer", "pay", "reverse"}
    BY <1>7 DEF Create, Amend, OpenClose, Reconcile, ReadAccount, CheckFunds, CommitCreate, ReadRow,
         ReadRowAccount, CheckRowFunds, CommitDelete, CommitUpdate, ReadParent, CommitOpen,
         ReadBalance, CountMovements, CheckPockets, ReadCardBalance, CommitClose, ReadCached,
         ReadTotal, CommitReconcile, At
  <2> QED
    BY <2>1 DEF PaysOutOnly
<1> QED
  BY <1>1, <1>2, <1>3, <1>4, <1>5, <1>6, <1>7 DEF Step, Move

LEMMA SourceNext ==
  ASSUME TypeInv, KeysKept, SourceInv, [Next]_vars
  PROVE  SourceInv'
<1> SUFFICES ASSUME NEW a \in Accounts, PaysOutOnly(a)' PROVE SourceExact(a)'
  BY DEF SourceInv
<1>1. ASSUME NEW p \in Procs, Begin(p) \/ Step(p) \/ Abort(p) PROVE SourceExact(a)'
  <2>1. PaysOutOnly(a)
    BY <1>1, PaysOutBefore DEF TypeInv
  <2> QED
    BY <1>1, <2>1, SourceStep DEF TypeInv, SourceInv
<1>2. CASE UNCHANGED vars
  BY <1>2 DEF vars, SourceInv, PaysOutOnly, SourceExact, SourceHeld
<1> QED
  BY <1>1, <1>2 DEF Next, AllOver

\* The cache of an account that only pays out is exact at every moment, however
\* many transfers, card payments and reversals overlap (transfer.actions.ts:246,
\* credit-card.actions.ts:622).  The slots are the history of the ledger here:
\* none is used again, so what reconciliation once wrote is not forgotten.
THEOREM SourceCacheStaysExact == Spec => []SourceCacheExact
<1>1. Init => TypeInv /\ KeysKept /\ SourceInv
  BY TypeInit, KeysInit DEF Init, SourceInv, SourceExact, SourceHeld
<1>2. TypeInv /\ KeysKept /\ SourceInv /\ [Next]_vars => TypeInv' /\ KeysKept' /\ SourceInv'
  BY TypeNext, KeysNext, SourceNext
<1>3. SourceInv => SourceCacheExact
  BY DEF SourceInv, SourceCacheExact, PaysOutOnly, SourceExact
<1> QED
  BY <1>1, <1>2, <1>3, PTL DEF Spec

-----------------------------------------------------------------------------
(* A ledger whose debits are all made under their lock, and which closes   *)
(* no account, implements the bank: every step is one operation of the     *)
(* bank or none.                                                           *)

\* An account that was never opened holds nothing and has no opening movement.
Unopened ==
  \A a \in Accounts : status[a] = "none" => total[a] = 0 /\ rows[OpeningRow(a)] = NoRow

\* A slot that has not committed has not made its movements.
Fresh(p) ==
  pc[p] \in Begun \cup {"idle"} => rows[Main(p)] = NoRow /\ rows[Other(p)] = NoRow

\* What a request may ask for when no account is closed.
Modest(p) == pc[p] \in Begun => req[p].op \notin {"close", "closeCard"}

\* The accounts a request has checked exist.
Reaches(p) ==
  /\ At(p, "create", "read") \/ At(p, "create", "checked") => status[req[p].acct] # "none"
  /\ At(p, "transfer", "read") \/ At(p, "pay", "row") \/ At(p, "pay", "read")
       \/ pc[p] = "locked" => status[req[p].to] # "none"

Traced(p) == Fresh(p) /\ Modest(p) /\ Reaches(p)

Traceable == Unopened /\ \A p \in Procs : Traced(p)

-----------------------------------------------------------------------------
(* The keys that are used.                                                 *)

LEMMA KeysStay == ASSUME rows' = rows PROVE UsedKeys' = UsedKeys
BY DEF UsedKeys, KeyTaken, Exists

\* New rows use their clients' keys up, and no other.
LEMMA KeysGrow ==
  ASSUME NEW I \in SUBSET RowIds,
         \A i \in I : rows[i] = NoRow /\ rows'[i] # NoRow,
         \A i \in RowIds \ I : rows'[i] = rows[i]
  PROVE  UsedKeys' = UsedKeys \cup ({rows'[i].key : i \in I} \cap Keys)
<1>1. ASSUME NEW k \in Keys
      PROVE  k \in UsedKeys' <=> k \in UsedKeys \/ \E i \in I : rows'[i].key = k
  BY DEF UsedKeys, KeyTaken, Exists
<1> QED
  BY <1>1 DEF UsedKeys

LEMMA RowIsNew ==
  ASSUME NEW a \in Accounts, NEW n \in Int, NEW kind \in Kinds, NEW k \in Keys \cup {ServerKey}
  PROVE  /\ NewRow(a, n, kind, k) # NoRow
         /\ NewRow(a, n, kind, k).key = k
<1>1. NewRow(a, n, kind, k) \in Row
  BY DEF NewRow, Row
<1> QED
  BY <1>1, LedgerAssumption DEF NewRow

\* The ids of the rows tell who makes them.
LEMMA RowIdsDiffer ==
  ASSUME NEW p, NEW q
  PROVE  /\ Main(p) # Other(q)
         /\ \A a : OpeningRow(a) # Main(p) /\ OpeningRow(a) # Other(p)
         /\ p # q => Main(p) # Main(q) /\ Other(p) # Other(q) /\ OpeningRow(p) # OpeningRow(q)
BY DEF Main, Other, OpeningRow

-----------------------------------------------------------------------------
(* Traceable is an invariant.                                              *)

LEMMA OthersTraced ==
  ASSUME NEW p \in Procs,
         \A q \in Procs \ {p} :
           /\ Traced(q) /\ pc'[q] = pc[q] /\ req'[q] = req[q]
           /\ rows'[Main(q)] = rows[Main(q)] /\ rows'[Other(q)] = rows[Other(q)]
           /\ status[req[q].acct] # "none" => status'[req[q].acct] # "none"
           /\ status[req[q].to] # "none" => status'[req[q].to] # "none"
  PROVE  \A q \in Procs \ {p} : Traced(q)'
BY DEF Traced, Fresh, Modest, Reaches, At

\* A request that ends without a trace.
LEMMA FinishTraced ==
  ASSUME TypeOK, Traceable, NEW p \in Procs, pc[p] \in Begun, NEW how \in Finished,
         Finish(p, how), status' = status, total' = total, rows' = rows
  PROVE  Traceable'
<1>1. pc'[p] \notin Begun /\ req' = req /\ \A q \in Procs \ {p} : pc'[q] = pc[q]
  BY FinishTypes
<1>2. Traced(p)'
  BY <1>1 DEF Traceable, Traced, Fresh, Modest, Reaches, At, Begun
<1>3. \A q \in Procs \ {p} : Traced(q)'
  BY <1>1, OthersTraced DEF Traceable
<1>4. Unopened'
  BY DEF Traceable, Unopened
<1> QED
  BY <1>2, <1>3, <1>4 DEF Traceable

LEMMA ProceedTraced ==
  ASSUME TypeOK, Traceable, NEW p \in Procs, pc[p] \in Begun, NEW ok \in BOOLEAN,
         NEW label \in Begun \ {"locked"}, NEW found \in Seen,
         Proceed(p, ok, label, found),
         ok /\ req[p].op = "create" /\ label \in {"read", "checked"} =>
           status[req[p].acct] # "none",
         ok /\ <<req[p].op, label>> \in {<<"transfer", "read">>, <<"pay", "row">>, <<"pay", "read">>} =>
           status[req[p].to] # "none"
  PROVE  Traceable'
<1>1. CASE ~ok
  <2>1. Finish(p, "rejected") /\ UNCHANGED <<data, lock>>
    BY <1>1 DEF Proceed
  <2> QED
    BY <2>1, FinishTraced DEF data, Finished
<1>2. CASE ok
  <2>1. Goto(p, label, found) /\ UNCHANGED data
    BY <1>2 DEF Proceed
  <2>2. pc'[p] = label /\ req' = req /\ \A q \in Procs \ {p} : pc'[q] = pc[q]
    BY <2>1, GotoTypes
  <2>3. Traced(p)'
    <3>1. Fresh(p)' /\ Modest(p)'
      BY <2>1, <2>2 DEF Traceable, Traced, Fresh, Modest, data
    <3>2. Reaches(p)'
      BY <2>1, <2>2, <1>2 DEF Reaches, At, data
    <3> QED
      BY <3>1, <3>2 DEF Traced
  <2>4. \A q \in Procs \ {p} : Traced(q)'
    BY <2>1, <2>2, OthersTraced DEF Traceable, data
  <2>5. Unopened'
    BY <2>1 DEF Traceable, Unopened, data
  <2> QED
    BY <2>3, <2>4, <2>5 DEF Traceable
<1> QED
  BY <1>1, <1>2

\* A commit by p of rows that are p's own or an account's opening movement.
LEMMA CommitTraced ==
  ASSUME TypeOK, Traceable, NEW p \in Procs, pc[p] \in Begun, Finish(p, "done"),
         \A q \in Procs \ {p} : rows'[Main(q)] = rows[Main(q)] /\ rows'[Other(q)] = rows[Other(q)],
         \A a \in Accounts : status[a] # "none" => status'[a] # "none",
         \A a \in Accounts : status'[a] = "none" =>
           total'[a] = total[a] /\ rows'[OpeningRow(a)] = rows[OpeningRow(a)]
  PROVE  Traceable'
<1>1. pc'[p] = "done" /\ req' = req /\ \A q \in Procs \ {p} : pc'[q] = pc[q]
  BY DEF Finish, TypeOK
<1>2. Traced(p)'
  BY <1>1 DEF Traced, Fresh, Modest, Reaches, At, Begun
<1>3. ASSUME NEW q \in Procs \ {p} PROVE Traced(q)'
  <2>1. Traced(q) /\ pc'[q] = pc[q] /\ req'[q] = req[q]
    BY <1>1 DEF Traceable
  <2>2. Fresh(q)' /\ Modest(q)'
    BY <2>1 DEF Traced, Fresh, Modest
  <2>3. Reaches(q)'
    <3>1. CASE pc[q] \in Begun
      <4>1. req[q].acct \in Accounts /\ req[q].to \in Accounts
        BY <3>1, RequestTypes
      <4> QED
        BY <4>1, <2>1 DEF Traced, Reaches, At
    <3>2. CASE pc[q] \notin Begun
      BY <3>2, <2>1 DEF Reaches, At, Begun
    <3> QED
      BY <3>1, <3>2
  <2> QED
    BY <2>2, <2>3 DEF Traced
<1>4. Unopened'
  BY DEF Traceable, Unopened
<1> QED
  BY <1>2, <1>3, <1>4 DEF Traceable

-----------------------------------------------------------------------------
(* Each operation keeps Traceable, and is an operation of the bank or none.*)

Same == total' = total /\ UsedKeys' = UsedKeys

Simulated == TheBank!Next \/ Same

LEMMA ReadSimulated == ASSUME UNCHANGED data PROVE Simulated
BY KeysStay DEF data, Simulated, Same

\* A step that reads: it keeps the invariant and is no operation of the bank.
LEMMA ReadKeeps ==
  ASSUME TypeOK, Traceable, NEW p \in Procs, pc[p] \in Begun, NEW ok \in BOOLEAN,
         NEW label \in Begun \ {"locked"}, NEW found \in Seen,
         Proceed(p, ok, label, found),
         ok /\ req[p].op = "create" /\ label \in {"read", "checked"} =>
           status[req[p].acct] # "none",
         ok /\ <<req[p].op, label>> \in {<<"transfer", "read">>, <<"pay", "row">>, <<"pay", "read">>} =>
           status[req[p].to] # "none"
  PROVE  Traceable' /\ Simulated
<1>1. UNCHANGED data
  BY DEF Proceed
<1> QED
  BY <1>1, ReadSimulated, ProceedTraced

LEMMA EndKeeps ==
  ASSUME TypeOK, Traceable, NEW p \in Procs, pc[p] \in Begun, NEW how \in Finished,
         Finish(p, how), UNCHANGED data
  PROVE  Traceable' /\ Simulated
BY ReadSimulated, FinishTraced DEF data

LEMMA BankCreate ==
  ASSUME TypeInv, FundsGuarded, Traceable, Amounts = Nat, NEW p \in Procs, Create(p)
  PROVE  Traceable' /\ Simulated
<1>0. TypeOK
  BY DEF TypeInv
<1> DEFINE a == req[p].acct
           n == req[p].amt
           k == req[p].key
<1>1. CASE ReadAccount(p)
  <2>1. pc[p] = "begun" /\ req[p].op = "create"
    BY <1>1 DEF ReadAccount, At
  <2>2. [Nothing EXCEPT !.cached = cached[a]] \in Seen
    BY <2>1, <1>0, RequestTypes DEF Begun, TypeOK, Nothing, Seen
  <2> QED
    BY <1>1, <1>0, <2>1, <2>2, ReadKeeps DEF ReadAccount, Begun
<1>2. CASE CheckFunds(p)
  <2>1. pc[p] = "read" /\ req[p].op = "create" /\ status[a] # "none"
    BY <1>2 DEF CheckFunds, At, Traceable, Traced, Reaches
  <2>2. seen[p] \in Seen
    BY <2>1, <1>0, RequestTypes DEF Begun
  <2> DEFINE ok == CanSpend(a, n)
  <2>3. ok \in BOOLEAN /\ Proceed(p, ok, "checked", seen[p])
    BY <1>2 DEF CheckFunds, CanSpend
  <2> HIDE DEF ok
  <2> QED
    BY <1>0, <2>1, <2>2, <2>3, ReadKeeps DEF Begun
<1>3. CASE CommitCreate(p)
  <2>1. pc[p] = "checked" /\ pc[p] \in Begun /\ req[p].op = "create" /\ status[a] # "none"
    BY <1>3 DEF CommitCreate, At, Traceable, Traced, Reaches, Begun
  <2>2. /\ a \in Accounts /\ n \in Int /\ k \in Keys \cup {ServerKey} /\ Main(p) \in RowIds
        /\ rows[Main(p)] = NoRow
    BY <2>1, <1>0, RequestTypes DEF Traceable, Traced, Modest, Fresh
  <2>3. CASE KeyTaken(k)
    BY <1>3, <1>0, <2>1, <2>3, EndKeeps DEF CommitCreate, Finished
  <2>4. CASE ~KeyTaken(k)
    <3> DEFINE new == NewRow(a, n, IF n > 0 THEN "INCOME" ELSE "EXPENSE", k)
    <3>1. /\ rows' = [rows EXCEPT ![Main(p)] = new]
          /\ total' = [total EXCEPT ![a] = @ + n]
          /\ status' = status /\ Finish(p, "done")
      BY <1>3, <2>4 DEF CommitCreate
    <3>2. new # NoRow /\ new.key = k
      BY <2>2, RowIsNew DEF Kinds
    <3> HIDE DEF new
    <3>3. rows'[Main(p)] = new /\ \A i \in RowIds \ {Main(p)} : rows'[i] = rows[i]
      BY <3>1, <2>2, <1>0 DEF TypeOK
    <3>4. Traceable'
      <4>1. \A q \in Procs \ {p} : rows'[Main(q)] = rows[Main(q)] /\ rows'[Other(q)] = rows[Other(q)]
        BY <3>3, RowIdsDiffer DEF RowIds
      <4>2. \A b \in Accounts : status'[b] = "none" =>
              total'[b] = total[b] /\ rows'[OpeningRow(b)] = rows[OpeningRow(b)]
        <5> SUFFICES ASSUME NEW b \in Accounts, status'[b] = "none"
                     PROVE  total'[b] = total[b] /\ rows'[OpeningRow(b)] = rows[OpeningRow(b)]
          OBVIOUS
        <5>1. b # a
          BY <3>1, <2>1
        <5>2. OpeningRow(b) \in RowIds \ {Main(p)}
          BY RowIdsDiffer DEF RowIds
        <5> QED
          BY <5>1, <5>2, <3>1, <3>3, <1>0 DEF TypeOK
      <4> QED
        BY <4>1, <4>2, <3>1, <2>1, <2>2, <1>0, CommitTraced
    <3>5. UsedKeys' = UsedKeys \cup ({k} \cap Keys)
      <4> DEFINE I == {Main(p)}
      <4>1. UsedKeys' = UsedKeys \cup ({rows'[i].key : i \in I} \cap Keys)
        BY <3>2, <3>3, <2>2, KeysGrow
      <4> QED
        BY <4>1, <3>2, <3>3
    <3>6. TheBank!Use(k)
      BY <3>5, <2>2, <2>4 DEF TheBank!Use, UsedKeys
    <3>7. TheBank!Next
      <4>1. CASE n >= 0
        <5>1. n \in Amounts /\ TheBank!Deposit(a, n, k)
          BY <4>1, <3>1, <3>6, <2>2 DEF TheBank!Deposit
        <5> QED
          BY <5>1, <2>2 DEF TheBank!Next
      <4>2. CASE ~(n >= 0)
        <5>1. a \in Cards
          BY <4>2, <2>1, <2>2 DEF FundsGuarded, Guarded, Asked
        <5>2. -n \in Nat /\ total[a] - (-n) = total[a] + n
          BY <4>2, <2>2, <1>0 DEF TypeOK
        <5>3. TheBank!Charge(a, -n, k)
          BY <5>2, <3>1, <3>6 DEF TheBank!Charge
        <5> QED
          BY <5>1, <5>2, <5>3, <2>2 DEF TheBank!Next
      <4> QED
        BY <4>1, <4>2
    <3> QED
      BY <3>4, <3>7 DEF Simulated
  <2> QED
    BY <2>3, <2>4
<1> QED
  BY <1>1, <1>2, <1>3 DEF Create

LEMMA BankAmend ==
  ASSUME FundsGuarded, NEW p \in Procs, Amend(p)
  PROVE  FALSE
<1>1. pc[p] \in Begun /\ req[p].op \in {"delete", "update"}
  BY DEF Amend, ReadRow, ReadRowAccount, CheckRowFunds, CommitDelete, CommitUpdate, At, Begun
<1> QED
  BY <1>1 DEF FundsGuarded, Guarded, Asked

LEMMA BankReadTransfer ==
  ASSUME TypeInv, Traceable, NEW p \in Procs, ReadTransfer(p)
  PROVE  Traceable' /\ Simulated
<1>0. TypeOK
  BY DEF TypeInv
<1>1. pc[p] = "begun" /\ pc[p] \in Begun /\ req[p].op = "reverse" /\ UNCHANGED data
  BY DEF ReadTransfer, At, Begun
<1>2. CASE Finish(p, "rejected")
  BY <1>2, <1>1, <1>0, EndKeeps DEF Finished
<1>3. CASE ~Finish(p, "rejected")
  <2>1. PICK r : /\ req' = [req EXCEPT ![p] = r]
                 /\ r.op = "transfer"
                 /\ UNCHANGED <<pc, seen>>
    <3>1. PICK debit, credit :
            /\ req' = [req EXCEPT ![p] = [@ EXCEPT
                         !.op = "transfer", !.acct = rows[credit].acct,
                         !.to = rows[debit].acct, !.key = ServerKey,
                         !.amt = IF rows[credit].amt < 0 THEN -rows[credit].amt
                                                         ELSE rows[credit].amt]]
            /\ UNCHANGED <<pc, seen>>
      BY <1>3 DEF ReadTransfer
    <3> DEFINE r == [req[p] EXCEPT !.op = "transfer", !.acct = rows[credit].acct,
                         !.to = rows[debit].acct, !.key = ServerKey,
                         !.amt = IF rows[credit].amt < 0 THEN -rows[credit].amt
                                                         ELSE rows[credit].amt]
    <3>2. req' = [req EXCEPT ![p] = r]
      BY <3>1, <1>0 DEF TypeOK
    <3>3. r.op = "transfer"
      BY <1>0, <1>1 DEF TypeOK, Request
    <3> HIDE DEF r
    <3> QED
      BY <3>1, <3>2, <3>3
  <2>3. Traced(p)'
    <3>1. Fresh(p)'
      BY <2>1, <1>1 DEF Traceable, Traced, Fresh, data
    <3>2. Modest(p)' /\ Reaches(p)'
      BY <2>1, <1>0, <1>1 DEF Traceable, Traced, Modest, Reaches, At, TypeOK
    <3> QED
      BY <3>1, <3>2 DEF Traced
  <2>4. \A q \in Procs \ {p} : Traced(q)'
    BY <2>1, <1>0, <1>1, OthersTraced DEF Traceable, data, TypeOK
  <2>5. Unopened'
    BY <1>1 DEF Traceable, Unopened, data
  <2> QED
    BY <2>3, <2>4, <2>5, <1>1, ReadSimulated DEF Traceable
<1> QED
  BY <1>2, <1>3

LEMMA BankLockSource ==
  ASSUME TypeInv, Traceable, NEW p \in Procs, LockSource(p)
  PROVE  Traceable' /\ Simulated
<1> DEFINE from == req[p].acct
<1>0. TypeOK
  BY DEF TypeInv
<1>1. pc[p] = "read" /\ pc[p] \in Begun /\ req[p].op \in {"transfer", "pay"} /\ UNCHANGED data
  BY DEF LockSource, At, Begun
<1>2. CASE Finish(p, "rejected")
  BY <1>2, <1>1, <1>0, EndKeeps DEF Finished
<1>3. CASE Goto(p, "locked", [seen[p] EXCEPT !.cached = cached[from]])
  <2> DEFINE found == [seen[p] EXCEPT !.cached = cached[from]]
  <2>1. found \in Seen
    BY <1>0, <1>1, RequestTypes DEF Seen, TypeOK
  <2>2. Goto(p, "locked", found)
    BY <1>3
  <2> HIDE DEF found
  <2>3. pc'[p] = "locked" /\ req' = req /\ \A q \in Procs \ {p} : pc'[q] = pc[q]
    BY <2>1, <2>2, <1>0, GotoTypes DEF Begun
  <2>4. Traced(p)'
    BY <2>3, <1>1 DEF Traceable, Traced, Fresh, Modest, Reaches, At, data, Begun
  <2>5. \A q \in Procs \ {p} : Traced(q)'
    BY <2>3, <1>1, OthersTraced DEF Traceable, data
  <2>6. Unopened'
    BY <1>1 DEF Traceable, Unopened, data
  <2> QED
    BY <2>4, <2>5, <2>6, <1>1, ReadSimulated DEF Traceable
<1> QED
  BY <1>2, <1>3 DEF LockSource

LEMMA BankCommitMove ==
  ASSUME TypeInv, FundsGuarded, Traceable, Amounts = Nat, NEW p \in Procs, CommitMove(p)
  PROVE  Traceable' /\ Simulated
<1> DEFINE from == req[p].acct
           to == req[p].to
           n == req[p].amt
           k == req[p].key
<1>0. TypeOK
  BY DEF TypeInv
<1>1. pc[p] = "locked" /\ pc[p] \in Begun
  BY DEF CommitMove, Begun
<1>2. CASE KeyTaken(k)
  <2>1. PICK how \in Finished : Finish(p, how) /\ UNCHANGED data
    BY <1>2 DEF CommitMove, Finished
  <2> QED
    BY <2>1, <1>0, <1>1, EndKeeps
<1>3. CASE ~KeyTaken(k)
  <2> DEFINE debit == DebitRow(req[p])
             credit == CreditRow(req[p])
  <2>1. /\ rows' = [rows EXCEPT ![Main(p)] = debit, ![Other(p)] = credit]
        /\ total' = [total EXCEPT ![from] = @ - n, ![to] = @ + n]
        /\ status' = status /\ Finish(p, "done")
    BY <1>3 DEF CommitMove
  <2>2. /\ from \in Accounts /\ to \in Accounts /\ n \in Int /\ k \in Keys \cup {ServerKey}
        /\ Main(p) \in RowIds /\ Other(p) \in RowIds
    BY <1>0, <1>1, RequestTypes
  <2>3. /\ n > 0 /\ from # to /\ from \notin Cards /\ total[from] >= n
        /\ status[from] # "none" /\ req[p].op \in {"transfer", "pay"}
    BY <1>1 DEF FundsGuarded, Guarded, Asked, Sourced, Held
  <2>4. /\ rows[Main(p)] = NoRow /\ rows[Other(p)] = NoRow
        /\ status[to] # "none"
    BY <1>1, <2>3 DEF Traceable, Traced, Fresh, Modest, Reaches
  <2>5. /\ debit # NoRow /\ credit # NoRow
        /\ {debit.key, credit.key} = {k, ServerKey}
    <3>1. -n \in Int
      BY <2>2
    <3>2. CASE req[p].op = "pay"
      <4>1. debit = NewRow(from, -n, "EXPENSE", ServerKey) /\ credit = NewRow(to, n, "CREDIT_PAYMENT", k)
        BY <3>2 DEF DebitRow, CreditRow
      <4> HIDE DEF debit, credit
      <4> QED
        BY <4>1, <3>1, <2>2, RowIsNew DEF Kinds
    <3>3. CASE req[p].op # "pay"
      <4>1. debit = NewRow(from, -n, "TRANSFER_OUT", k) /\ credit = NewRow(to, n, "TRANSFER_IN", ServerKey)
        BY <3>3 DEF DebitRow, CreditRow
      <4> HIDE DEF debit, credit
      <4> QED
        BY <4>1, <3>1, <2>2, RowIsNew DEF Kinds
    <3> QED
      BY <3>2, <3>3
  <2> HIDE DEF debit, credit
  <2>6. /\ rows'[Main(p)] = debit /\ rows'[Other(p)] = credit
        /\ \A i \in RowIds \ {Main(p), Other(p)} : rows'[i] = rows[i]
    BY <2>1, <2>2, <1>0, RowIdsDiffer DEF TypeOK
  <2>7. Traceable'
    <3>1. \A q \in Procs \ {p} : rows'[Main(q)] = rows[Main(q)] /\ rows'[Other(q)] = rows[Other(q)]
      BY <2>6, RowIdsDiffer DEF RowIds
    <3>2. \A b \in Accounts : status'[b] = "none" =>
            total'[b] = total[b] /\ rows'[OpeningRow(b)] = rows[OpeningRow(b)]
      <4> SUFFICES ASSUME NEW b \in Accounts, status'[b] = "none"
                   PROVE  total'[b] = total[b] /\ rows'[OpeningRow(b)] = rows[OpeningRow(b)]
        OBVIOUS
      <4>1. b # from /\ b # to
        BY <2>1, <2>3, <2>4
      <4>2. OpeningRow(b) \in RowIds \ {Main(p), Other(p)}
        BY RowIdsDiffer DEF RowIds
      <4> QED
        BY <4>1, <4>2, <2>1, <2>6, <1>0 DEF TypeOK
    <3> QED
      BY <3>1, <3>2, <2>1, <2>4, <1>0, <1>1, CommitTraced
  <2>8. UsedKeys' = UsedKeys \cup ({k} \cap Keys)
    <3> DEFINE I == {Main(p), Other(p)}
    <3>1. I \in SUBSET RowIds
      BY <2>2
    <3>2. UsedKeys' = UsedKeys \cup ({rows'[i].key : i \in I} \cap Keys)
      BY <3>1, <2>4, <2>5, <2>6, KeysGrow
    <3>3. {rows'[i].key : i \in I} = {k, ServerKey}
      BY <2>5, <2>6
    <3> QED
      BY <3>2, <3>3, LedgerAssumption
  <2>9. TheBank!Move(from, to, n, k)
    <3>1. TheBank!Use(k)
      BY <2>8, <2>2, <1>3 DEF TheBank!Use, UsedKeys
    <3> QED
      BY <3>1, <2>1, <2>3 DEF TheBank!Move
  <2>10. TheBank!Next
    BY <2>9, <2>2, <2>3 DEF TheBank!Next
  <2> QED
    BY <2>7, <2>10 DEF Simulated
<1> QED
  BY <1>2, <1>3

LEMMA BankMove ==
  ASSUME TypeInv, FundsGuarded, Traceable, Amounts = Nat, NEW p \in Procs, Move(p)
  PROVE  Traceable' /\ Simulated
<1>0. TypeOK
  BY DEF TypeInv
<1> DEFINE found == [Nothing EXCEPT !.other = cached[req[p].to]]
<1>1. CASE ReadPair(p)
  <2>1. pc[p] = "begun" /\ req[p].op = "transfer"
    BY <1>1 DEF ReadPair, At
  <2>2. found \in Seen
    BY <2>1, <1>0, RequestTypes DEF Begun, TypeOK, Nothing, Seen
  <2> DEFINE ok == /\ status[req[p].acct] = "active" /\ status[req[p].to] = "active"
                   /\ ValidPair(req[p].acct, req[p].to)
  <2>3. Proceed(p, ok, "read", found)
    BY <1>1 DEF ReadPair
  <2>4. ok \in BOOLEAN /\ (ok => status[req[p].to] # "none")
    BY DEF ValidPair
  <2> HIDE DEF ok, found
  <2> QED
    BY <1>0, <2>1, <2>2, <2>3, <2>4, ReadKeeps DEF Begun
<1>2. CASE ReadCard(p)
  <2>1. pc[p] = "begun" /\ req[p].op = "pay"
    BY <1>2 DEF ReadCard, At
  <2>2. found \in Seen
    BY <2>1, <1>0, RequestTypes DEF Begun, TypeOK, Nothing, Seen
  <2> QED
    BY <1>2, <1>0, <2>1, <2>2, ReadKeeps DEF ReadCard, Begun
<1>3. CASE CheckDebt(p)
  <2>1. pc[p] = "row" /\ req[p].op = "pay" /\ seen[p] \in Seen /\ status[req[p].to] # "none"
    BY <1>3, <1>0 DEF CheckDebt, At, TypeOK, Traceable, Traced, Reaches
  <2> DEFINE ok == /\ total[req[p].to] < 0
                   /\ req[p].amt <= -total[req[p].to]
                   /\ status[req[p].acct] = "active"
                   /\ req[p].acct \notin Cards
  <2>2. ok \in BOOLEAN /\ Proceed(p, ok, "read", seen[p])
    BY <1>3 DEF CheckDebt
  <2> HIDE DEF ok
  <2> QED
    BY <1>0, <2>1, <2>2, ReadKeeps DEF Begun
<1> QED
  BY <1>1, <1>2, <1>3, BankReadTransfer, BankLockSource, BankCommitMove DEF Move

LEMMA BankCommitOpen ==
  ASSUME TypeInv, Traceable, Amounts = Nat, NEW p \in Procs, CommitOpen(p)
  PROVE  Traceable' /\ Simulated
<1> DEFINE a == req[p].acct
           n == Opening[a]
           new == NewRow(a, n, "INCOME", ServerKey)
<1>0. TypeOK
  BY DEF TypeInv
<1>1. pc[p] = "checked" /\ pc[p] \in Begun /\ req[p].op = "open"
  BY DEF CommitOpen, At, Begun
<1>2. CASE status[a] # "none"
  <2>1. Finish(p, "rejected") /\ UNCHANGED data
    BY <1>2 DEF CommitOpen
  <2> QED
    BY <2>1, <1>1, <1>0, EndKeeps DEF Finished
<1>3. CASE status[a] = "none"
  <2>1. /\ status' = [status EXCEPT ![a] = "active"]
        /\ total' = [total EXCEPT ![a] = n]
        /\ rows' = IF n = 0 THEN rows ELSE [rows EXCEPT ![OpeningRow(a)] = new]
        /\ Finish(p, "done")
    BY <1>3 DEF CommitOpen
  <2>2. a \in Accounts /\ OpeningRow(a) \in RowIds /\ n \in Nat
    BY <1>0, <1>1, RequestTypes, LedgerAssumption DEF Traceable, Traced, Modest
  <2>3. total[a] = 0 /\ rows[OpeningRow(a)] = NoRow
    BY <1>3, <2>2 DEF Traceable, Unopened
  <2>4. new # NoRow /\ new.key = ServerKey
    BY <2>2, RowIsNew DEF Kinds
  <2> HIDE DEF new
  <2>5. \A i \in RowIds \ {OpeningRow(a)} : rows'[i] = rows[i]
    BY <2>1, <1>0 DEF TypeOK
  <2>6. Traceable'
    <3>1. \A q \in Procs \ {p} : rows'[Main(q)] = rows[Main(q)] /\ rows'[Other(q)] = rows[Other(q)]
      BY <2>5, RowIdsDiffer DEF RowIds
    <3>2. \A b \in Accounts : status[b] # "none" => status'[b] # "none"
      BY <2>1, <2>2, <1>0 DEF TypeOK
    <3>3. \A b \in Accounts : status'[b] = "none" =>
            total'[b] = total[b] /\ rows'[OpeningRow(b)] = rows[OpeningRow(b)]
      <4> SUFFICES ASSUME NEW b \in Accounts, status'[b] = "none"
                   PROVE  total'[b] = total[b] /\ rows'[OpeningRow(b)] = rows[OpeningRow(b)]
        OBVIOUS
      <4>1. b # a
        BY <2>1, <2>2, <1>0 DEF TypeOK
      <4>2. OpeningRow(b) \in RowIds \ {OpeningRow(a)}
        BY <4>1, RowIdsDiffer DEF RowIds
      <4> QED
        BY <4>1, <4>2, <2>1, <2>5, <1>0 DEF TypeOK
    <3> QED
      BY <3>1, <3>2, <3>3, <2>1, <2>2, <1>0, <1>1, CommitTraced
  <2>7. UsedKeys' = UsedKeys
    <3>1. CASE n = 0
      BY <3>1, <2>1, KeysStay
    <3>2. CASE n # 0
      <4> DEFINE I == {OpeningRow(a)}
      <4>1. rows'[OpeningRow(a)] = new
        BY <3>2, <2>1, <2>2, <1>0 DEF TypeOK
      <4>2. UsedKeys' = UsedKeys \cup ({rows'[i].key : i \in I} \cap Keys)
        BY <4>1, <2>2, <2>3, <2>4, <2>5, KeysGrow
      <4> QED
        BY <4>1, <4>2, <2>4, LedgerAssumption
    <3> QED
      BY <3>1, <3>2
  <2>8. TheBank!Deposit(a, n, ServerKey)
    <3>1. TheBank!Use(ServerKey)
      BY <2>7, LedgerAssumption DEF TheBank!Use
    <3>2. total' = [total EXCEPT ![a] = @ + n]
      <4>1. total[a] + n = n
        BY <2>2, <2>3
      <4> HIDE DEF n
      <4> QED
        BY <4>1, <2>1
    <3> QED
      BY <3>1, <3>2 DEF TheBank!Deposit
  <2>9. TheBank!Next
    BY <2>8, <2>2 DEF TheBank!Next
  <2> QED
    BY <2>6, <2>9 DEF Simulated
<1> QED
  BY <1>2, <1>3

LEMMA BankOpenClose ==
  ASSUME TypeInv, Traceable, Amounts = Nat, NEW p \in Procs, OpenClose(p)
  PROVE  Traceable' /\ Simulated
<1>0. TypeOK
  BY DEF TypeInv
<1> DEFINE parent == Parent[req[p].acct]
<1>1. CASE ReadParent(p)
  <2>1. pc[p] = "begun" /\ req[p].op = "open" /\ Nothing \in Seen
    BY <1>1 DEF ReadParent, At, Nothing, Seen
  <2> DEFINE ok == \/ parent = NoAccount
                   \/ status[parent] = "active" /\ ~IsPocket(parent)
  <2>2. ok \in BOOLEAN /\ Proceed(p, ok, "checked", Nothing)
    BY <1>1 DEF ReadParent
  <2> HIDE DEF ok
  <2> QED
    BY <1>0, <2>1, <2>2, ReadKeeps DEF Begun
<1>2. CASE CommitOpen(p)
  BY <1>2, BankCommitOpen
<1>3. CASE ~ReadParent(p) /\ ~CommitOpen(p)
  <2>1. pc[p] \in Begun /\ req[p].op \in {"close", "closeCard"}
    BY <1>3 DEF OpenClose, ReadBalance, CountMovements, CheckPockets, ReadCardBalance,
                CommitClose, At, Begun
  <2> QED
    BY <2>1 DEF Traceable, Traced, Modest
<1> QED
  BY <1>1, <1>2, <1>3

LEMMA BankReconcile ==
  ASSUME TypeInv, Traceable, NEW p \in Procs, Reconcile(p)
  PROVE  Traceable' /\ Simulated
<1>0. TypeOK
  BY DEF TypeInv
<1> DEFINE a == req[p].acct
<1>1. CASE ReadCached(p)
  <2>1. pc[p] = "begun" /\ req[p].op = "reconcile"
    BY <1>1 DEF ReadCached, At
  <2>2. [Nothing EXCEPT !.cached = cached[a]] \in Seen
    BY <2>1, <1>0, RequestTypes DEF Begun, TypeOK, Nothing, Seen
  <2> QED
    BY <1>1, <1>0, <2>1, <2>2, ReadKeeps DEF ReadCached, Begun
<1>2. CASE ReadTotal(p)
  <2>1. pc[p] = "read" /\ req[p].op = "reconcile" /\ UNCHANGED <<data, lock>>
    BY <1>2 DEF ReadTotal, At
  <2> DEFINE found == [seen[p] EXCEPT !.total = total[a]]
  <2>2. found \in Seen
    BY <2>1, <1>0, RequestTypes DEF Begun, TypeOK, Seen
  <2>3. CASE Goto(p, "checked", found)
    <3>1. Proceed(p, TRUE, "checked", found)
      BY <2>1, <2>3 DEF Proceed
    <3> HIDE DEF found
    <3> QED
      BY <3>1, <1>0, <2>1, <2>2, ReadKeeps DEF Begun
  <2>4. CASE Finish(p, "done")
    BY <2>4, <2>1, <1>0, EndKeeps DEF Finished, Begun
  <2> QED
    BY <1>2, <2>3, <2>4 DEF ReadTotal
<1>3. CASE CommitReconcile(p)
  <2>1. Traceable'
    BY <1>3, <1>0, FinishTraced DEF CommitReconcile, At, Begun, Finished
  <2>2. Same
    BY <1>3, KeysStay DEF CommitReconcile, Same
  <2> QED
    BY <2>1, <2>2 DEF Simulated
<1> QED
  BY <1>1, <1>2, <1>3 DEF Reconcile

LEMMA BankBegin ==
  ASSUME NoneCloses, TypeInv, Traceable, NEW p \in Procs, Begin(p)
  PROVE  Traceable' /\ Simulated
<1>0. TypeOK
  BY DEF TypeInv
<1>1. PICK r \in RequestsOf[p] :
        /\ req' = [req EXCEPT ![p] = r]
        /\ pc' = [pc EXCEPT ![p] = IF AlreadyDone(r) THEN "repeated" ELSE "begun"]
  BY DEF Begin
<1>2. pc[p] = "idle" /\ UNCHANGED <<data, lock, seen>>
  BY DEF Begin
<1>3. r.op \notin {"close", "closeCard"}
  BY LedgerAssumption DEF NoneCloses
<1>4. Traced(p)'
  <2>1. Fresh(p)'
    BY <1>2 DEF Traceable, Traced, Fresh, data
  <2>2. Modest(p)' /\ Reaches(p)'
    BY <1>1, <1>3, <1>0 DEF Modest, Reaches, At, TypeOK, Begun
  <2> QED
    BY <2>1, <2>2 DEF Traced
<1>5. \A q \in Procs \ {p} : Traced(q)'
  BY <1>1, <1>2, <1>0, OthersTraced DEF Traceable, data, TypeOK
<1>6. Unopened'
  BY <1>2 DEF Traceable, Unopened, data
<1> QED
  BY <1>2, <1>4, <1>5, <1>6, ReadSimulated DEF Traceable

-----------------------------------------------------------------------------
LEMMA BankInit == Init /\ Amounts = Nat => Traceable /\ TheBank!Init
<1> SUFFICES ASSUME Init, Amounts = Nat PROVE Traceable /\ TheBank!Init
  OBVIOUS
<1>1. \A i \in RowIds : rows[i] # NoRow =>
        rows[i].key = ServerKey /\ \E a \in InitiallyOpen : i = OpeningRow(a)
  BY DEF Init, NewRow
<1>2. Unopened
  <2> SUFFICES ASSUME NEW a \in Accounts, status[a] = "none"
               PROVE  total[a] = 0 /\ rows[OpeningRow(a)] = NoRow
    BY DEF Unopened
  <2>1. a \notin InitiallyOpen /\ total[a] = 0
    BY DEF Init
  <2>2. OpeningRow(a) \in RowIds /\ \A b \in InitiallyOpen : OpeningRow(b) # OpeningRow(a)
    BY <2>1, RowIdsDiffer DEF RowIds
  <2> QED
    BY <2>1, <2>2, <1>1
<1>3. \A p \in Procs : Traced(p)
  BY <1>1, RowIdsDiffer DEF Init, Traced, Fresh, Modest, Reaches, At, Begun, RowIds
<1>4. UsedKeys = {}
  BY <1>1, LedgerAssumption DEF UsedKeys, KeyTaken, Exists
<1>5. total \in [Accounts -> Nat]
  BY LedgerAssumption DEF Init
<1> QED
  BY <1>2, <1>3, <1>4, <1>5 DEF Traceable, TheBank!Init

LEMMA BankNext ==
  ASSUME NoneCloses, Amounts = Nat, TypeInv, FundsGuarded, Traceable, [Next]_vars
  PROVE  Traceable' /\ Simulated
<1>1. ASSUME NEW p \in Procs, Begin(p) PROVE Traceable' /\ Simulated
  BY <1>1, BankBegin
<1>2. ASSUME NEW p \in Procs, Abort(p) PROVE Traceable' /\ Simulated
  BY <1>2, EndKeeps DEF Abort, TypeInv, Finished
<1>3. ASSUME NEW p \in Procs, Step(p) PROVE Traceable' /\ Simulated
  BY <1>3, BankCreate, BankAmend, BankMove, BankOpenClose, BankReconcile DEF Step
<1>4. CASE UNCHANGED vars
  <2>1. UNCHANGED data /\ Traceable'
    BY <1>4 DEF vars, data, Traceable, Unopened, Traced, Fresh, Modest, Reaches, At
  <2> QED
    BY <2>1, ReadSimulated
<1> QED
  BY <1>1, <1>2, <1>3, <1>4 DEF Next, AllOver

\* A ledger whose debits are all made under the lock of their account, and which
\* closes no account, is a bank: a transfer or a card payment is one step, no
\* money moves that is not there, and a key takes effect once, for every set of
\* accounts, requests and slots, whatever overlaps, aborts or is retried.
THEOREM LedgerIsABank ==
  ASSUME LockedDebitsOnly, NoneCloses, Amounts = Nat
  PROVE  Spec => ImplementsBank
<1>1. Init => TypeInv /\ FundsGuarded /\ Traceable /\ TheBank!Init
  BY TypeInit, GuardedInit, BankInit
<1>2. TypeInv /\ FundsGuarded /\ Traceable /\ [Next]_vars =>
        TypeInv' /\ FundsGuarded' /\ Traceable'
  BY TypeNext, GuardedNext, BankNext
<1>3. TypeInv /\ FundsGuarded /\ Traceable /\ [Next]_vars =>
        [TheBank!Next]_<<total, UsedKeys>>
  BY BankNext DEF Simulated, Same
<1> QED
  BY <1>1, <1>2, <1>3, PTL DEF Spec, ImplementsBank, TheBank!Spec
=============================================================================
