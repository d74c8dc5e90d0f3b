-------------------------- MODULE InvestmentsProofs --------------------------
(***************************************************************************)
(* Theorems about an investment account, for every set of requests, rate   *)
(* and opening balance: the holding and the caches say what the trades and *)
(* transfers come to, cash is spent only as far as there is some, and only *)
(* requests of different kinds wait for one another.                       *)
(***************************************************************************)
EXTENDS Investments, SumsProofs

-----------------------------------------------------------------------------
(* Who holds a row.                                                        *)

\* A row that is locked is locked by a request that has come that far.
HeldBy(x, p) ==
  CASE x = "bank" -> At(p, {"deposit"}, "first") \/ At(p, Flows, "ready")
    [] x = "cash" -> At(p, {"withdraw"}, "first") \/ pc[p] = "ready"
    [] x = "holding" -> At(p, {"sell"}, "first") \/ At(p, {"sell"}, "ready")

Holders == \A x \in Locks, p \in Procs : lock[x] = p => HeldBy(x, p)

\* A request that holds a row and waits for another.
LEMMA WaitingHolders ==
  ASSUME NEW p \in Procs, NEW x \in Locks, NEW y \in Wants(p), HeldBy(x, p)
  PROVE  \/ x = "bank" /\ y = "cash" /\ At(p, {"deposit"}, "first")
         \/ x = "cash" /\ y = "bank" /\ At(p, {"withdraw"}, "first")
         \/ x = "cash" /\ y = "holding" /\ At(p, {"buy"} \cup Edits, "ready")
         \/ x = "holding" /\ y = "cash" /\ At(p, {"sell"}, "first")
BY DEF HeldBy, Wants, At, Flows, Edits, Locks, Accounts

\* Requests that wait for one another hold what they wait for in different orders.
LEMMA HoldersSerialize ==
  ASSUME Holders
  PROVE  SameKindSerializes
<1> SUFFICES ASSUME NEW S \in SUBSET InFlight, Deadlocked(S)
             PROVE  \/ \E p, q \in S : Doing(p, {"deposit"}) /\ Doing(q, {"withdraw"})
                    \/ \E p, q \in S : Doing(p, {"sell"}) /\ Doing(q, {"buy"} \cup Edits)
  BY DEF SameKindSerializes
<1> DEFINE D(p) == At(p, {"deposit"}, "first")
           W(p) == At(p, {"withdraw"}, "first")
           T(p) == At(p, {"buy"} \cup Edits, "ready")
           L(p) == At(p, {"sell"}, "first")
<1>1. \A p \in S : p \in Procs /\ \E y \in Wants(p) : lock[y] \in S \ {p}
  BY DEF Deadlocked, InFlight
<1>2. ASSUME NEW p \in S, NEW q \in S, NEW x \in Wants(p), lock[x] = q
      PROVE  \/ x = "bank" /\ D(q)
             \/ x = "cash" /\ (W(q) \/ T(q))
             \/ x = "holding" /\ L(q)
  <2>1. x \in Locks
    BY DEF Wants, Locks, Accounts
  <2>2. HeldBy(x, q)
    BY <1>1, <1>2, <2>1 DEF Holders
  <2>3. PICK y \in Wants(q) : lock[y] \in S \ {q}
    BY <1>1
  <2> QED
    BY <1>1, <2>1, <2>2, <2>3, WaitingHolders
<1>3. \A q \in S : D(q) => \E r \in S : W(r) \/ T(r)
  <2> SUFFICES ASSUME NEW q \in S, D(q) PROVE \E r \in S : W(r) \/ T(r)
    OBVIOUS
  <2>1. PICK y \in Wants(q) : lock[y] \in S \ {q}
    BY <1>1
  <2>2. y = "cash"
    BY <2>1 DEF Wants, At, Edits, Flows
  <2> QED
    BY <1>2, <2>1, <2>2
<1>4. \A q \in S : L(q) => \E r \in S : W(r) \/ T(r)
  <2> SUFFICES ASSUME NEW q \in S, L(q) PROVE \E r \in S : W(r) \/ T(r)
    OBVIOUS
  <2>1. PICK y \in Wants(q) : lock[y] \in S \ {q}
    BY <1>1
  <2>2. y = "cash"
    BY <2>1 DEF Wants, At, Edits, Flows
  <2> QED
    BY <1>2, <2>1, <2>2
<1>5. \A q \in S : W(q) => \E r \in S : D(r)
  <2> SUFFICES ASSUME NEW q \in S, W(q) PROVE \E r \in S : D(r)
    OBVIOUS
  <2>1. PICK y \in Wants(q) : lock[y] \in S \ {q}
    BY <1>1
  <2>2. y = "bank"
    BY <2>1 DEF Wants, At, Edits, Flows
  <2> QED
    BY <1>2, <2>1, <2>2
<1>6. \A q \in S : T(q) => \E r \in S : L(r)
  <2> SUFFICES ASSUME NEW q \in S, T(q) PROVE \E r \in S : L(r)
    OBVIOUS
  <2>1. PICK y \in Wants(q) : lock[y] \in S \ {q}
    BY <1>1
  <2>2. y = "holding"
    BY <2>1 DEF Wants, At, Edits, Flows
  <2> QED
    BY <1>2, <2>1, <2>2
<1>7. \E q \in S : D(q) \/ W(q) \/ T(q) \/ L(q)
  <2>1. PICK p \in S : TRUE
    BY DEF Deadlocked
  <2>2. PICK y \in Wants(p) : lock[y] \in S \ {p}
    BY <1>1
  <2> QED
    BY <1>2, <2>2
<1>8. \/ (\E p \in S : D(p)) /\ (\E q \in S : W(q))
      \/ (\E p \in S : L(p)) /\ (\E q \in S : T(q))
  BY <1>3, <1>4, <1>5, <1>6, <1>7
<1> QED
  BY <1>8 DEF At, Doing, Begun
-----------------------------------------------------------------------------
(* The invariant.                                                          *)

ControlOK ==
  /\ lock \in [Locks -> Procs \cup {NoProc}]
  /\ pc \in [Procs -> {"idle"} \cup Begun \cup Finished]
  /\ req \in [Procs -> Request \cup {NoRequest}]
  /\ seen \in [Procs -> Int]
  /\ \A p \in Procs : pc[p] \in Begun => req[p] \in Request

DataOK ==
  /\ flows \in [Procs -> Flow \cup {NoRow}]
  /\ trades \in [Procs -> Trade \cup {NoRow}]
  /\ balance \in [Accounts -> Int]
  /\ holding \in Holding \cup {NoRow} /\ (holding # NoRow => holding.qty >= 0)

\* A request that has not committed has made no row; the trade that it edits is
\* there; the shares that a sale has counted are there until it commits.
Knows(p) ==
  /\ pc[p] \in {"idle"} \cup Begun => flows[p] = NoRow /\ trades[p] = NoRow
  /\ At(p, Edits, "found") \/ At(p, Edits, "ready") => Made(req[p].of)
  /\ At(p, {"sell"}, "found") => holding # NoRow
  /\ At(p, {"sell"}, "first") \/ At(p, {"sell"}, "ready") =>
       lock["holding"] = p /\ holding # NoRow /\ seen[p] = holding.qty

Inv == ControlOK /\ DataOK /\ Holders /\ (\A p \in Procs : Knows(p)) /\ LedgerIsTruth

LEMMA TypeIs == TypeOK <=> ControlOK /\ DataOK
BY DEF TypeOK, ControlOK, DataOK

LEMMA RequestIs ==
  ASSUME ControlOK, NEW p \in Procs, pc[p] \in Begun
  PROVE  /\ req[p] \in Request /\ req[p].op \in Ops /\ req[p].amt \in Nat
         /\ req[p].qty \in Nat \ {0} /\ req[p].price \in Nat \ {0} /\ req[p].date \in Nat
         /\ req[p].of \in Procs /\ req[p].key \in Keys /\ seen[p] \in Int
BY DEF ControlOK, Request

\* Only p moves.
Only(p) == \A q \in Procs \ {p} : pc'[q] = pc[q] /\ req'[q] = req[q] /\ seen'[q] = seen[q]

LEMMA FinishMoves ==
  ASSUME ControlOK, Holders, NEW p \in Procs, NEW how \in Finished, Finish(p, how)
  PROVE  /\ ControlOK' /\ Holders' /\ Only(p) /\ req' = req /\ pc'[p] = how
         /\ \A q \in Procs \ {p} : \A x \in Locks : lock[x] = q => lock'[x] = q
<1>1. Only(p) /\ req' = req /\ pc'[p] = how
  BY DEF Finish, ControlOK, Only
<1>2. \A x \in Locks : lock'[x] = IF lock[x] = p THEN NoProc ELSE lock[x]
  BY DEF Finish
<1>3. ControlOK'
  <2>1. lock' \in [Locks -> Procs \cup {NoProc}]
    BY DEF Finish, ControlOK
  <2>2. /\ pc' \in [Procs -> {"idle"} \cup Begun \cup Finished]
        /\ seen' \in [Procs -> Int]
    BY DEF Finish, ControlOK
  <2>3. how \notin Begun
    BY DEF Begun, Finished
  <2> QED
    BY <1>1, <2>1, <2>2, <2>3 DEF ControlOK, Only
<1>4. Holders'
  <2> SUFFICES ASSUME NEW x \in Locks, NEW q \in Procs, lock'[x] = q PROVE HeldBy(x, q)'
    BY DEF Holders
  <2>1. q # p /\ lock[x] = q
    BY <1>2, InvestmentsAssumption
  <2> QED
    BY <1>1, <2>1 DEF Holders, HeldBy, At, Only
<1> QED
  BY <1>1, <1>2, <1>3, <1>4

LEMMA GotoMoves ==
  ASSUME ControlOK, NEW p \in Procs, NEW label \in Begun, NEW n \in Int, Goto(p, label, n),
         req[p] \in Request, lock' \in [Locks -> Procs \cup {NoProc}]
  PROVE  /\ ControlOK' /\ Only(p) /\ req' = req /\ pc'[p] = label /\ seen'[p] = n
<1>1. Only(p) /\ req' = req /\ pc'[p] = label /\ seen'[p] = n
  BY DEF Goto, ControlOK, Only
<1>2. /\ pc' \in [Procs -> {"idle"} \cup Begun \cup Finished]
      /\ seen' \in [Procs -> Int]
  BY DEF Goto, ControlOK
<1> QED
  BY <1>1, <1>2 DEF ControlOK, Only

\* What the other requests know stays true.
LEMMA OthersKnow ==
  ASSUME Inv, NEW p \in Procs, Only(p),
         \A q \in Procs \ {p} : flows'[q] = flows[q],
         \A q \in Procs : trades[q] # NoRow => trades'[q] # NoRow,
         \A q \in Procs \ {p} : trades[q] = NoRow => trades'[q] = NoRow,
         holding # NoRow => holding' # NoRow,
         \A q \in Procs \ {p} : lock["holding"] = q =>
            lock'["holding"] = q /\ (holding # NoRow => holding' = holding)
  PROVE  \A q \in Procs \ {p} : Knows(q)'
<1> SUFFICES ASSUME NEW q \in Procs \ {p} PROVE Knows(q)'
  OBVIOUS
<1>1. Knows(q) /\ pc'[q] = pc[q] /\ req'[q] = req[q] /\ seen'[q] = seen[q]
  BY DEF Inv, Only
<1>2. At(q, Edits, "found") \/ At(q, Edits, "ready") => req[q].of \in Procs
  BY RequestIs DEF Inv, At, Begun
<1>3. pc'[q] \in {"idle"} \cup Begun => flows'[q] = NoRow /\ trades'[q] = NoRow
  BY <1>1 DEF Knows
<1>4. At(q, Edits, "found")' \/ At(q, Edits, "ready")' => Made(req[q].of)'
  BY <1>1, <1>2 DEF Knows, At, Made
<1>5. /\ At(q, {"sell"}, "found")' => holding' # NoRow
      /\ At(q, {"sell"}, "first")' \/ At(q, {"sell"}, "ready")' =>
           lock'["holding"] = q /\ holding' # NoRow /\ seen'[q] = holding'.qty
  BY <1>1 DEF Knows, At
<1> QED
  BY <1>1, <1>3, <1>4, <1>5 DEF Knows, At, Made

\* A step that writes nothing.
LEMMA TruthStays == LedgerIsTruth /\ UNCHANGED data => LedgerIsTruth'
<1> SUFFICES ASSUME LedgerIsTruth, UNCHANGED data PROVE LedgerIsTruth'
  OBVIOUS
<1>1. SharesOf(trades)' = SharesOf(trades) /\ TrueBank' = TrueBank /\ TrueCash' = TrueCash
  BY DEF data, SharesOf, TrueBank, TrueCash, CashOf, Transferred, ActiveIn
<1> QED
  BY <1>1 DEF LedgerIsTruth, data

LEMMA QuietInv ==
  ASSUME Inv, NEW p \in Procs, Only(p), UNCHANGED data, ControlOK', Holders', Knows(p)',
         \A q \in Procs \ {p} : lock["holding"] = q => lock'["holding"] = q
  PROVE  Inv'
<1>1. DataOK' /\ LedgerIsTruth'
  BY TruthStays DEF Inv, DataOK, data
<1>2. \A q \in Procs \ {p} : Knows(q)'
  BY OthersKnow DEF data
<1> QED
  BY <1>1, <1>2 DEF Inv

LEMMA RefuseInv ==
  ASSUME Inv, NEW p \in Procs, pc[p] \in Begun, NEW how \in Finished, Refuse(p, how)
  PROVE  Inv'
<1>1. Finish(p, how) /\ UNCHANGED data /\ ControlOK /\ Holders /\ "holding" \in Locks
  BY DEF Refuse, Inv, Locks
<1>2. /\ ControlOK' /\ Holders' /\ Only(p) /\ pc'[p] = how
      /\ \A q \in Procs \ {p} : lock["holding"] = q => lock'["holding"] = q
  BY <1>1, FinishMoves
<1>3. Knows(p)'
  BY <1>2 DEF Knows, At, Begun, Finished
<1> QED
  BY <1>1, <1>2, <1>3, QuietInv
-----------------------------------------------------------------------------
(* The steps that read and lock.                                           *)

LEMMA BeginInv ==
  ASSUME Inv, NEW p \in Procs, Begin(p)
  PROVE  Inv'
<1>1. PICK r \in RequestsOf[p] : req' = [req EXCEPT ![p] = r]
  BY DEF Begin
<1>2. /\ pc[p] = "idle" /\ pc' = [pc EXCEPT ![p] = "begun"] /\ UNCHANGED <<data, lock, seen>>
      /\ ControlOK /\ Holders /\ r \in Request
  BY <1>1, InvestmentsAssumption DEF Begin, Inv
<1>3. Only(p) /\ pc'[p] = "begun" /\ req'[p] = r
  BY <1>1, <1>2 DEF ControlOK, Only
<1>4. ControlOK'
  <2>1. pc' \in [Procs -> {"idle"} \cup Begun \cup Finished] /\ req' \in [Procs -> Request \cup {NoRequest}]
    BY <1>1, <1>2 DEF ControlOK, Begun
  <2> QED
    BY <1>2, <1>3, <2>1 DEF ControlOK, Only
<1>5. Holders'
  <2> SUFFICES ASSUME NEW x \in Locks, NEW q \in Procs, lock'[x] = q PROVE HeldBy(x, q)'
    BY DEF Holders
  <2>1. HeldBy(x, q)
    BY <1>2 DEF Holders
  <2>2. q # p
    BY <1>2, <2>1 DEF HeldBy, At, Locks, Accounts
  <2> QED
    BY <1>3, <2>1, <2>2 DEF HeldBy, At, Only
<1>6. Knows(p)'
  <2>1. flows[p] = NoRow /\ trades[p] = NoRow
    BY <1>2 DEF Inv, Knows
  <2> QED
    BY <1>2, <1>3, <2>1 DEF Knows, At, data
<1> QED
  BY <1>2, <1>3, <1>4, <1>5, <1>6, QuietInv

LEMMA LookupInv ==
  ASSUME Inv, NEW p \in Procs, Lookup(p)
  PROVE  Inv'
<1> DEFINE r == req[p]
           found == CASE r.op = "sell" -> holding # NoRow
                      [] r.op \in Edits -> Made(r.of) /\ trades[r.of].active
                      [] OTHER -> TRUE
<1>1. /\ pc[p] = "begun" /\ pc[p] \in Begun /\ {"repeated", "rejected"} \subseteq Finished
      /\ \/ Refuse(p, "repeated") \/ Refuse(p, "rejected")
         \/ found /\ Goto(p, "found", 0) /\ UNCHANGED <<data, lock>>
  BY DEF Lookup, Begun, Finished
<1>2. CASE Refuse(p, "repeated") \/ Refuse(p, "rejected")
  BY <1>1, <1>2, RefuseInv
<1>3. CASE found /\ Goto(p, "found", 0) /\ UNCHANGED <<data, lock>>
  <2>1. ControlOK /\ Holders /\ req[p] \in Request /\ r.op \in Ops
    BY <1>1, RequestIs DEF Inv
  <2>2. lock' \in [Locks -> Procs \cup {NoProc}]
    BY <1>3, <2>1 DEF ControlOK
  <2>3. ControlOK' /\ Only(p) /\ req' = req /\ pc'[p] = "found"
    BY <1>3, <2>1, <2>2, GotoMoves DEF Begun
  <2>4. Holders'
    <3> SUFFICES ASSUME NEW x \in Locks, NEW q \in Procs, lock'[x] = q PROVE HeldBy(x, q)'
      BY DEF Holders
    <3>1. HeldBy(x, q)
      BY <1>3, <2>1 DEF Holders
    <3>2. q # p
      BY <1>1, <3>1 DEF HeldBy, At, Locks, Accounts
    <3> QED
      BY <2>3, <3>1, <3>2 DEF HeldBy, At, Only
  <2>5. flows[p] = NoRow /\ trades[p] = NoRow
    BY <1>1 DEF Inv, Knows
  <2>6. r.op = "sell" => holding # NoRow
    BY <1>3 DEF Edits
  <2>7. r.op \in Edits => Made(r.of)
    BY <1>3 DEF Edits
  <2> HIDE DEF found
  <2>8. Knows(p)'
    <3>1. flows' = flows /\ trades' = trades /\ holding' = holding
      BY <1>3 DEF data
    <3>2. Made(req[p].of) => Made(req[p].of)'
      BY <2>3, <3>1 DEF Made
    <3> QED
      BY <2>3, <2>5, <2>6, <2>7, <3>1, <3>2 DEF Knows, At
  <2> QED
    BY <1>3, <2>3, <2>4, <2>8, QuietInv
<1> QED
  BY <1>1, <1>2, <1>3

\* What a request takes no other one held, and others keep what they hold.
LEMMA TakeMoves ==
  ASSUME Inv, NEW p \in Procs, pc[p] \in Begun, MayGoOn(p), Take(p),
         NEW label \in Begun, NEW n \in Int, Goto(p, label, n),
         \A x \in Locks : x \in Wants(p) \/ lock[x] = p => HeldBy(x, p)'
  PROVE  /\ ControlOK' /\ Holders' /\ Only(p) /\ req' = req /\ pc'[p] = label /\ seen'[p] = n
         /\ \A q \in Procs \ {p} : lock["holding"] = q => lock'["holding"] = q
         /\ "holding" \in Wants(p) => lock'["holding"] = p
         /\ lock["holding"] = p => lock'["holding"] = p
<1>1. ControlOK /\ Holders /\ req[p] \in Request /\ "holding" \in Locks
  BY RequestIs DEF Inv, Locks
<1>2. \A x \in Locks : lock'[x] = IF x \in Wants(p) THEN p ELSE lock[x]
  BY DEF Take
<1>3. lock' \in [Locks -> Procs \cup {NoProc}]
  BY <1>1 DEF Take, ControlOK
<1>4. ControlOK' /\ Only(p) /\ req' = req /\ pc'[p] = label /\ seen'[p] = n
  BY <1>1, <1>3, GotoMoves
<1>5. Holders'
  <2> SUFFICES ASSUME NEW x \in Locks, NEW q \in Procs, lock'[x] = q PROVE HeldBy(x, q)'
    BY DEF Holders
  <2>1. CASE q = p
    <3>1. x \in Wants(p) \/ lock[x] = p
      BY <1>2, <2>1
    <3>2. HeldBy(x, p)'
      BY <3>1
    <3> QED
      BY <2>1, <3>2
  <2>2. CASE q # p
    <3>1. HeldBy(x, q)
      BY <1>1, <1>2, <2>2 DEF Holders
    <3> QED
      BY <1>4, <2>2, <3>1 DEF HeldBy, At, Only
  <2> QED
    BY <2>1, <2>2
<1>6. ASSUME NEW q \in Procs \ {p}, lock["holding"] = q PROVE lock'["holding"] = q
  <2>1. "holding" \notin Wants(p)
    BY <1>6, InvestmentsAssumption DEF MayGoOn
  <2> QED
    BY <1>1, <1>2, <1>6, <2>1
<1> QED
  BY <1>1, <1>2, <1>4, <1>5, <1>6

LEMMA LockFirstInv ==
  ASSUME Inv, NEW p \in Procs, LockFirst(p)
  PROVE  Inv'
<1> DEFINE n == IF req[p].op = "sell" THEN holding.qty ELSE 0
<1>1. /\ pc[p] = "found" /\ req[p].op \in Flows \cup {"sell"} /\ MayGoOn(p)
      /\ pc[p] \in Begun /\ "first" \in Begun /\ "rejected" \in Finished
      /\ Refuse(p, "rejected") \/ (Goto(p, "first", n) /\ Take(p) /\ UNCHANGED data)
  BY DEF LockFirst, At, Begun, Finished
<1>2. CASE Refuse(p, "rejected")
  BY <1>1, <1>2, RefuseInv
<1>3. CASE Goto(p, "first", n) /\ Take(p) /\ UNCHANGED data
  <2>1. /\ flows[p] = NoRow /\ trades[p] = NoRow
        /\ req[p].op = "sell" => holding # NoRow
    BY <1>1 DEF Inv, Knows, At
  <2>2. n \in Int
    BY <2>1 DEF Inv, DataOK, Holding
  <2>3. ControlOK /\ Holders
    BY DEF Inv
  <2>4. pc'[p] = "first" /\ req' = req
    BY <1>3, <2>3 DEF Goto, ControlOK
  <2>5. \A x \in Locks : lock[x] # p
    BY <1>1, <2>3 DEF Holders, HeldBy, At, Locks, Accounts
  <2>6. \A x \in Wants(p) : HeldBy(x, p)'
    BY <1>1, <2>4 DEF Wants, HeldBy, At, Flows, Edits
  <2> HIDE DEF n
  <2>7. /\ ControlOK' /\ Holders' /\ Only(p) /\ seen'[p] = n
        /\ \A q \in Procs \ {p} : lock["holding"] = q => lock'["holding"] = q
        /\ "holding" \in Wants(p) => lock'["holding"] = p
    BY <1>1, <1>3, <2>2, <2>5, <2>6, TakeMoves
  <2>8. Knows(p)'
    <3>1. flows' = flows /\ trades' = trades /\ holding' = holding
      BY <1>3 DEF data
    <3>2. req[p].op = "sell" => "holding" \in Wants(p) /\ n = holding.qty
      BY <1>1 DEF Wants, At, n, Flows, Edits
    <3> QED
      BY <1>1, <2>1, <2>4, <2>7, <3>1, <3>2 DEF Knows, At, Edits, Flows
  <2> QED
    BY <1>3, <2>7, <2>8, QuietInv
<1> QED
  BY <1>1, <1>2, <1>3

LEMMA LockCashInv ==
  ASSUME Inv, NEW p \in Procs, LockCash(p)
  PROVE  Inv'
<1>1. /\ MayGoOn(p) /\ Goto(p, "ready", seen[p]) /\ Take(p) /\ UNCHANGED data
      /\ \/ pc[p] = "first" /\ req[p].op \in Flows \cup {"sell"}
         \/ pc[p] = "found" /\ req[p].op \in {"buy"} \cup Edits
      /\ pc[p] \in Begun /\ "ready" \in Begun
  BY DEF LockCash, At, Begun
<1>2. ControlOK /\ Holders /\ Knows(p) /\ seen[p] \in Int
  BY <1>1, RequestIs DEF Inv
<1>3. pc'[p] = "ready" /\ req' = req
  BY <1>1, <1>2 DEF Goto, ControlOK
<1>4. \A x \in Wants(p) : HeldBy(x, p)'
  BY <1>1, <1>3 DEF Wants, HeldBy, At, Flows, Edits
<1>5. ASSUME NEW x \in Locks, lock[x] = p PROVE HeldBy(x, p)'
  <2>1. HeldBy(x, p)
    BY <1>2, <1>5 DEF Holders
  <2> QED
    BY <1>1, <1>3, <2>1 DEF HeldBy, At, Locks, Accounts, Flows, Edits
<1>6. /\ ControlOK' /\ Holders' /\ Only(p) /\ seen'[p] = seen[p]
      /\ \A q \in Procs \ {p} : lock["holding"] = q => lock'["holding"] = q
      /\ lock["holding"] = p => lock'["holding"] = p
  BY <1>1, <1>2, <1>4, <1>5, TakeMoves
<1>7. Knows(p)'
  <2>1. flows' = flows /\ trades' = trades /\ holding' = holding
    BY <1>1 DEF data
  <2>2. Made(req[p].of) => Made(req[p].of)'
    BY <1>3, <2>1 DEF Made
  <2> QED
    BY <1>1, <1>2, <1>3, <1>6, <2>1, <2>2 DEF Knows, At, Edits, Flows
<1> QED
  BY <1>1, <1>6, <1>7, QuietInv
-----------------------------------------------------------------------------
(* The replay of the trades.                                               *)

Log == [Procs -> Trade \cup {NoRow}]

LEMMA Products ==
  /\ \A a, b \in Nat : a * b \in Nat
  /\ \A a, b \in Nat \ {0} : a * b \in Nat \ {0}
<1>1. ASSUME NEW a \in Nat, NEW b \in Nat PROVE a * b \in Nat
  OBVIOUS
<1>2. ASSUME NEW a \in Nat \ {0}, NEW b \in Nat \ {0} PROVE a * b \in Nat \ {0}
  OBVIOUS
<1> QED
  BY <1>1, <1>2

LEMMA ActiveTrades ==
  ASSUME NEW ts \in Log
  PROVE  /\ IsFiniteSet(ActiveIn(ts)) /\ IsFiniteSet(Procs)
         /\ \A p \in ActiveIn(ts) : p \in Procs /\ ts[p] \in Trade
<1>1. ActiveIn(ts) \in SUBSET Procs
  BY DEF ActiveIn
<1> QED
  BY <1>1, FS_Subset, InvestmentsAssumption DEF ActiveIn, Log

\* Of some trades one comes last.
LEMMA LatestIn ==
  ASSUME NEW ts \in Log, NEW S \in SUBSET ActiveIn(ts), S # {}
  PROVE  Latest(ts, S) \in S
<1> DEFINE A == ActiveIn(ts)
           Last(p, s) == \A q \in s : ~Before(ts[p], ts[q])
           Bad == {s \in SUBSET A : s # {} /\ ~ \E p \in s : Last(p, s)}
<1>1. \A p \in A : ts[p].date \in Nat /\ ts[p].at \in Nat
  BY ActiveTrades DEF Trade
<1>2. /\ \A p \in A : ~Before(ts[p], ts[p])
      /\ \A p, q, r \in A : Before(ts[p], ts[q]) /\ Before(ts[q], ts[r]) => Before(ts[p], ts[r])
  BY <1>1 DEF Before
<1>3. Bad = {}
  <2> SUFFICES ASSUME Bad # {} PROVE FALSE
    OBVIOUS
  <2>1. PICK m \in Bad : \A t \in Bad : t \subseteq m => t = m
    <3>1. Bad \in SUBSET SUBSET A /\ IsFiniteSet(A)
      BY ActiveTrades
    <3> HIDE DEF Bad, A
    <3> QED
      BY <3>1, SmallestSubset
  <2>2. m \in SUBSET A /\ m # {} /\ ~ \E p \in m : Last(p, m)
    OBVIOUS
  <2>3. PICK x \in m : TRUE
    BY <2>2
  <2>4. m \ {x} \notin Bad /\ m \ {x} \in SUBSET A
    BY <2>1, <2>2, <2>3
  <2>5. CASE m \ {x} = {}
    <3>1. Last(x, m)
      BY <1>2, <2>2, <2>5
    <3> QED
      BY <2>2, <3>1
  <2>6. CASE m \ {x} # {}
    <3>1. PICK p \in m \ {x} : Last(p, m \ {x})
      BY <2>4, <2>6
    <3>2. p \in A /\ x \in A /\ \A q \in m : q \in A
      BY <2>2
    <3>3. CASE Before(ts[p], ts[x])
      <4>1. Last(x, m)
        BY <1>2, <3>1, <3>2, <3>3
      <4> QED
        BY <2>2, <4>1
    <3>4. CASE ~Before(ts[p], ts[x])
      <4>1. Last(p, m)
        BY <3>1, <3>4
      <4> QED
        BY <2>2, <3>1, <4>1
    <3> QED
      BY <3>3, <3>4
  <2> QED
    BY <2>5, <2>6
<1>4. \E p \in S : Last(p, S)
  BY <1>3
<1> QED
  BY <1>4 DEF Latest

\* What the trades come to; its number of shares is -1 once too many were sold.
Position == {pos \in [qty : Int, num : Nat, den : Nat \ {0}] : pos.qty >= -1}

LEMMA PlayedIs ==
  ASSUME NEW pos \in Position, NEW t \in Trade
  PROVE  /\ Played(pos, t) \in Position
         /\ Played(pos, t).qty >= 0 =>
              pos.qty >= 0 /\ Played(pos, t).qty = pos.qty + Shares(t)
<1>1. /\ pos.qty \in Int /\ pos.qty >= -1 /\ pos.num \in Nat /\ pos.den \in Nat \ {0}
      /\ pos = [qty |-> pos.qty, num |-> pos.num, den |-> pos.den]
      /\ t.qty \in Nat \ {0} /\ t.price \in Nat \ {0} /\ t.side \in {"buy", "sell"}
  BY DEF Position, Trade, Trades
<1>2. CASE pos.qty < 0 \/ (t.side = "sell" /\ t.qty > pos.qty)
  <2>1. Played(pos, t) = [pos EXCEPT !.qty = -1]
    BY <1>1, <1>2 DEF Played
  <2>2. [pos EXCEPT !.qty = -1] = [qty |-> -1, num |-> pos.num, den |-> pos.den]
    BY <1>1
  <2> QED
    BY <1>1, <2>1, <2>2 DEF Position
<1>3. CASE t.side = "buy" /\ pos.qty >= 0
  <2> DEFINE n == pos.num + t.qty * t.price * pos.den
  <2>1. Played(pos, t) = [qty |-> pos.qty + t.qty, num |-> n, den |-> pos.den]
    BY <1>1, <1>3 DEF Played
  <2>2. n \in Nat
    <3>1. t.qty * t.price \in Nat
      BY <1>1, Products
    <3>2. t.qty * t.price * pos.den \in Nat
      BY <1>1, <3>1, Products
    <3> QED
      BY <1>1, <3>2
  <2> HIDE DEF n
  <2> QED
    BY <1>1, <1>3, <2>1, <2>2 DEF Position, Shares
<1>4. CASE t.side = "sell" /\ pos.qty >= t.qty
  <2> DEFINE n == pos.num * (pos.qty - t.qty)
             d == pos.den * pos.qty
  <2>1. Played(pos, t) = [qty |-> pos.qty - t.qty, num |-> n, den |-> d]
    BY <1>1, <1>4 DEF Played
  <2>2. n \in Nat /\ d \in Nat \ {0}
    <3>1. pos.qty - t.qty \in Nat /\ pos.qty \in Nat \ {0}
      BY <1>1, <1>4
    <3> QED
      BY <1>1, <3>1, Products
  <2> HIDE DEF n, d
  <2> QED
    BY <1>1, <1>4, <2>1, <2>2 DEF Position, Shares
<1> QED
  BY <1>1, <1>2, <1>3, <1>4

Remainders(h, ts) ==
  h = [s \in SUBSET ActiveIn(ts) |->
         IF s = {} THEN NoShares ELSE Played(h[s \ {Latest(ts, s)}], ts[Latest(ts, s)])]

Remainder(ts) == CHOOSE h : Remainders(h, ts)

LEMMA ReplayIs ==
  ASSUME NEW ts
  PROVE  Replay(ts) = Remainder(ts)[ActiveIn(ts)]
BY DEF Replay, MapThenFoldSet, Remainder, Remainders

LEMMA RemainderExists ==
  ASSUME NEW ts \in Log
  PROVE  /\ Remainders(Remainder(ts), ts)
         /\ \E h : Remainders(h, ts)
<1> DEFINE D == ActiveIn(ts)
           F == [x \in D \X Position |-> Played(x[2], ts[x[1]])]
           c == [s \in SUBSET D |-> Latest(ts, s)]
<1>1. IsFiniteSet(D) /\ \A p \in D : ts[p] \in Trade
  BY ActiveTrades
<1>2. F \in [D \X Position -> Position]
  BY <1>1, PlayedIs
<1>3. \A s \in SUBSET D : s # {} => c[s] \in s
  BY LatestIn
<1>4. NoShares \in Position
  BY DEF NoShares, Position
<1>5. PICK h \in [SUBSET D -> Position] : IsFold(h, F, c, NoShares, D)
  <2> HIDE DEF D, F, c
  <2> QED
    BY <1>1, <1>2, <1>3, <1>4, FoldExists
<1>6. \A s \in SUBSET D : h[s] = IF s = {} THEN NoShares ELSE F[<<c[s], h[s \ {c[s]}]>>]
  BY <1>5 DEF IsFold
<1>7. \A s \in SUBSET D :
        h[s] = IF s = {} THEN NoShares ELSE Played(h[s \ {Latest(ts, s)}], ts[Latest(ts, s)])
  <2> SUFFICES ASSUME NEW s \in SUBSET D, s # {}
               PROVE  h[s] = Played(h[s \ {Latest(ts, s)}], ts[Latest(ts, s)])
    BY <1>6
  <2> DEFINE l == Latest(ts, s)
  <2>1. c[s] = l /\ l \in D
    BY <1>3
  <2> HIDE DEF l
  <2>2. s \ {l} \in SUBSET D
    OBVIOUS
  <2>3. h[s \ {l}] \in Position
    <3> HIDE DEF D
    <3> QED
      BY <1>5, <2>2
  <2>4. F[<<l, h[s \ {l}]>>] = Played(h[s \ {l}], ts[l])
    BY <2>1, <2>3
  <2> QED
    BY <1>6, <2>1, <2>4 DEF l
<1>8. h = [s \in SUBSET D |-> h[s]]
  BY <1>5
<1>9. Remainders(h, ts)
  BY <1>7, <1>8 DEF Remainders
<1> QED
  BY <1>9 DEF Remainder
\* What the transfers and trades put in each column of the books.
BankColumn(fl) == [p \in Procs |-> IF fl[p] # NoRow THEN fl[p].bank ELSE 0]
CashColumn(fl) == [p \in Procs |-> IF fl[p] # NoRow THEN fl[p].cash ELSE 0]
TradeColumn(ts) == [p \in Procs |-> IF p \in ActiveIn(ts) THEN Amount(ts[p]) ELSE 0]
ShareColumn(ts) == [p \in Procs |-> IF p \in ActiveIn(ts) THEN Shares(ts[p]) ELSE 0]

Flown == [Procs -> Flow \cup {NoRow}]

LEMMA ColumnsAreInt ==
  /\ \A fl \in Flown : BankColumn(fl) \in [Procs -> Int] /\ CashColumn(fl) \in [Procs -> Int]
  /\ \A ts \in Log : TradeColumn(ts) \in [Procs -> Int] /\ ShareColumn(ts) \in [Procs -> Int]
<1>1. ASSUME NEW fl \in Flown, NEW p \in Procs, fl[p] # NoRow
      PROVE  fl[p].bank \in Int /\ fl[p].cash \in Int
  BY <1>1 DEF Flown, Flow
<1>2. ASSUME NEW t \in Trade PROVE Amount(t) \in Int /\ Shares(t) \in Int
  BY DEF Trade, Amount, Shares
<1>3. ASSUME NEW fl \in Flown PROVE BankColumn(fl) \in [Procs -> Int] /\ CashColumn(fl) \in [Procs -> Int]
  BY <1>1 DEF BankColumn, CashColumn
<1>4. ASSUME NEW ts \in Log PROVE TradeColumn(ts) \in [Procs -> Int] /\ ShareColumn(ts) \in [Procs -> Int]
  BY <1>2, ActiveTrades DEF TradeColumn, ShareColumn
<1> QED
  BY <1>3, <1>4

LEMMA Books ==
  /\ TrueBank = Opening + SumFunction(BankColumn(flows))
  /\ TrueBank' = Opening + SumFunction(BankColumn(flows'))
  /\ \A ts : CashOf(ts) = SumFunction(CashColumn(flows)) + SumFunction(TradeColumn(ts))
  /\ TrueCash' = SumFunction(CashColumn(flows')) + SumFunction(TradeColumn(trades'))
  /\ SharesOf(trades)' = SumFunction(ShareColumn(trades'))
  /\ \A ts : SharesOf(ts) = SumFunction(ShareColumn(ts))
<1>1. /\ [p \in Procs |-> IF p \in Transferred THEN flows[p].bank ELSE 0] = BankColumn(flows)
      /\ [p \in Procs |-> IF p \in Transferred THEN flows[p].cash ELSE 0] = CashColumn(flows)
      /\ [p \in Procs |-> IF p \in Transferred' THEN flows'[p].bank ELSE 0] = BankColumn(flows')
      /\ [p \in Procs |-> IF p \in Transferred' THEN flows'[p].cash ELSE 0] = CashColumn(flows')
  BY DEF Transferred, BankColumn, CashColumn
<1> QED
  BY <1>1 DEF TrueBank, TrueCash, CashOf, SharesOf, TradeColumn, ShareColumn

LEMMA BooksAreInt ==
  ASSUME DataOK, NEW ts \in Log
  PROVE  TrueBank \in Int /\ CashOf(ts) \in Int /\ SharesOf(ts) \in Int
<1>1. flows \in Flown /\ IsFiniteSet(Procs) /\ Opening \in Int
  BY InvestmentsAssumption DEF DataOK, Flown
<1>2. /\ SumFunction(BankColumn(flows)) \in Int /\ SumFunction(CashColumn(flows)) \in Int
      /\ SumFunction(TradeColumn(ts)) \in Int /\ SumFunction(ShareColumn(ts)) \in Int
  BY <1>1, ColumnsAreInt, SumInt
<1> QED
  BY <1>1, <1>2, Books

\* The replay counts the shares of the trades, unless too many are sold.
LEMMA ReplayCounts ==
  ASSUME NEW ts \in Log
  PROVE  /\ Replay(ts) \in Position
         /\ Replay(ts).qty >= 0 => Replay(ts).qty = SharesOf(ts)
<1> DEFINE A == ActiveIn(ts)
           h == Remainder(ts)
           f == ShareColumn(ts)
           Counts(s) == h[s] \in Position /\ (h[s].qty >= 0 => h[s].qty = SumOn(f, s))
           Bad == {s \in SUBSET A : ~Counts(s)}
<1>1. /\ IsFiniteSet(A) /\ IsFiniteSet(Procs) /\ A \in SUBSET Procs
      /\ \A p \in A : ts[p] \in Trade /\ f[p] \in Int /\ f[p] = Shares(ts[p])
      /\ \A p \in Procs : f[p] \in Int
      /\ \A p \in Procs \ A : f[p] = 0
  <2>1. IsFiniteSet(A) /\ IsFiniteSet(Procs) /\ A \in SUBSET Procs /\ \A p \in A : ts[p] \in Trade
    BY ActiveTrades
  <2>2. \A p \in Procs : f[p] \in Int
    BY ColumnsAreInt
  <2>3. \A p \in Procs : f[p] = IF p \in ActiveIn(ts) THEN Shares(ts[p]) ELSE 0
    BY DEF ShareColumn
  <2> QED
    BY <2>1, <2>2, <2>3
<1>2. \A s \in SUBSET A :
        h[s] = IF s = {} THEN NoShares ELSE Played(h[s \ {Latest(ts, s)}], ts[Latest(ts, s)])
  <2>1. Remainders(h, ts)
    BY RemainderExists
  <2> HIDE DEF h
  <2> QED
    BY <2>1 DEF Remainders
<1> HIDE DEF h, f
<1>3. Bad = {}
  <2> SUFFICES ASSUME Bad # {} PROVE FALSE
    OBVIOUS
  <2>1. PICK m \in Bad : \A t \in Bad : t \subseteq m => t = m
    <3>1. Bad \in SUBSET SUBSET A
      OBVIOUS
    <3> HIDE DEF Bad, A
    <3> QED
      BY <1>1, <3>1, SmallestSubset
  <2>2. m \in SUBSET A /\ ~Counts(m)
    OBVIOUS
  <2>3. CASE m = {}
    <3>1. h[m] = NoShares /\ SumOn(f, m) = 0
      BY <1>2, <2>3, SumEmpty
    <3> QED
      BY <2>2, <3>1 DEF NoShares, Position
  <2>4. CASE m # {}
    <3> DEFINE x == Latest(ts, m)
               r == m \ {x}
    <3>1. x \in m /\ h[m] = Played(h[r], ts[x])
      BY <1>2, <2>2, <2>4, LatestIn
    <3> HIDE DEF x
    <3>2. r \in SUBSET A /\ r # m /\ r \subseteq m
      BY <2>2, <3>1
    <3>3. Counts(r)
      BY <2>1, <3>2
    <3>4. IsFiniteSet(m) /\ IsFiniteSet(r) /\ \A p \in m : f[p] \in Int
      BY <1>1, <2>2, FS_Subset
    <3>5. SumOn(f, m) = f[x] + SumOn(f, r) /\ SumOn(f, r) \in Int
      BY <3>1, <3>4, SumWithout, SumIsInt
    <3>6. ts[x] \in Trade /\ f[x] = Shares(ts[x]) /\ f[x] \in Int
      BY <1>1, <2>2, <3>1
    <3> HIDE DEF r
    <3>7. /\ h[m] \in Position
          /\ h[m].qty >= 0 => h[r].qty >= 0 /\ h[m].qty = h[r].qty + f[x]
      BY <3>1, <3>3, <3>6, PlayedIs
    <3> QED
      BY <2>2, <3>3, <3>5, <3>6, <3>7
  <2> QED
    BY <2>3, <2>4
<1>4. Counts(A)
  BY <1>3
<1>5. SumOn(f, Procs) = SumOn(f, A)
  BY <1>1, SumSupport
<1>6. SharesOf(ts) = SumOn(f, Procs)
  <2>1. SharesOf(ts) = SumFunction(f) /\ DOMAIN f = Procs
    BY Books DEF f, ShareColumn
  <2> QED
    BY <2>1, SumFunctionIs
<1> QED
  BY <1>4, <1>5, <1>6, ReplayIs DEF h
-----------------------------------------------------------------------------
(* The steps that write.                                                   *)

LEMMA WriteInv ==
  ASSUME Inv, NEW p \in Procs, pc[p] \in Begun, Finish(p, "done"), DataOK', LedgerIsTruth',
         \A q \in Procs \ {p} : flows'[q] = flows[q],
         \A q \in Procs : trades[q] # NoRow => trades'[q] # NoRow,
         \A q \in Procs \ {p} : trades[q] = NoRow => trades'[q] = NoRow,
         holding # NoRow => holding' # NoRow,
         \A q \in Procs \ {p} : lock["holding"] = q /\ holding # NoRow => holding' = holding
  PROVE  Inv'
<1>1. ControlOK /\ Holders /\ "holding" \in Locks /\ "done" \in Finished
  BY DEF Inv, Locks, Finished
<1>2. /\ ControlOK' /\ Holders' /\ Only(p) /\ pc'[p] = "done"
      /\ \A q \in Procs \ {p} : lock["holding"] = q => lock'["holding"] = q
  BY <1>1, FinishMoves
<1>3. Knows(p)'
  BY <1>2 DEF Knows, At, Begun
<1>4. \A q \in Procs \ {p} : Knows(q)'
  BY <1>2, OthersKnow
<1> QED
  BY <1>2, <1>3, <1>4 DEF Inv

\* One trade is made or changed.
LEMMA LogChanges ==
  ASSUME DataOK, NEW ts \in Log, NEW us \in Log, NEW p \in Procs,
         \A q \in Procs \ {p} : us[q] = ts[q]
  PROVE  /\ CashOf(us) = CashOf(ts) + (TradeColumn(us)[p] - TradeColumn(ts)[p])
         /\ SharesOf(us) = SharesOf(ts) + (ShareColumn(us)[p] - ShareColumn(ts)[p])
         /\ {CashOf(us), CashOf(ts), SharesOf(us), SharesOf(ts)} \subseteq Int
<1>1. /\ TradeColumn(us) \in [Procs -> Int] /\ TradeColumn(ts) \in [Procs -> Int]
      /\ ShareColumn(us) \in [Procs -> Int] /\ ShareColumn(ts) \in [Procs -> Int]
      /\ IsFiniteSet(Procs)
  BY ColumnsAreInt, InvestmentsAssumption
<1>2. \A q \in Procs : q # p => /\ TradeColumn(us)[q] = TradeColumn(ts)[q]
                                /\ ShareColumn(us)[q] = ShareColumn(ts)[q]
  BY DEF TradeColumn, ShareColumn, ActiveIn
<1>3. /\ SumFunction(TradeColumn(us)) =
           SumFunction(TradeColumn(ts)) + (TradeColumn(us)[p] - TradeColumn(ts)[p])
      /\ SumFunction(ShareColumn(us)) =
           SumFunction(ShareColumn(ts)) + (ShareColumn(us)[p] - ShareColumn(ts)[p])
  BY <1>1, <1>2, SumChangesAt
<1>4. /\ SumFunction(TradeColumn(ts)) \in Int /\ SumFunction(ShareColumn(ts)) \in Int
      /\ TradeColumn(us)[p] \in Int /\ TradeColumn(ts)[p] \in Int
      /\ ShareColumn(us)[p] \in Int /\ ShareColumn(ts)[p] \in Int
  BY <1>1, SumInt
<1>5. SumFunction(CashColumn(flows)) \in Int
  BY <1>1, ColumnsAreInt, SumInt DEF DataOK, Flown
<1>6. /\ CashOf(us) = SumFunction(CashColumn(flows)) + SumFunction(TradeColumn(us))
      /\ CashOf(ts) = SumFunction(CashColumn(flows)) + SumFunction(TradeColumn(ts))
      /\ SharesOf(us) = SumFunction(ShareColumn(us)) /\ SharesOf(ts) = SumFunction(ShareColumn(ts))
  BY Books
<1> QED
  BY <1>3, <1>4, <1>5, <1>6

\* When only trades change, the books of the next state are those of its trades.
LEMMA TradesChange ==
  ASSUME flows' = flows
  PROVE  TrueBank' = TrueBank /\ TrueCash' = CashOf(trades') /\ SharesOf(trades)' = SharesOf(trades')
BY Books

LEMMA FlowBooked ==
  ASSUME DataOK, NEW p \in Procs, flows[p] = NoRow, NEW b \in Int, NEW c \in Int, NEW k \in Keys,
         flows' = [flows EXCEPT ![p] = [bank |-> b, cash |-> c, key |-> k]], trades' = trades
  PROVE  /\ flows' \in Flown
         /\ TrueBank' = TrueBank + b /\ TrueCash' = TrueCash + c
         /\ SharesOf(trades)' = SharesOf(trades)
<1>1. flows \in Flown /\ IsFiniteSet(Procs) /\ Opening \in Int /\ trades \in Log
  BY InvestmentsAssumption DEF DataOK, Flown, Log
<1>2. PICK new : new = [bank |-> b, cash |-> c, key |-> k]
  OBVIOUS
<1>3. new \in Flow /\ new # NoRow /\ new.bank = b /\ new.cash = c
  <2>1. new \in Flow /\ new.bank = b /\ new.cash = c
    BY <1>2 DEF Flow
  <2> QED
    BY <2>1, InvestmentsAssumption
<1>4. flows' \in Flown /\ flows'[p] = new /\ \A q \in Procs \ {p} : flows'[q] = flows[q]
  BY <1>1, <1>2, <1>3 DEF Flown
<1>5. /\ BankColumn(flows) \in [Procs -> Int] /\ BankColumn(flows') \in [Procs -> Int]
      /\ CashColumn(flows) \in [Procs -> Int] /\ CashColumn(flows') \in [Procs -> Int]
  BY <1>1, <1>4, ColumnsAreInt
<1>6. /\ BankColumn(flows)[p] = 0 /\ BankColumn(flows')[p] = b
      /\ CashColumn(flows)[p] = 0 /\ CashColumn(flows')[p] = c
      /\ \A q \in Procs : q # p => /\ BankColumn(flows')[q] = BankColumn(flows)[q]
                                   /\ CashColumn(flows')[q] = CashColumn(flows)[q]
  BY <1>3, <1>4 DEF BankColumn, CashColumn
<1>7. ASSUME NEW f \in [Procs -> Int], NEW g \in [Procs -> Int],
             \A q \in Procs : q # p => g[q] = f[q]
      PROVE  SumFunction(g) = SumFunction(f) + (g[p] - f[p])
  BY <1>1, <1>7, SumChangesAt
<1>8. /\ SumFunction(BankColumn(flows)) \in Int /\ SumFunction(CashColumn(flows)) \in Int
      /\ SumFunction(TradeColumn(trades)) \in Int
  BY <1>1, <1>5, ColumnsAreInt, SumInt
<1>9. TrueCash = SumFunction(CashColumn(flows)) + SumFunction(TradeColumn(trades))
  BY Books DEF TrueCash
<1>10. SharesOf(trades)' = SharesOf(trades)
  BY Books
<1> QED
  <2>1. /\ SumFunction(BankColumn(flows')) =
             SumFunction(BankColumn(flows)) + (BankColumn(flows')[p] - BankColumn(flows)[p])
        /\ SumFunction(CashColumn(flows')) =
             SumFunction(CashColumn(flows)) + (CashColumn(flows')[p] - CashColumn(flows)[p])
    BY <1>5, <1>6, <1>7
  <2> QED
    BY <1>1, <1>4, <1>6, <1>8, <1>9, <1>10, <2>1, Books

\* What a step that writes may do to the cash.
Guards(p) ==
  TrueCash' < TrueCash /\ TrueCash' < 0 =>
    req[p].op \in Edits /\ trades[req[p].of].side = "sell"

LEMMA ConvertedIs ==
  ASSUME NEW r \in Request
  PROVE  Converted(r) \in Nat
<1>1. r.amt \in Nat /\ Rate \in Nat \ {0}
  BY InvestmentsAssumption DEF Request
<1>2. r.amt * Rate \in Nat
  BY <1>1, Products
<1>3. RoundDiv(r.amt, Rate) \in Nat
  BY <1>1, RoundDivNat
<1> QED
  BY <1>2, <1>3 DEF Converted

\* A transfer spends what its account has.
LEMMA CommitFlowInv ==
  ASSUME Inv, NEW p \in Procs, CommitFlow(p)
  PROVE  Inv' /\ (pc'[p] = "done" => Guards(p))
<1> DEFINE r == req[p]
           b == IF r.op = "deposit" THEN -r.amt ELSE Converted(r)
           c == IF r.op = "deposit" THEN Converted(r) ELSE -r.amt
           source == IF r.op = "deposit" THEN TrueBank ELSE TrueCash
           Wrote == /\ ~(r.amt > source)
                    /\ flows' = [flows EXCEPT ![p] = [bank |-> b, cash |-> c, key |-> r.key]]
                    /\ balance' = [balance EXCEPT !["bank"] = @ + b, !["cash"] = @ + c]
                    /\ Finish(p, "done")
                    /\ UNCHANGED <<trades, holding>>
<1>1. /\ pc[p] = "ready" /\ r.op \in Flows /\ pc[p] \in Begun
      /\ {"rejected", "repeated"} \subseteq Finished
      /\ Refuse(p, "rejected") \/ Refuse(p, "repeated") \/ Wrote
  BY DEF CommitFlow, At, Begun, Finished
<1>2. CASE Refuse(p, "rejected") \/ Refuse(p, "repeated")
  <2>1. Inv'
    BY <1>1, <1>2, RefuseInv
  <2>2. pc'[p] # "done"
    BY <1>2 DEF Refuse, Finish, Inv, ControlOK
  <2> QED
    BY <2>1, <2>2
<1>3. CASE Wrote
  <2>1. /\ r \in Request /\ r.op \in {"deposit", "withdraw"} /\ r.amt \in Nat /\ r.key \in Keys
        /\ ControlOK /\ DataOK /\ LedgerIsTruth /\ flows[p] = NoRow
    BY <1>1, RequestIs DEF Inv, Knows, Flows
  <2>2. Converted(r) \in Nat
    BY <2>1, ConvertedIs
  <2>3. b \in Int /\ c \in Int /\ (r.op = "deposit" => c >= 0) /\ (r.op = "withdraw" => c = -r.amt)
    BY <2>1, <2>2
  <2>4. /\ flows' = [flows EXCEPT ![p] = [bank |-> b, cash |-> c, key |-> r.key]]
        /\ trades' = trades /\ holding' = holding /\ Finish(p, "done")
        /\ r.op = "withdraw" => ~(r.amt > TrueCash)
    BY <1>3, <2>1
  <2>5. balance' = [balance EXCEPT !["bank"] = @ + b, !["cash"] = @ + c]
    BY <1>3
  <2> HIDE DEF b, c, r, Wrote
  <2>6. /\ flows' \in Flown /\ TrueBank' = TrueBank + b /\ TrueCash' = TrueCash + c
        /\ SharesOf(trades)' = SharesOf(trades)
    BY <2>1, <2>3, <2>4, FlowBooked
  <2>7. TrueBank \in Int /\ TrueCash \in Int
    BY <2>1, BooksAreInt DEF TrueCash, DataOK, Log
  <2>8. balance' \in [Accounts -> Int] /\ balance'["bank"] = balance["bank"] + b
          /\ balance'["cash"] = balance["cash"] + c
    BY <2>1, <2>3, <2>5 DEF DataOK, Accounts
  <2>9. LedgerIsTruth'
    BY <2>1, <2>4, <2>6, <2>8 DEF LedgerIsTruth
  <2>10. DataOK'
    BY <2>1, <2>4, <2>6, <2>8 DEF DataOK, Flown
  <2>11. \A q \in Procs \ {p} : flows'[q] = flows[q]
    BY <2>1, <2>4 DEF DataOK
  <2>12. Inv'
    BY <1>1, <2>4, <2>9, <2>10, <2>11, WriteInv
  <2>13. Guards(p)
    BY <2>1, <2>3, <2>4, <2>6, <2>7 DEF Guards
  <2> QED
    BY <2>12, <2>13
<1> QED
  BY <1>1, <1>2, <1>3
\* A trade is entered, and the holding is counted with it.
LEMMA BookInv ==
  ASSUME Inv, NEW p \in Procs, pc[p] \in Begun, NEW t \in Trade, t.active,
         NEW h \in Holding, h.qty >= 0, h.qty = SharesOf(trades) + Shares(t),
         h.active <=> h.qty > 0, Book(p, t, h),
         \A q \in Procs \ {p} : ~(lock["holding"] = q /\ holding # NoRow)
  PROVE  Inv' /\ TrueCash' = TrueCash + Amount(t) /\ TrueCash \in Int
<1>1. /\ ControlOK /\ DataOK /\ LedgerIsTruth /\ trades[p] = NoRow /\ trades \in Log
      /\ t # NoRow /\ h # NoRow /\ h \in Holding
  BY InvestmentsAssumption DEF Inv, Knows, DataOK, Log
<1>2. /\ trades' = [trades EXCEPT ![p] = t] /\ holding' = h /\ flows' = flows /\ Finish(p, "done")
      /\ balance' = [balance EXCEPT !["cash"] = @ + Amount(t)]
  BY DEF Book
<1>3. trades' \in Log /\ trades'[p] = t /\ \A q \in Procs \ {p} : trades'[q] = trades[q]
  BY <1>1, <1>2 DEF Log
<1>4. /\ TradeColumn(trades)[p] = 0 /\ TradeColumn(trades')[p] = Amount(t)
      /\ ShareColumn(trades)[p] = 0 /\ ShareColumn(trades')[p] = Shares(t)
  BY <1>1, <1>3 DEF TradeColumn, ShareColumn, ActiveIn
<1>5. Amount(t) \in Int /\ Shares(t) \in Int
  <2>1. t.qty \in Nat /\ t.price \in Nat
    BY DEF Trade
  <2>2. t.qty * t.price \in Nat
    BY <2>1, Products
  <2> QED
    BY <2>1, <2>2 DEF Amount, Shares
<1>6. /\ CashOf(trades') = CashOf(trades) + (Amount(t) - 0)
      /\ SharesOf(trades') = SharesOf(trades) + (Shares(t) - 0)
      /\ CashOf(trades) \in Int /\ SharesOf(trades) \in Int
  <2>1. /\ CashOf(trades') = CashOf(trades) + (TradeColumn(trades')[p] - TradeColumn(trades)[p])
        /\ SharesOf(trades') = SharesOf(trades) + (ShareColumn(trades')[p] - ShareColumn(trades)[p])
        /\ CashOf(trades) \in Int /\ SharesOf(trades) \in Int
    <3>1. ASSUME NEW us \in Log, \A q \in Procs \ {p} : us[q] = trades[q]
          PROVE  /\ CashOf(us) = CashOf(trades) + (TradeColumn(us)[p] - TradeColumn(trades)[p])
                 /\ SharesOf(us) = SharesOf(trades) + (ShareColumn(us)[p] - ShareColumn(trades)[p])
                 /\ CashOf(trades) \in Int /\ SharesOf(trades) \in Int
      BY <1>1, <3>1, LogChanges
    <3> QED
      BY <1>3, <3>1
  <2> QED
    BY <1>4, <2>1
<1>7. TrueBank' = TrueBank /\ TrueCash' = TrueCash + Amount(t) /\ TrueCash \in Int
      /\ SharesOf(trades)' = SharesOf(trades) + Shares(t)
  BY <1>2, <1>5, <1>6, TradesChange DEF TrueCash
<1>8. balance' \in [Accounts -> Int] /\ balance'["bank"] = balance["bank"]
        /\ balance'["cash"] = balance["cash"] + Amount(t)
  BY <1>1, <1>2, <1>5 DEF DataOK, Accounts
<1>9. LedgerIsTruth'
  BY <1>1, <1>2, <1>7, <1>8 DEF LedgerIsTruth
<1>10. DataOK'
  BY <1>1, <1>2, <1>3, <1>8 DEF DataOK, Log
<1>11. Inv'
  <2>1. \A q \in Procs : trades[q] # NoRow => trades'[q] # NoRow
    BY <1>1, <1>3
  <2>2. \A q \in Procs \ {p} : trades[q] = NoRow => trades'[q] = NoRow
    BY <1>3
  <2> QED
    BY <1>1, <1>2, <1>9, <1>10, <2>1, <2>2, WriteInv
<1> QED
  BY <1>7, <1>11

LEMMA NewTradeIs ==
  ASSUME NEW r \in Request, r.op \in Trades
  PROVE  /\ NewTrade(r) \in Trade /\ NewTrade(r).active
         /\ NewTrade(r).side = r.op /\ NewTrade(r).qty = r.qty /\ NewTrade(r).price = r.price
<1>1. Cardinality({q \in Procs : Made(q)}) \in Nat
  <2>1. {q \in Procs : Made(q)} \subseteq Procs
    OBVIOUS
  <2> QED
    BY <2>1, FS_Subset, FS_CardinalityType, InvestmentsAssumption
<1> QED
  BY <1>1 DEF NewTrade, Trade, Request

\* Whoever may take the holding knows that no other request has it.
LEMMA HoldingIsFree ==
  ASSUME NEW p \in Procs, At(p, {"buy"} \cup Edits, "ready"), MayGoOn(p), holding # NoRow
  PROVE  \A q \in Procs \ {p} : lock["holding"] # q
<1>1. "holding" \in Wants(p)
  BY DEF Wants, At, Edits, Flows
<1> QED
  BY <1>1, InvestmentsAssumption DEF MayGoOn

LEMMA BoughtIs ==
  ASSUME DataOK, NEW r \in Request
  PROVE  /\ Bought(r) \in Holding /\ Bought(r).active
         /\ Bought(r).qty = (IF holding = NoRow THEN 0 ELSE holding.qty) + r.qty
         /\ Bought(r).qty > 0
<1>1. r.qty \in Nat \ {0} /\ r.price \in Nat
  BY DEF Request
<1>2. CASE holding = NoRow
  BY <1>1, <1>2 DEF Bought, Holding
<1>3. CASE holding # NoRow
  <2>1. holding.qty \in Nat /\ holding.avg \in Nat
    BY <1>3 DEF DataOK, Holding
  <2>2. holding.qty * holding.avg \in Nat /\ r.qty * r.price \in Nat
    BY <1>1, <2>1, Products
  <2>3. PICK n \in Nat : n = holding.qty * holding.avg + r.qty * r.price
    BY <2>2
  <2>4. PICK d \in Nat \ {0} : d = holding.qty + r.qty
    BY <1>1, <2>1
  <2>5. PICK a \in Nat : a = RoundDiv(n, d)
    BY RoundDivNat
  <2>6. Bought(r) = [qty |-> d, active |-> TRUE, avg |-> a]
    BY <1>3, <2>3, <2>4, <2>5 DEF Bought
  <2> QED
    BY <1>1, <1>3, <2>1, <2>4, <2>6 DEF Holding
<1> QED
  BY <1>2, <1>3

\* A purchase spends what there is.
LEMMA CommitBuyInv ==
  ASSUME Inv, NEW p \in Procs, CommitBuy(p)
  PROVE  Inv' /\ (pc'[p] = "done" => Guards(p))
<1> DEFINE r == req[p]
<1>1. /\ At(p, {"buy"}, "ready") /\ MayGoOn(p) /\ pc[p] \in Begun /\ r.op = "buy"
      /\ {"rejected", "repeated"} \subseteq Finished
      /\ \/ Refuse(p, "rejected") \/ Refuse(p, "repeated")
         \/ ~(r.qty * r.price > TrueCash) /\ Book(p, NewTrade(r), Bought(r))
  BY DEF CommitBuy, At, Begun, Finished
<1>2. CASE Refuse(p, "rejected") \/ Refuse(p, "repeated")
  <2>1. Inv'
    BY <1>1, <1>2, RefuseInv
  <2>2. pc'[p] # "done"
    BY <1>2 DEF Refuse, Finish, Inv, ControlOK
  <2> QED
    BY <2>1, <2>2
<1>3. CASE ~(r.qty * r.price > TrueCash) /\ Book(p, NewTrade(r), Bought(r))
  <2>1. r \in Request /\ DataOK /\ LedgerIsTruth /\ r.qty \in Nat /\ r.price \in Nat
    BY <1>1, RequestIs DEF Inv
  <2> HIDE DEF r
  <2>2. PICK t \in Trade : t = NewTrade(r) /\ t.active /\ t.side = "buy" /\ t.qty = r.qty /\ t.price = r.price
    BY <1>1, <2>1, NewTradeIs DEF Trades
  <2>3. PICK h \in Holding : h = Bought(r) /\ h.active /\ h.qty > 0
                             /\ h.qty = (IF holding = NoRow THEN 0 ELSE holding.qty) + r.qty
    BY <2>1, BoughtIs
  <2>4. h.qty = SharesOf(trades) + Shares(t) /\ h.qty >= 0
    <3>1. h.qty \in Int /\ (holding # NoRow => holding.qty \in Int)
      BY <2>1 DEF Holding, DataOK
    <3> QED
      BY <2>1, <2>2, <2>3, <3>1 DEF LedgerIsTruth, Shares
  <2>5. \A q \in Procs \ {p} : ~(lock["holding"] = q /\ holding # NoRow)
    <3>1. At(p, {"buy"} \cup Edits, "ready")
      BY <1>1 DEF At
    <3> QED
      BY <1>1, <3>1, HoldingIsFree
  <2>6. Book(p, t, h)
    BY <1>3, <2>2, <2>3
  <2>7. Inv' /\ TrueCash' = TrueCash + Amount(t) /\ TrueCash \in Int
    BY <1>1, <2>2, <2>3, <2>4, <2>5, <2>6, BookInv
  <2>8. Guards(p)
    <3>1. PICK c \in Nat : c = r.qty * r.price
      BY <2>1, Products
    <3>2. Amount(t) = -c /\ ~(c > TrueCash)
      BY <1>3, <2>2, <3>1 DEF Amount
    <3> QED
      BY <2>7, <3>1, <3>2 DEF Guards
  <2> QED
    BY <2>7, <2>8
<1> QED
  BY <1>1, <1>2, <1>3

LEMMA LeftIs ==
  ASSUME holding \in Holding, NEW n \in Int
  PROVE  Left(n) \in Holding /\ Left(n).qty = n /\ (Left(n).active <=> n > 0)
<1>1. CASE n > 0
  <2>1. Left(n) = [qty |-> n, avg |-> holding.avg, active |-> TRUE]
    BY <1>1 DEF Left
  <2> QED
    BY <1>1, <2>1 DEF Holding
<1>2. CASE ~(n > 0)
  <2>1. (n > 0) = FALSE
    BY <1>2
  <2>2. Left(n) = [qty |-> n, avg |-> holding.avg, active |-> FALSE]
    BY <2>1, Zenon DEF Left
  <2> QED
    BY <1>2, <2>2 DEF Holding
<1> QED
  BY <1>1, <1>2

\* A sale has counted the shares and keeps them locked.
LEMMA CommitSellInv ==
  ASSUME Inv, NEW p \in Procs, CommitSell(p)
  PROVE  Inv' /\ (pc'[p] = "done" => Guards(p))
<1> DEFINE r == req[p]
           left == seen[p] - r.qty
           new == Left(left)
<1>1. /\ pc[p] = "ready" /\ pc[p] \in Begun /\ r.op = "sell" /\ At(p, {"sell"}, "ready")
      /\ {"rejected", "repeated"} \subseteq Finished
      /\ \/ Refuse(p, "rejected") \/ Refuse(p, "repeated")
         \/ ~(left < 0) /\ Book(p, NewTrade(r), new)
  BY DEF CommitSell, At, Begun, Finished
<1>2. CASE Refuse(p, "rejected") \/ Refuse(p, "repeated")
  <2>1. Inv'
    BY <1>1, <1>2, RefuseInv
  <2>2. pc'[p] # "done"
    BY <1>2 DEF Refuse, Finish, Inv, ControlOK
  <2> QED
    BY <2>1, <2>2
<1>3. CASE ~(left < 0) /\ Book(p, NewTrade(r), new)
  <2>1. r \in Request /\ DataOK /\ LedgerIsTruth /\ r.qty \in Nat /\ r.price \in Nat /\ seen[p] \in Int
    BY <1>1, RequestIs DEF Inv
  <2>2. holding # NoRow /\ lock["holding"] = p /\ seen[p] = holding.qty /\ holding \in Holding
    BY <1>1, <2>1 DEF Inv, Knows, DataOK
  <2> HIDE DEF r
  <2>3. PICK t \in Trade : t = NewTrade(r) /\ t.active /\ t.side = "sell" /\ t.qty = r.qty /\ t.price = r.price
    BY <1>1, <2>1, NewTradeIs DEF Trades
  <2>4. left \in Int
    BY <2>1
  <2> HIDE DEF left
  <2>5. PICK h : h = new
    OBVIOUS
  <2>6. h \in Holding /\ h.qty = left /\ (h.active <=> left > 0)
    BY <2>2, <2>4, <2>5, LeftIs
  <2> HIDE DEF new
  <2>7. h.qty >= 0 /\ h.qty = SharesOf(trades) + Shares(t) /\ (h.active <=> h.qty > 0)
    <3>1. left = holding.qty - r.qty /\ holding.qty \in Int
      BY <2>2 DEF left, Holding
    <3>2. holding.qty = SharesOf(trades) /\ Shares(t) = -r.qty
      BY <2>1, <2>2, <2>3 DEF LedgerIsTruth, Shares
    <3> QED
      BY <1>3, <2>1, <2>4, <2>6, <3>1, <3>2
  <2>8. \A q \in Procs \ {p} : ~(lock["holding"] = q /\ holding # NoRow)
    BY <2>2
  <2>9. Book(p, t, h)
    BY <1>3, <2>3, <2>5
  <2>10. Inv' /\ TrueCash' = TrueCash + Amount(t) /\ TrueCash \in Int
    BY <1>1, <2>3, <2>6, <2>7, <2>8, <2>9, BookInv
  <2>11. Guards(p)
    <3>1. PICK c \in Nat : c = r.qty * r.price
      BY <2>1, Products
    <3>2. Amount(t) = c
      BY <2>3, <3>1 DEF Amount
    <3> QED
      BY <2>10, <3>1, <3>2 DEF Guards
  <2> QED
    BY <2>10, <2>11
<1> QED
  BY <1>1, <1>2, <1>3
LEMMA SyncedIs ==
  ASSUME NEW pos \in Position, pos.qty >= 0
  PROVE  \/ holding = NoRow /\ pos.qty = 0 /\ Synced(pos) = NoRow
         \/ /\ Synced(pos) \in Holding /\ Synced(pos).qty = pos.qty
            /\ Synced(pos).active <=> pos.qty > 0
<1> DEFINE avg == IF pos.qty = 0 THEN 0 ELSE RoundDiv(Centavos * pos.num, pos.den * pos.qty)
<1>1. pos.qty \in Nat /\ pos.num \in Nat /\ pos.den \in Nat \ {0}
  BY DEF Position
<1>2. avg \in Nat
  <2>1. CASE pos.qty = 0
    BY <2>1
  <2>2. CASE pos.qty # 0
    <3>1. Centavos * pos.num \in Nat /\ pos.den * pos.qty \in Nat \ {0}
      <4>1. Centavos \in Nat /\ pos.qty \in Nat \ {0}
        BY <1>1, <2>2 DEF Centavos
      <4> QED
        BY <1>1, <4>1, Products
    <3> QED
      BY <2>2, <3>1, RoundDivNat
  <2> QED
    BY <2>1, <2>2
<1>3. Synced(pos) = IF holding = NoRow /\ pos.qty = 0 THEN NoRow
                    ELSE [qty |-> pos.qty, avg |-> avg, active |-> pos.qty > 0]
  BY DEF Synced
<1> HIDE DEF avg
<1>4. CASE holding = NoRow /\ pos.qty = 0
  BY <1>3, <1>4
<1>5. CASE ~(holding = NoRow /\ pos.qty = 0) /\ pos.qty > 0
  <2>1. (pos.qty > 0) = TRUE
    BY <1>5
  <2>2. Synced(pos) = [qty |-> pos.qty, avg |-> avg, active |-> TRUE]
    BY <1>3, <1>5, <2>1, Zenon
  <2> QED
    BY <1>1, <1>2, <1>5, <2>2 DEF Holding
<1>6. CASE ~(holding = NoRow /\ pos.qty = 0) /\ ~(pos.qty > 0)
  <2>1. (pos.qty > 0) = FALSE
    BY <1>6
  <2>2. Synced(pos) = [qty |-> pos.qty, avg |-> avg, active |-> FALSE]
    BY <1>3, <1>6, <2>1, Zenon
  <2> QED
    BY <1>1, <1>2, <1>6, <2>2 DEF Holding
<1> QED
  BY <1>4, <1>5, <1>6

\* The trades are replayed after one of them was changed.
LEMMA ReplaceInv ==
  ASSUME Inv, NEW p \in Procs, At(p, Edits, "ready"), MayGoOn(p),
         NEW of \in Procs, NEW ts \in Log, ts[of] # NoRow, trades[of] # NoRow,
         \A q \in Procs \ {of} : ts[q] = trades[q],
         NEW allowed, Replace(p, ts, allowed)
  PROVE  /\ Inv'
         /\ pc'[p] = "done" =>
              /\ allowed /\ TrueCash' = CashOf(ts)
              /\ CashOf(ts) = TrueCash + (TradeColumn(ts)[of] - TradeColumn(trades)[of])
<1> DEFINE pos == Replay(ts)
           Wrote == /\ ~(pos.qty < 0) /\ allowed
                    /\ trades' = ts /\ holding' = Synced(pos)
                    /\ balance' = [balance EXCEPT !["cash"] = CashOf(ts)]
                    /\ Finish(p, "done") /\ UNCHANGED flows
<1>1. /\ pc[p] \in Begun /\ "rejected" \in Finished /\ DataOK /\ LedgerIsTruth
      /\ trades \in Log /\ ControlOK
      /\ Refuse(p, "rejected") \/ Wrote
  BY DEF Replace, At, Begun, Finished, Inv, DataOK, Log
<1>2. CASE Refuse(p, "rejected")
  <2>1. Inv'
    BY <1>1, <1>2, RefuseInv
  <2>2. pc'[p] # "done"
    BY <1>2 DEF Refuse, Finish, Inv, ControlOK
  <2> QED
    BY <2>1, <2>2
<1>3. CASE Wrote
  <2>1. pos \in Position /\ pos.qty >= 0 /\ pos.qty = SharesOf(ts)
    <3>1. pos \in Position /\ (pos.qty >= 0 => pos.qty = SharesOf(ts))
      BY ReplayCounts
    <3>2. pos.qty >= 0
      BY <1>3, <3>1 DEF Position
    <3> QED
      BY <3>1, <3>2
  <2>2. /\ allowed /\ trades' = ts /\ holding' = Synced(pos) /\ flows' = flows
        /\ balance' = [balance EXCEPT !["cash"] = CashOf(ts)] /\ Finish(p, "done")
    BY <1>3
  <2> HIDE DEF pos, Wrote
  <2>3. \/ holding = NoRow /\ pos.qty = 0 /\ holding' = NoRow
        \/ holding' \in Holding /\ holding'.qty = pos.qty /\ (holding'.active <=> pos.qty > 0)
    BY <2>1, <2>2, SyncedIs
  <2>4. TrueBank' = TrueBank /\ TrueCash' = CashOf(ts) /\ SharesOf(trades)' = SharesOf(ts)
        /\ CashOf(ts) \in Int
    BY <1>1, <2>2, TradesChange, BooksAreInt
  <2>5. CashOf(ts) = TrueCash + (TradeColumn(ts)[of] - TradeColumn(trades)[of])
    BY <1>1, LogChanges DEF TrueCash
  <2>6. balance' \in [Accounts -> Int] /\ balance'["bank"] = balance["bank"]
          /\ balance'["cash"] = CashOf(ts)
    BY <1>1, <2>2, <2>4 DEF DataOK, Accounts
  <2>7. NoRow \notin Holding
    BY InvestmentsAssumption
  <2>8. LedgerIsTruth'
    BY <1>1, <2>1, <2>3, <2>4, <2>6, <2>7 DEF LedgerIsTruth
  <2>9. DataOK'
    BY <1>1, <2>1, <2>2, <2>3, <2>6, <2>7 DEF DataOK, Log
  <2>10. Inv'
    <3>1. \A q \in Procs : trades[q] # NoRow => trades'[q] # NoRow
      BY <2>2
    <3>2. \A q \in Procs \ {p} : trades[q] = NoRow => trades'[q] = NoRow
      BY <2>2
    <3>3. holding # NoRow => holding' # NoRow
      BY <2>3, <2>7
    <3>4. \A q \in Procs \ {p} : lock["holding"] = q /\ holding # NoRow => holding' = holding
      <4>1. At(p, {"buy"} \cup Edits, "ready")
        BY DEF At
      <4> QED
        BY <4>1, HoldingIsFree
    <3> QED
      BY <1>1, <2>2, <2>8, <2>9, <3>1, <3>2, <3>3, <3>4, WriteInv
  <2> QED
    BY <2>2, <2>4, <2>5, <2>10
<1> QED
  BY <1>1, <1>2, <1>3

LEMMA AmountIsInt ==
  ASSUME NEW t \in Trade
  PROVE  Amount(t) \in Int /\ (t.side = "buy" => Amount(t) <= 0) /\ (t.side = "sell" => Amount(t) >= 0)
<1>1. t.qty \in Nat /\ t.price \in Nat
  BY DEF Trade
<1>2. t.qty * t.price \in Nat
  BY <1>1, Products
<1> QED
  BY <1>1, <1>2 DEF Amount

\* An edit is refused for a purchase that costs more than there is.
LEMMA CommitUpdateInv ==
  ASSUME Inv, NEW p \in Procs, CommitUpdate(p)
  PROVE  Inv' /\ (pc'[p] = "done" => Guards(p))
<1> DEFINE r == req[p]
           t == trades[r.of]
           ts == Edited(r)
<1>1. /\ At(p, Edits, "ready") /\ MayGoOn(p) /\ pc[p] \in Begun /\ "rejected" \in Finished
      /\ Refuse(p, "rejected") \/ (t.active /\ Replace(p, ts, Affordable(r)))
  BY DEF CommitUpdate, At, Begun, Finished, Edits
<1>2. CASE Refuse(p, "rejected")
  <2>1. Inv'
    BY <1>1, <1>2, RefuseInv
  <2>2. pc'[p] # "done"
    BY <1>2 DEF Refuse, Finish, Inv, ControlOK
  <2> QED
    BY <2>1, <2>2
<1>3. CASE t.active /\ Replace(p, ts, Affordable(r))
  <2>1. /\ r \in Request /\ r.of \in Procs /\ r.qty \in Nat \ {0} /\ r.price \in Nat \ {0}
        /\ r.date \in Nat /\ r.op \in Edits
    BY <1>1, RequestIs DEF Inv, At
  <2> HIDE DEF r
  <2>2. /\ trades \in Log /\ t # NoRow /\ t \in Trade /\ DataOK
    <3>1. Made(r.of) /\ DataOK
      BY <1>1 DEF Inv, Knows, r
    <3> QED
      BY <2>1, <3>1 DEF DataOK, Log, Made
  <2>3. PICK u : u = [t EXCEPT !.qty = r.qty, !.price = r.price, !.date = r.date]
    OBVIOUS
  <2>4. ts = [trades EXCEPT ![r.of] = u]
    BY <2>3 DEF Edited
  <2> HIDE DEF t, ts
  <2>5. u \in Trade /\ u.side = t.side /\ u.active = t.active
    BY <2>1, <2>2, <2>3 DEF Trade
  <2>6. u # NoRow
    BY <2>5, InvestmentsAssumption
  <2>7. ts \in Log /\ ts[r.of] = u /\ \A q \in Procs \ {r.of} : ts[q] = trades[q]
    BY <2>1, <2>2, <2>4, <2>5 DEF Log
  <2>8. trades[r.of] = t
    BY DEF t
  <2>9. /\ Inv'
        /\ pc'[p] = "done" =>
             /\ Affordable(r) /\ TrueCash' = CashOf(ts)
             /\ CashOf(ts) = TrueCash + (TradeColumn(ts)[r.of] - TradeColumn(trades)[r.of])
    BY <1>1, <1>3, <2>1, <2>2, <2>6, <2>7, <2>8, ReplaceInv
  <2>10. TradeColumn(ts)[r.of] = Amount(u) /\ TradeColumn(trades)[r.of] = Amount(t)
    BY <1>3, <2>1, <2>2, <2>5, <2>6, <2>7, <2>8 DEF TradeColumn, ActiveIn
  <2>11. TrueCash \in Int /\ Amount(u) \in Int /\ Amount(t) \in Int
    BY <2>2, <2>5, BooksAreInt, AmountIsInt DEF TrueCash
  <2>12. ASSUME pc'[p] = "done" PROVE Guards(p)
    <3>1. ~(CashOf(ts) < 0 /\ ts[r.of].side = "buy" /\ Amount(ts[r.of]) < Amount(trades[r.of]))
      BY <2>9, <2>12 DEF Affordable, ts
    <3>2. t.side \in {"buy", "sell"}
      BY <2>2 DEF Trade, Trades
    <3> QED
      BY <2>1, <2>5, <2>7, <2>8, <2>9, <2>10, <2>11, <2>12, <3>1, <3>2 DEF Guards, r
  <2> QED
    BY <2>9, <2>12
<1> QED
  BY <1>1, <1>2, <1>3

\* What a purchase has cost comes back when it is undone.
LEMMA CommitReverseInv ==
  ASSUME Inv, NEW p \in Procs, CommitReverse(p)
  PROVE  Inv' /\ (pc'[p] = "done" => Guards(p))
<1> DEFINE r == req[p]
           t == trades[r.of]
           u == [t EXCEPT !.active = FALSE]
           ts == [trades EXCEPT ![r.of] = u]
<1>1. At(p, Edits, "ready") /\ MayGoOn(p) /\ pc[p] \in Begun /\ Replace(p, ts, TRUE)
  BY DEF CommitReverse, At, Begun, Edits
<1>2. r \in Request /\ r.of \in Procs /\ r.op \in Edits
  BY <1>1, RequestIs DEF Inv, At
<1>3. trades \in Log /\ t # NoRow /\ t \in Trade /\ DataOK
  <2>1. Made(r.of) /\ DataOK
    BY <1>1 DEF Inv, Knows
  <2> HIDE DEF r
  <2> QED
    BY <1>2, <2>1 DEF DataOK, Log, Made
<1>4. u \in Trade /\ ~u.active
  BY <1>3 DEF Trade
<1>5. u # NoRow
  BY <1>4, InvestmentsAssumption
<1> HIDE DEF r, t, u
<1>6. ts \in Log /\ ts[r.of] = u /\ \A q \in Procs \ {r.of} : ts[q] = trades[q]
  BY <1>2, <1>3, <1>4 DEF Log
<1>7. trades[r.of] = t
  BY DEF t
<1> HIDE DEF ts
<1>8. /\ Inv'
      /\ pc'[p] = "done" =>
           /\ TrueCash' = CashOf(ts)
           /\ CashOf(ts) = TrueCash + (TradeColumn(ts)[r.of] - TradeColumn(trades)[r.of])
  BY <1>1, <1>2, <1>3, <1>5, <1>6, <1>7, ReplaceInv
<1>9. /\ TradeColumn(ts)[r.of] = 0
      /\ TradeColumn(trades)[r.of] = (IF t.active THEN Amount(t) ELSE 0)
  BY <1>2, <1>3, <1>4, <1>6, <1>7 DEF TradeColumn, ActiveIn
<1>10. TrueCash \in Int /\ Amount(t) \in Int /\ (t.side = "buy" => Amount(t) <= 0)
  BY <1>3, BooksAreInt, AmountIsInt DEF TrueCash
<1>11. ASSUME pc'[p] = "done" PROVE Guards(p)
  <2>1. t.side \in {"buy", "sell"}
    BY <1>3 DEF Trade, Trades
  <2> QED
    BY <1>2, <1>7, <1>8, <1>9, <1>10, <1>11, <2>1 DEF Guards, r
<1> QED
  BY <1>8, <1>11
-----------------------------------------------------------------------------
(* Every step.                                                             *)

LEMMA InvInit == Init => Inv
<1> SUFFICES ASSUME Init PROVE Inv
  OBVIOUS
<1>1. ControlOK /\ DataOK
  BY InvestmentsAssumption DEF Init, ControlOK, DataOK, Accounts, Begun
<1>2. Holders
  BY InvestmentsAssumption DEF Init, Holders
<1>3. \A p \in Procs : Knows(p)
  BY DEF Init, Knows, At
<1>4. LedgerIsTruth
  <2>1. flows \in Flown /\ trades \in Log /\ IsFiniteSet(Procs)
    BY <1>1, InvestmentsAssumption DEF DataOK, Flown, Log
  <2>2. /\ BankColumn(flows) \in [Procs -> Int] /\ CashColumn(flows) \in [Procs -> Int]
        /\ TradeColumn(trades) \in [Procs -> Int] /\ ShareColumn(trades) \in [Procs -> Int]
    BY <2>1, ColumnsAreInt
  <2>3. \A p \in Procs : /\ BankColumn(flows)[p] = 0 /\ CashColumn(flows)[p] = 0
                         /\ TradeColumn(trades)[p] = 0 /\ ShareColumn(trades)[p] = 0
    BY DEF Init, BankColumn, CashColumn, TradeColumn, ShareColumn, ActiveIn
  <2>4. /\ SumFunction(BankColumn(flows)) = 0 /\ SumFunction(CashColumn(flows)) = 0
        /\ SumFunction(TradeColumn(trades)) = 0 /\ SumFunction(ShareColumn(trades)) = 0
    BY <2>1, <2>2, <2>3, SumZero
  <2>5. TrueBank = Opening /\ TrueCash = 0 /\ SharesOf(trades) = 0
    BY <2>4, Books, InvestmentsAssumption DEF TrueCash
  <2> QED
    BY <2>5 DEF Init, LedgerIsTruth, Accounts
<1> QED
  BY <1>1, <1>2, <1>3, <1>4 DEF Inv

\* Every step keeps the invariant, and only the request that makes it moves.
LEMMA InvNext ==
  ASSUME Inv, [Next]_vars
  PROVE  /\ Inv'
         /\ \A p \in Procs : pc[p] = "ready" /\ pc'[p] = "done" => Guards(p)
<1>1. CASE UNCHANGED vars
  <2>0. /\ UNCHANGED data /\ flows' = flows /\ trades' = trades /\ balance' = balance
        /\ holding' = holding /\ lock' = lock /\ pc' = pc /\ req' = req /\ seen' = seen
    BY <1>1 DEF vars, data
  <2>1. ControlOK' /\ Holders' /\ DataOK' /\ \A p \in Procs : Knows(p)'
    <3>1. ControlOK' /\ DataOK'
      BY <2>0 DEF Inv, ControlOK, DataOK
    <3>2. Holders'
      BY <2>0 DEF Inv, Holders, HeldBy, At
    <3>3. \A p \in Procs : Knows(p)'
      BY <2>0 DEF Inv, Knows, At, Made
    <3> QED
      BY <3>1, <3>2, <3>3
  <2>2. LedgerIsTruth'
    BY <2>0, TruthStays DEF Inv
  <2> QED
    BY <2>0, <2>1, <2>2 DEF Inv
<1>2. ASSUME NEW p \in Procs, Begin(p) \/ Abort(p) \/ GiveUp(p) \/ Step(p)
      PROVE  /\ Inv'
             /\ \A q \in Procs : pc[q] = "ready" /\ pc'[q] = "done" => Guards(q)
  <2>1. ControlOK
    BY DEF Inv
  <2>2. \A q \in Procs \ {p} : pc'[q] = pc[q]
    BY <1>2, <2>1 DEF ControlOK, Begin, Abort, GiveUp, Step, Refuse, Finish, Lookup, LockFirst,
       LockCash, Goto, CommitFlow, CommitBuy, CommitSell, CommitUpdate, CommitReverse, Book, Replace
  <2>3. CASE Begin(p)
    BY <2>1, <2>2, <2>3, BeginInv DEF Begin, ControlOK
  <2>4. CASE Abort(p) \/ GiveUp(p)
    <3>1. pc[p] \in Begun /\ Refuse(p, "aborted") /\ "aborted" \in Finished
      BY <2>4 DEF Abort, GiveUp, InFlight, Finished
    <3>2. pc'[p] = "aborted"
      BY <2>1, <3>1 DEF Refuse, Finish, ControlOK
    <3> QED
      BY <2>2, <3>1, <3>2, RefuseInv
  <2>5. CASE Lookup(p)
    <3>1. pc[p] = "begun"
      BY <2>5 DEF Lookup
    <3> QED
      BY <2>2, <2>5, <3>1, LookupInv
  <2>6. CASE LockFirst(p)
    <3>1. pc[p] = "found"
      BY <2>6 DEF LockFirst, At
    <3> QED
      BY <2>2, <2>6, <3>1, LockFirstInv
  <2>7. CASE LockCash(p)
    <3>1. pc[p] # "ready"
      BY <2>7 DEF LockCash, At
    <3> QED
      BY <2>2, <2>7, <3>1, LockCashInv
  <2>8. CASE CommitFlow(p)
    BY <2>2, <2>8, CommitFlowInv
  <2>9. CASE CommitBuy(p)
    BY <2>2, <2>9, CommitBuyInv
  <2>10. CASE CommitSell(p)
    BY <2>2, <2>10, CommitSellInv
  <2>11. CASE CommitUpdate(p)
    BY <2>2, <2>11, CommitUpdateInv
  <2>12. CASE CommitReverse(p)
    BY <2>2, <2>12, CommitReverseInv
  <2> QED
    BY <1>2, <2>3, <2>4, <2>5, <2>6, <2>7, <2>8, <2>9, <2>10, <2>11, <2>12 DEF Step
<1> QED
  BY <1>1, <1>2 DEF Next

\* Whatever requests run at the same time, what they keep true stays true.
THEOREM InvestmentsInvariant == Spec => []Inv
<1>1. Init => Inv
  BY InvInit
<1>2. Inv /\ [Next]_vars => Inv'
  BY InvNext
<1> QED
  BY <1>1, <1>2, PTL DEF Spec

\* Every variable keeps its type, and no interleaving of purchases, sales, edits and
\* undone trades leaves a holding that owes shares.
THEOREM InvestmentsTypeCorrect == Spec => []TypeOK
<1>1. Inv => TypeOK
  BY TypeIs DEF Inv
<1> QED
  BY <1>1, InvestmentsInvariant, PTL

\* The holding has the shares that the active trades leave and is open exactly when
\* there are any, and both cached balances are what the transactions come to, for any
\* number of requests in flight.
THEOREM HoldingAndCachesAreTrue == Spec => []LedgerIsTruth
<1>1. Inv => LedgerIsTruth
  BY DEF Inv
<1> QED
  BY <1>1, InvestmentsInvariant, PTL

\* Requests that wait for one another are a deposit and a withdrawal, or a sale and a
\* purchase or an edit, however many of them there are.
THEOREM OnlyDifferentKindsDeadlock == Spec => []SameKindSerializes
<1>1. Inv => SameKindSerializes
  BY HoldersSerialize DEF Inv
<1> QED
  BY <1>1, InvestmentsInvariant, PTL

\* What takes the cash of the account below zero is the edit of a sale or its undoing,
\* never a withdrawal, a purchase or the edit of one.
THEOREM CashIsGuarded == Spec => CashGuarded
<1> DEFINE Guarded ==
      \A p \in Procs :
        /\ pc[p] = "ready" /\ pc'[p] = "done"
        /\ TrueCash' < TrueCash /\ TrueCash' < 0
        => req[p].op \in Edits /\ trades[req[p].of].side = "sell"
<1>1. Inv /\ [Next]_vars => [Guarded]_vars
  BY InvNext DEF Guards
<1> QED
  BY <1>1, InvestmentsInvariant, PTL DEF Spec, CashGuarded
=============================================================================
