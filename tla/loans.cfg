CONSTANTS
  A = A
  p1 = p1
  p2 = p2
  p3 = p3
  p4 = p4
  k0 = k0
  k1 = k1
  k2 = k2
  NoProc = NoProc
  NoRow = NoRow
  NoRequest = NoRequest
  NoAccount = NoAccount
  LoanRow = LoanRow
  Unit = 4
  Accounts = {A}
  Opening <- MCOpening
  MaxTerm = 3
  Keys = {k0, k1, k2}
  Amounts = {0, 1, 2, 3, 4}
  Procs = {p1, p2, p3, p4}
  MaxInFlight = 2
  RequestsOf <- LoanRequests
SPECIFICATION Spec
CHECK_DEADLOCK FALSE
INVARIANTS TypeOK NoDeadlock DeletedHasNoPending
PROPERTIES HistoryKept CompletesOnlyWhenSettled CacheFollows RebuildCarriesDebt ImplementsDebt
