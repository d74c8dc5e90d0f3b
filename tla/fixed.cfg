CONSTANTS
  T = T
  U = U
  A = A
  B = B
  cop = cop
  usd = usd
  p1 = p1
  p2 = p2
  p3 = p3
  p4 = p4
  k1 = k1
  k2 = k2
  NoProc = NoProc
  NoRow = NoRow
  NoRequest = NoRequest
  NoKey = NoKey
  Templates = {T, U}
  Accounts = {A, B}
  Currencies = {cop, usd}
  Opening <- MCOpening
  CurrencyOf <- MCCurrencyOf
  Initial <- MCInitial
  LastDay = 1
  Back = 1
  Ahead = 1
  Keys = {k1, k2}
  Amounts = {0, 1, 2}
  Procs = {p1, p2, p3, p4}
  Daemons = {p4}
  MaxInFlight = 4
  RequestsOf <- FixedRequests
SPECIFICATION FairSpec
INVARIANTS TypeOK PaidByItsEntry AnswerIsTrue FollowsPlan
PROPERTIES RemovedForGood ImplementsBills CalendarFilled
