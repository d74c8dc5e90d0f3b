CONSTANTS
  A = A
  B = B
  Pocket = Pocket
  Card = Card
  p1 = p1
  p2 = p2
  p3 = p3
  k1 = k1
  k2 = k2
  NoAccount = NoAccount
  NoProc = NoProc
  NoRow = NoRow
  NoRequest = NoRequest
  ServerKey = ServerKey
  Accounts <- MCAccounts
  Cards <- MCCards
  Parent <- MCParent
  Opening <- MCOpening
  CreditLimit <- MCLimit
  Keys = {k1, k2}
  InitiallyOpen = {A, B, Card}
  Procs = {p1, p2, p3}
  MaxInFlight = 1
  RequestsOf <- SerialRequests
  Amounts = {0, 1, 2, 3, 4}
SPECIFICATION Spec
INVARIANTS ReversalUndoes CacheExactWhenQuiet ClosedIsEmpty WithinLimit
