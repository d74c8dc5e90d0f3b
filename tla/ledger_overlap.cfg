CONSTANTS
  A = A
  B = B
  Pocket = Pocket
  Card = Card
  p1 = p1
  p2 = p2
  p3 = p3
  k1 = k1
  k2 = k2
  NoAccount = NoAccount
  NoProc = NoProc
  NoRow = NoRow
  NoRequest = NoRequest
  ServerKey = ServerKey
  Accounts <- MCAccounts
  Cards <- MCCards
  Parent <- MCParent
  Opening <- FundedOpening
  CreditLimit <- MCLimit
  Keys = {k1, k2}
  InitiallyOpen = {A, B, Card}
  Procs = {p1, p2, p3}
  MaxInFlight = 3
  RequestsOf <- LockedRequests
  Amounts = {0, 1, 2, 3, 4}
SPECIFICATION FairSpec
INVARIANTS NoOverdraft SourceCacheExact OncePerKey
PROPERTIES ImplementsBank RequestsTerminate ReconciliationRepairs
