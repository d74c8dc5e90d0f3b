CONSTANTS
  A = A
  G = G
  H = H
  p1 = p1
  p2 = p2
  p3 = p3
  p4 = p4
  k1 = k1
  k2 = k2
  NoProc = NoProc
  NoRow = NoRow
  NoRequest = NoRequest
  Goals = {G, H}
  Accounts = {A}
  Keys = {k1, k2}
  Opening <- MCOpening
  Target <- MCTarget
  Amounts = {1, 2}
  Legacy <- NoLegacy
  Procs = {p1, p2, p3, p4}
  Daemons = {p4}
  MaxInFlight = 4
  RequestsOf <- SavingsRequests
SPECIFICATION FairSpec
INVARIANTS CacheTracksSaved CompletedIffReached
PROPERTIES ImplementsEnvelopes EventuallyReconciled
