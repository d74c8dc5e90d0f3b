CONSTANTS
  p1 = p1
  p2 = p2
  p3 = p3
  p4 = p4
  k0 = k0
  k1 = k1
  k2 = k2
  k3 = k3
  NoProc = NoProc
  NoRow = NoRow
  NoRequest = NoRequest
  Opening = 12
  Rate = 2
  Procs = {p1, p2, p3, p4}
  Keys = {k0, k1, k2, k3}
  MaxInFlight = 1
  RequestsOf <- InvestmentRequests
SPECIFICATION Spec
CHECK_DEADLOCK FALSE
INVARIANTS AverageIsOfOneShare
