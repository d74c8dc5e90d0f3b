CONSTANTS
  cop = cop
  usd = usd
  Lengths <- MCLengths
  FirstWeekday = 4
  Cap = 500
  Currencies = {cop, usd}
  Home = cop
  Rate <- MCRate
  Templates <- MCTemplates
  Bills <- MCBills
  Dues <- MCDues
  Salary <- TwiceAMonth
  Bonuses <- MCBonuses
  Estimate <- MCEstimate
  Target = 2
  Tolerance = 15
  Opening <- MCOpening
  FirstDay = 28
  LastDay = 43
  Early = 2
  MaxInvested = 1
SPECIFICATION Spec
CHECK_DEADLOCK FALSE
INVARIANTS ReceivedIsInCash
