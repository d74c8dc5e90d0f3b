CONSTANTS
  deposit = deposit
  payment = payment
  expense = expense
  t1 = t1
  t2 = t2
  c1 = c1
  c2 = c2
  Forms = {deposit, payment, expense}
  Targets = {t1, t2}
  Policy <- MCPolicy
  Patient = {payment, expense}
  Redrawing = {payment}
  Scoped = {payment}
  Slots = {c1, c2}
  Limit = 1
  MaxOpenings = 3
  MaxKeys = 3
SYMMETRY Symmetry
SPECIFICATION Spec
CHECK_DEADLOCK FALSE
INVARIANT RetriesReuseKey
