SPECIFICATION Spec
CONSTANTS
  w1 = w1
  w2 = w2
  t1 = t1
  t2 = t2
  t3 = t3
  t4 = t4
  None = None
  Wallets = {w1}
  Tasks = {t1,t2}
  Amounts = {0,2}
  MinDeposit = 1
  Cent = 2
  MaxTime = 2
  MaxChanges = 1
  MaxMishaps = 0
INVARIANT PointsNeedHoldTime
CHECK_DEADLOCK FALSE
