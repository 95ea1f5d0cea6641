SPECIFICATION Spec
CONSTANTS
  w1 = w1
  w2 = w2
  t1 = t1
  t2 = t2
  t3 = t3
  t4 = t4
  None = None
  Wallets = {w1}
  Tasks = {t1,t2,t3}
  Amounts = {0,5}
  MinDeposit = 1
  Cent = 24
  MaxTime = 3
  MaxChanges = 1
  MaxMishaps = 0
INVARIANT PointsKeepUp
CHECK_DEADLOCK FALSE
SYMMETRY Symmetry
