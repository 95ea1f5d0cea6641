SPECIFICATION Spec
CONSTANTS
  w1 = w1
  w2 = w2
  c1 = c1
  c2 = c2
  c3 = c3
  Backers = {w1, w2}
  Calls = {c1, c2, c3}
  Fees = {4}
  Stakes = {0, 1}
  Amounts = {2}
  Precision = 1
  Reserve = 1
  MaxMoves = 2
  MaxMishaps = 0
INVARIANT OnlyExcessWithdrawn
CHECK_DEADLOCK FALSE
SYMMETRY Symmetry
