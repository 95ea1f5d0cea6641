SPECIFICATION FairSpec
CONSTANTS
  d1 = d1
  d2 = d2
  alice = alice
  bob = bob
  c1 = c1
  c2 = c2
  t1 = t1
  t2 = t2
  None = None
  Calls = {c1, c2}
  Deployments = {d1}
  Users = {alice}
  OwnerOf <- OneOwner
  Stamps = {t1, t2}
  Rent = 6
  TxFee = 1
  MinBalance = 4
  Extra = 2
  Keep = 2
  Leftover = {0, 5}
  InitialAdmin = 10
  MaxMishaps = 2
  MaxCrashes = 1
PROPERTY EveryCallEnds
CHECK_DEADLOCK FALSE
