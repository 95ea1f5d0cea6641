SPECIFICATION Spec
CONSTANTS
  d1 = d1
  d2 = d2
  alice = alice
  bob = bob
  c1 = c1
  c2 = c2
  t1 = t1
  t2 = t2
  None = None
  Calls = {c1, c2}
  Deployments = {d1, d2}
  Users = {alice, bob}
  OwnerOf <- Owners
  Stamps = {t1, t2}
  Rent = 6
  TxFee = 1
  MinBalance = 4
  Extra = 2
  Keep = 2
  Leftover = {0}
  InitialAdmin = 10
  MaxMishaps = 1
  MaxCrashes = 1
INVARIANT FullInv
INVARIANT ClosedIsGone
INVARIANT OkIsBackedAndRecorded
INVARIANT KeyFilesRemoved
INVARIANT UnrecordedOnlyByMishap
INVARIANT RefusalIsExplained
INVARIANT CleanCloseReturnsAll
PROPERTY ImplementsCustody
CHECK_DEADLOCK FALSE
SYMMETRY Symmetry
