SPECIFICATION Spec
CONSTANTS
  d1 = d1
  d2 = d2
  p1 = p1
  p2 = p2
  alice = alice
  bob = bob
  None = None
  Deployments = {d1, d2}
  Programs = {p1, p2}
  Developers = {alice, bob}
  ProgramOf <- TwoPrograms
  DeveloperOf <- TwoDevelopers
  EstimatedPrograms = {}
  Cost = 4
  Rent = 2
  SweepFee = 1
  InitialTreasury = 8
  InitialLiquid = {0, 8}
  TotalStaked = 8
  SyncThreshold = 0
  MaxMishaps = 2
  MaxCrashes = 1
INVARIANT FullInv
INVARIANT StuckOnlyByFinalWrite
INVARIANT CleanRunSucceeds
INVARIANT StrandedOnlyByLateMishap
PROPERTY SuccessIsFinal
CHECK_DEADLOCK FALSE
