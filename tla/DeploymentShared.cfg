SPECIFICATION FairSpec
CONSTANTS
  d1 = d1
  d2 = d2
  p1 = p1
  p2 = p2
  alice = alice
  bob = bob
  None = None
  Deployments = {d1, d2}
  Programs = {p1, p2}
  Developers = {alice, bob}
  ProgramOf <- OneProgram
  DeveloperOf <- OneDeveloper
  EstimatedPrograms = {p1}
  Cost = 4
  Rent = 2
  SweepFee = 1
  InitialTreasury = 8
  InitialLiquid = {0, 8}
  TotalStaked = 8
  SyncThreshold = 0
  MaxMishaps = 1
  MaxCrashes = 1
INVARIANT FundedOnce
INVARIANT OneProgramPerRun
INVARIANT ActiveRequestIsLive
INVARIANT AuthorityOnDisk
INVARIANT SuccessIsBacked
INVARIANT SweptAtEnd
PROPERTY ImplementsEscrow
PROPERTY EveryRunEnds
CHECK_DEADLOCK FALSE
