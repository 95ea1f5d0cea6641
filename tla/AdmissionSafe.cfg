SPECIFICATION Spec
CONSTANTS
  c1 = c1
  c2 = c2
  u1 = u1
  u2 = u2
  p = p
  s1 = s1
  s2 = s2
  fake = fake
  None = None
  Calls = {c1, c2}
  Users = {u1, u2}
  Programs = {p}
  Sigs = {s1, fake}
  Simulated = {fake}
  Sizes = {10000, 20000}
  AccountSize = 36
  Forms <- MCForms
  Bodies <- MCBodies
  MaxTries = 2
  TxFee = 5000
  FeeEstimate = 10000
  RequestRent = 2338560
  StatsRent = 1642560
  MinAirdrop = 1000000000
  AirdropMargin = 100000000
  InitialAdmin = 4500000
  RentBuffer = 6000000
  Tolerance = 1000000
  MaxMishaps = 1
INVARIANT IInv
INVARIANT AdmittedIsPaid
INVARIANT HonestPaymentAccepted
INVARIANT QuoteCoversRent
INVARIANT StatsExplained
INVARIANT WarnedIsRefused
CHECK_DEADLOCK FALSE
SYMMETRY Symmetry
