---------------------------------- MODULE Fees ----------------------------------
(***************************************************************************)
(* What a deployment is quoted, in lamports: the rent of the account the   *)
(* CLI writes the program to, plus a reserve, and three fees that are      *)
(* shares of that sum.  The code computes the fees in floating point;      *)
(* the rounded results are those of exact arithmetic, except that the      *)
(* estimate of the rent may come out one lamport higher.                   *)
(***************************************************************************)
EXTENDS Integers

CONSTANT RentBuffer   \* DEPLOYMENT_RENT_BUFFER_LAMPORTS, 6,000,000 by default

\* What the estimate of the rent below may lack, whatever the size.
EstimateGap == 6960 * 128 - 3480 * 45

ASSUME RentBufferAssumption == RentBuffer \in Nat /\ EstimateGap <= RentBuffer

PerThousand(part, amount) == (part * amount + 999) \div 1000   \* rounded up

\* One byte for the type, a tagged authority, then the program.
CalculateBufferAccountSize(programSize) == 1 + 4 + 32 + programSize

\* getMinimumBalanceForRentExemption: two years of rent on 128 bytes more.
ClusterRent(size) == 6960 * (size + 128)

\* The estimate, when the cluster cannot be asked.
CalculateRentExemption(size) == 3480 * (2 * size + 45)
Estimates(size) == {CalculateRentExemption(size), CalculateRentExemption(size) + 1}

CalculateServiceFee(rentCost)            == PerThousand(5, rentCost)
CalculateDeploymentPlatformFee(rentCost) == PerThousand(1, rentCost)
CalculateMonthlyFee(deploymentCost)      == PerThousand(10, deploymentCost)
InitialMonths == 1

CalculateTotalPayment(rentCost) ==
  CalculateServiceFee(rentCost) + CalculateDeploymentPlatformFee(rentCost)
    + CalculateMonthlyFee(rentCost) * InitialMonths

\* The amounts of a quote, which a request names again.
Amounts == {"service", "platform", "monthly", "months", "cost"}

Breakdown(rentCost) ==
  [service  |-> CalculateServiceFee(rentCost),
   platform |-> CalculateDeploymentPlatformFee(rentCost),
   monthly  |-> CalculateMonthlyFee(rentCost),
   months   |-> InitialMonths,
   cost     |-> rentCost]

Pools == {"reward", "platform"}

\* The amounts of a request as executeDeploy expects them to be paid.
PoolShare(fees) ==
  [reward   |-> fees.monthly * fees.months + fees.service,
   platform |-> fees.platform]
=============================================================================
