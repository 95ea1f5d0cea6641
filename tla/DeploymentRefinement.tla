-------------------------- MODULE DeploymentRefinement --------------------------
(***************************************************************************)
(* Every step of Deployment is a step of TreasuryEscrow or leaves the      *)
(* escrow alone.  A step is quiet when the escrow does not see it; the     *)
(* others open, draw, return, succeed or fail.                             *)
(***************************************************************************)
EXTENDS DeploymentProofs

Held(d) == wallet[d] + buffer[d] + program[d]
Told(d) == IF status[d] \in {"pending", "dumping", "deploying"} THEN "open"
                                                               ELSE status[d]

Quiet(d) == Held(d)' = Held(d) /\ drawn'[d] = drawn[d] /\ Told(d)' = Told(d)

EscrowStep == [Escrow!EscrowNext]_(Escrow!escrowVars)

LEMMA QuietStep ==
  ASSUME IInv, IInv', UNCHANGED treasury, \A d \in Deployments : Quiet(d)
  PROVE  EscrowStep
<1>1. drawn' = drawn BY DEF IInv, TypeOK, Quiet
<1> QED BY <1>1 DEF EscrowStep, Escrow!escrowVars, Quiet, Held, Told

-----------------------------------------------------------------------------
(* The steps the escrow sees. *)

LEMMA OpenStep ==
  ASSUME IInv, NEW d \in Deployments, ExecuteDeploy(d)
  PROVE  EscrowStep
<1> USE DEF IInv, TypeOK, RunInv, ExecuteDeploy, SetStatus, poolVars, purseVars
<1>1. status[d] = "none" BY DEF StatusInv
<1>2. status' = [status EXCEPT ![d] = "pending"] OBVIOUS
<1>3. Escrow!Open(d) BY <1>1, <1>2 DEF Escrow!Open
<1> QED BY <1>3 DEF EscrowStep, Escrow!EscrowNext

LEMMA DrawStep ==
  ASSUME IInv, NEW d \in Deployments, PayWallet(d), drawn[d] = 0,
         status[d] \notin {"none", "success"}, UNCHANGED <<status, buffer, program>>
  PROVE  EscrowStep
<1> USE DeploymentAssumption DEF IInv, TypeOK, PayWallet, CanFund
<1>1. drawn' = [drawn EXCEPT ![d] = Cost]
  <2>1. drawn[d] + Cost = Cost OBVIOUS
  <2> QED BY <2>1
<1>2. \A e \in Deployments : Held(e)' = IF e = d THEN Held(d) + Cost ELSE Held(e)
  BY DEF Held
<1>3. Told(d) \in {"open", "failed"} BY DEF Told, Status
<1>4. Escrow!Draw(d) BY <1>1, <1>2, <1>3 DEF Escrow!Draw, Held, Told
<1> QED BY <1>4 DEF EscrowStep, Escrow!EscrowNext

\* Nothing is drawn yet and the row is neither missing nor a success.
LEMMA BeforeDraw ==
  ASSUME IInv, NEW d \in Deployments,
         d \in fundInFlight \/ pc[d] \in FundingCalls
  PROVE  drawn[d] = 0 /\ status[d] \notin {"none", "success"}
<1> USE DeploymentAssumption DEF IInv, TypeOK, RunInv
<1>1. drawn[d] = 0 BY DEF MoneyInv, Unfunded
<1>2. program[d] = 0 BY <1>1 DEF MoneyInv
<1>3. pc[d] # "idle" BY DEF MoneyInv, Unfunded, FundingCalls
<1> QED BY <1>1, <1>2, <1>3 DEF StatusInv

LEMMA ReturnStep ==
  ASSUME IInv, NEW d \in Deployments, UNCHANGED <<status, buffer, program, drawn>>,
         wallet[d] - SweepFee > 0, wallet' = [wallet EXCEPT ![d] = 0],
         treasury' = treasury + (wallet[d] - SweepFee)
  PROVE  EscrowStep
<1> USE DeploymentAssumption DEF IInv, TypeOK
<1> DEFINE back == wallet[d] - SweepFee
           out == [e \in Deployments |-> Held(e)]
<1>1. back \in 0 .. out[d] /\ SweepFee \in 0 .. out[d] - back BY DEF Held
<1>2. out[d] - back - SweepFee = buffer[d] + program[d] BY DEF Held
<1>3. out' = [out EXCEPT ![d] = @ - back - SweepFee]
  <2>1. \A e \in Deployments :
          Held(e)' = IF e = d THEN buffer[d] + program[d] ELSE Held(e)
    BY DEF Held
  <2>2. out' = [e \in Deployments |-> Held(e)'] OBVIOUS
  <2> HIDE DEF back
  <2> QED BY <1>2, <2>1, <2>2
<1>4. treasury' = treasury + back OBVIOUS
<1> HIDE DEF back, out
<1>5. CASE Told(d) # "success"
  <2>1. \E b \in 0 .. out[d] : \E fee \in 0 .. out[d] - b :
          treasury' = treasury + b /\ out' = [out EXCEPT ![d] = @ - b - fee]
    BY <1>1, <1>3, <1>4
  <2>2. Escrow!Return(d) BY <1>5, <2>1 DEF out, Escrow!Return, Held, Told
  <2> QED BY <2>2 DEF EscrowStep, Escrow!EscrowNext
<1>6. CASE Told(d) = "success"
  <2>1. out[d] - back - SweepFee >= Rent
    BY <1>2, <1>6 DEF Told, RunInv, StatusInv
  <2>2. \E b \in 0 .. out[d] : \E fee \in 0 .. out[d] - b :
          /\ out[d] - b - fee >= Rent
          /\ treasury' = treasury + b
          /\ out' = [out EXCEPT ![d] = @ - b - fee]
    BY <1>1, <1>3, <1>4, <2>1
  <2>3. Escrow!ReturnRest(d) BY <1>6, <2>2 DEF out, Escrow!ReturnRest, Held, Told
  <2> QED BY <2>3 DEF EscrowStep, Escrow!EscrowNext
<1> QED BY <1>5, <1>6

LEMMA SucceedStep ==
  ASSUME IInv, NEW d \in Deployments, pc[d] = "recordingSuccess",
         UNCHANGED <<wallet, buffer, program, drawn, treasury>>,
         status' = [status EXCEPT ![d] = "success"]
  PROVE  EscrowStep
<1> USE DeploymentAssumption DEF IInv, TypeOK, RunInv
<1>1. Told(d) = "open" BY DEF Told, Status, StatusInv, CatchCalls, Stopped
<1>2. Held(d) >= Rent BY DEF Held, CliInv, ConfirmCalls
<1>3. Escrow!Succeed(d) BY <1>1, <1>2 DEF Escrow!Succeed, Held, Told
<1> QED BY <1>3 DEF EscrowStep, Escrow!EscrowNext

LEMMA FailStep ==
  ASSUME IInv, NEW d \in Deployments, pc[d] \in {"failingRequest", "catchRecord"},
         UNCHANGED <<wallet, buffer, program, drawn, treasury>>,
         status' = [status EXCEPT ![d] = "failed"]
  PROVE  EscrowStep
<1> USE DeploymentAssumption DEF IInv, TypeOK, RunInv
<1>1. Told(d) \in {"open", "success"} BY DEF Told, Status, StatusInv
<1>2. Escrow!Fail(d) BY <1>1 DEF Escrow!Fail, Held, Told
<1> QED BY <1>2 DEF EscrowStep, Escrow!EscrowNext

-----------------------------------------------------------------------------
(* The steps of a run. *)

LEMMA CreateDeployRequestMaps ==
  ASSUME IInv, IInv', NEW d \in Deployments, CreateDeployRequest(d)
  PROVE  EscrowStep
<1> USE DeploymentAssumption DEF IInv, TypeOK, RunInv, CreateDeployRequest,
      poolVars, purseVars, dbVars, Held, Told, Quiet
<1>1. UNCHANGED treasury /\ \A e \in Deployments : Quiet(e) OBVIOUS
<1> QED BY <1>1, QuietStep

LEMMA RecordRequestMaps ==
  ASSUME IInv, IInv', NEW d \in Deployments, RecordRequest(d)
  PROVE  EscrowStep
<1> USE DeploymentAssumption DEF IInv, TypeOK, RunInv, RecordRequest,
      poolVars, purseVars, dbVars, Held, Told, Quiet
<1>1. UNCHANGED treasury /\ \A e \in Deployments : Quiet(e) OBVIOUS
<1> QED BY <1>1, QuietStep

LEMMA LoadDeploymentMaps ==
  ASSUME IInv, IInv', NEW d \in Deployments, LoadDeployment(d)
  PROVE  EscrowStep
<1> USE DeploymentAssumption DEF IInv, TypeOK, RunInv, LoadDeployment,
      poolVars, purseVars, dbVars, Held, Told, Quiet
<1>1. UNCHANGED treasury /\ \A e \in Deployments : Quiet(e) OBVIOUS
<1> QED BY <1>1, QuietStep

LEMMA MarkDumpingMaps ==
  ASSUME IInv, IInv', NEW d \in Deployments, MarkDumping(d)
  PROVE  EscrowStep
<1> USE DeploymentAssumption DEF IInv, TypeOK, RunInv, MarkDumping, SetStatus,
      poolVars, purseVars, dbVars, Held, Told, Quiet, Status, StatusInv,
      CatchCalls, Stopped
<1>1. UNCHANGED treasury /\ \A e \in Deployments : Quiet(e) OBVIOUS
<1> QED BY <1>1, QuietStep

LEMMA DumpProgramMaps ==
  ASSUME IInv, IInv', NEW d \in Deployments, DumpProgram(d)
  PROVE  EscrowStep
<1> USE DeploymentAssumption DEF IInv, TypeOK, RunInv, DumpProgram, poolVars,
      purseVars, dbVars, Held, Told, Quiet
<1>1. UNCHANGED treasury /\ \A e \in Deployments : Quiet(e) OBVIOUS
<1> QED BY <1>1, QuietStep

LEMMA CheckTreasuryMaps ==
  ASSUME IInv, IInv', NEW d \in Deployments, CheckTreasury(d)
  PROVE  EscrowStep
<1> USE DeploymentAssumption DEF IInv, TypeOK, RunInv, CheckTreasury,
      poolVars, purseVars, dbVars, Held, Told, Quiet
<1>1. UNCHANGED treasury /\ \A e \in Deployments : Quiet(e) OBVIOUS
<1> QED BY <1>1, QuietStep

LEMMA SyncBeforeFundingMaps ==
  ASSUME IInv, IInv', NEW d \in Deployments, SyncBeforeFunding(d)
  PROVE  EscrowStep
<1> USE DeploymentAssumption DEF IInv, TypeOK, RunInv, SyncBeforeFunding,
      SyncLiquidBalance, poolVars, purseVars, dbVars, Held, Told, Quiet
<1>1. UNCHANGED treasury /\ \A e \in Deployments : Quiet(e) OBVIOUS
<1> QED BY <1>1, QuietStep

LEMMA SyncForRetryMaps ==
  ASSUME IInv, IInv', NEW d \in Deployments, SyncForRetry(d)
  PROVE  EscrowStep
<1> USE DeploymentAssumption DEF IInv, TypeOK, RunInv, SyncForRetry,
      SyncLiquidBalance, poolVars, purseVars, dbVars, Held, Told, Quiet
<1>1. UNCHANGED treasury /\ \A e \in Deployments : Quiet(e) OBVIOUS
<1> QED BY <1>1, QuietStep

LEMMA MarkDeployingMaps ==
  ASSUME IInv, IInv', NEW d \in Deployments, MarkDeploying(d)
  PROVE  EscrowStep
<1> USE DeploymentAssumption DEF IInv, TypeOK, RunInv, MarkDeploying,
      SetStatus, poolVars, purseVars, dbVars, Held, Told, Quiet, Status,
      StatusInv, CatchCalls, Stopped
<1>1. UNCHANGED treasury /\ \A e \in Deployments : Quiet(e) OBVIOUS
<1> QED BY <1>1, QuietStep

LEMMA StartDeployMaps ==
  ASSUME IInv, IInv', NEW d \in Deployments, StartDeploy(d)
  PROVE  EscrowStep
<1> USE DeploymentAssumption DEF IInv, TypeOK, RunInv, StartDeploy, StartCli,
      poolVars, purseVars, dbVars, Held, Told, Quiet
<1>1. UNCHANGED treasury /\ \A e \in Deployments : Quiet(e) OBVIOUS
<1> QED BY <1>1, QuietStep

LEMMA EndDeployMaps ==
  ASSUME IInv, IInv', NEW d \in Deployments, EndDeploy(d)
  PROVE  EscrowStep
<1> USE DeploymentAssumption DEF IInv, TypeOK, RunInv, EndDeploy, EndCli,
      GoLive, poolVars, purseVars, dbVars, Held, Told, Quiet, CliInv
<1>1. UNCHANGED treasury /\ \A e \in Deployments : Quiet(e) OBVIOUS
<1> QED BY <1>1, QuietStep

LEMMA RecoverBufferMaps ==
  ASSUME IInv, IInv', NEW d \in Deployments, RecoverBuffer(d)
  PROVE  EscrowStep
<1> USE DeploymentAssumption DEF IInv, TypeOK, RunInv, RecoverBuffer,
      poolVars, purseVars, dbVars, Held, Told, Quiet
<1>1. UNCHANGED treasury /\ \A e \in Deployments : Quiet(e) OBVIOUS
<1> QED BY <1>1, QuietStep

LEMMA StartRedeployMaps ==
  ASSUME IInv, IInv', NEW d \in Deployments, StartRedeploy(d)
  PROVE  EscrowStep
<1> USE DeploymentAssumption DEF IInv, TypeOK, RunInv, StartRedeploy,
      StartCli, poolVars, purseVars, dbVars, Held, Told, Quiet
<1>1. UNCHANGED treasury /\ \A e \in Deployments : Quiet(e) OBVIOUS
<1> QED BY <1>1, QuietStep

LEMMA EndRedeployMaps ==
  ASSUME IInv, IInv', NEW d \in Deployments, EndRedeploy(d)
  PROVE  EscrowStep
<1> USE DeploymentAssumption DEF IInv, TypeOK, RunInv, EndRedeploy, EndCli,
      GoLive, poolVars, purseVars, dbVars, Held, Told, Quiet, CliInv
<1>1. UNCHANGED treasury /\ \A e \in Deployments : Quiet(e) OBVIOUS
<1> QED BY <1>1, QuietStep

LEMMA OrphanEndsMaps ==
  ASSUME IInv, IInv', NEW d \in Deployments, OrphanEnds(d)
  PROVE  EscrowStep
<1> USE DeploymentAssumption DEF IInv, TypeOK, RunInv, OrphanEnds, GoLive,
      poolVars, purseVars, dbVars, Held, Told, Quiet, CliInv
<1>1. UNCHANGED treasury /\ \A e \in Deployments : Quiet(e) OBVIOUS
<1> QED BY <1>1, QuietStep

LEMMA ConfirmSuccessMaps ==
  ASSUME IInv, IInv', NEW d \in Deployments, ConfirmSuccess(d)
  PROVE  EscrowStep
<1> USE DeploymentAssumption DEF IInv, TypeOK, RunInv, ConfirmSuccess,
      poolVars, purseVars, dbVars, Held, Told, Quiet
<1>1. UNCHANGED treasury /\ \A e \in Deployments : Quiet(e) OBVIOUS
<1> QED BY <1>1, QuietStep

LEMMA CountSuccessMaps ==
  ASSUME IInv, IInv', NEW d \in Deployments, CountSuccess(d)
  PROVE  EscrowStep
<1> USE DeploymentAssumption DEF IInv, TypeOK, RunInv, CountSuccess, poolVars,
      purseVars, dbVars, Held, Told, Quiet
<1>1. UNCHANGED treasury /\ \A e \in Deployments : Quiet(e) OBVIOUS
<1> QED BY <1>1, QuietStep

LEMMA ConfirmFailureMaps ==
  ASSUME IInv, IInv', NEW d \in Deployments, ConfirmFailure(d)
  PROVE  EscrowStep
<1> USE DeploymentAssumption DEF IInv, TypeOK, RunInv, ConfirmFailure,
      poolVars, purseVars, dbVars, Held, Told, Quiet
<1>1. UNCHANGED treasury /\ \A e \in Deployments : Quiet(e) OBVIOUS
<1> QED BY <1>1, QuietStep

LEMMA CountFailureMaps ==
  ASSUME IInv, IInv', NEW d \in Deployments, CountFailure(d)
  PROVE  EscrowStep
<1> USE DeploymentAssumption DEF IInv, TypeOK, RunInv, CountFailure, poolVars,
      purseVars, dbVars, Held, Told, Quiet
<1>1. UNCHANGED treasury /\ \A e \in Deployments : Quiet(e) OBVIOUS
<1> QED BY <1>1, QuietStep

LEMMA FundFirstMaps ==
  ASSUME IInv, IInv', NEW d \in Deployments, FundFirst(d)
  PROVE  EscrowStep
<1> USE DEF FundFirst, FundTemporaryWallet, dbVars
<1>1. CASE PayWallet(d)
  BY <1>1, BeforeDraw, DrawStep DEF FundingCalls
<1>2. CASE UNCHANGED <<treasury, wallet, drawn>>
  BY <1>2, QuietStep DEF Quiet, Held, Told
<1> QED BY <1>1, <1>2

LEMMA FundRetryMaps ==
  ASSUME IInv, IInv', NEW d \in Deployments, FundRetry(d)
  PROVE  EscrowStep
<1> USE DEF FundRetry, FundTemporaryWallet, dbVars
<1>1. CASE PayWallet(d)
  BY <1>1, BeforeDraw, DrawStep DEF FundingCalls
<1>2. CASE UNCHANGED <<treasury, wallet, drawn>>
  BY <1>2, QuietStep DEF Quiet, Held, Told
<1> QED BY <1>1, <1>2

LEMMA LateFundMaps ==
  ASSUME IInv, IInv', NEW d \in Deployments, LateFund(d)
  PROVE  EscrowStep
BY BeforeDraw, DrawStep DEF LateFund, dbVars

LEMMA SweepRestMaps ==
  ASSUME IInv, IInv', NEW d \in Deployments, SweepRest(d)
  PROVE  EscrowStep
<1> USE DEF SweepRest, Sweep, dbVars
<1>1. CASE UNCHANGED <<treasury, wallet>>
  BY <1>1, QuietStep DEF Quiet, Held, Told
<1> QED BY <1>1, ReturnStep

LEMMA CatchSweepMaps ==
  ASSUME IInv, IInv', NEW d \in Deployments, CatchSweep(d)
  PROVE  EscrowStep
<1> USE DEF CatchSweep, Sweep, dbVars
<1>1. CASE UNCHANGED <<treasury, wallet>>
  BY <1>1, QuietStep DEF Quiet, Held, Told
<1> QED BY <1>1, ReturnStep

LEMMA RecordSuccessMaps ==
  ASSUME IInv, IInv', NEW d \in Deployments, RecordSuccess(d)
  PROVE  EscrowStep
<1> USE DEF RecordSuccess, SetStatus, dbVars, poolVars, purseVars
<1>1. CASE UNCHANGED status
  BY <1>1, QuietStep DEF Quiet, Held, Told
<1> QED BY <1>1, SucceedStep

LEMMA FailRequestMaps ==
  ASSUME IInv, IInv', NEW d \in Deployments, FailRequest(d)
  PROVE  EscrowStep
<1> USE DEF FailRequest, MarkFailed, SetStatus, poolVars, purseVars
<1>1. CASE UNCHANGED status
  BY <1>1, QuietStep DEF Quiet, Held, Told
<1> QED BY <1>1, FailStep

LEMMA RecordFailureMaps ==
  ASSUME IInv, IInv', NEW d \in Deployments, RecordFailure(d)
  PROVE  EscrowStep
<1> USE DEF RecordFailure, MarkFailed, SetStatus, poolVars, purseVars
<1>1. CASE UNCHANGED status
  BY <1>1, QuietStep DEF Quiet, Held, Told
<1> QED BY <1>1, FailStep

LEMMA StepMaps ==
  ASSUME IInv, IInv', NEW d \in Deployments, Step(d)
  PROVE  EscrowStep
<1>1. CASE RequestStep(d)
  BY <1>1, CreateDeployRequestMaps, RecordRequestMaps, FailRequestMaps
  DEF RequestStep
<1>2. CASE FundStep(d)
  BY <1>2, LoadDeploymentMaps, MarkDumpingMaps, DumpProgramMaps,
     CheckTreasuryMaps, SyncBeforeFundingMaps, FundFirstMaps, SyncForRetryMaps,
     FundRetryMaps
  DEF FundStep
<1>3. CASE DeployStep(d)
  BY <1>3, MarkDeployingMaps, StartDeployMaps, EndDeployMaps, RecoverBufferMaps,
     StartRedeployMaps, EndRedeployMaps
  DEF DeployStep
<1>4. CASE ConfirmStep(d)
  BY <1>4, SweepRestMaps, ConfirmSuccessMaps, RecordSuccessMaps, CountSuccessMaps
  DEF ConfirmStep
<1>5. CASE CatchStep(d)
  BY <1>5, CatchSweepMaps, ConfirmFailureMaps, CountFailureMaps, RecordFailureMaps
  DEF CatchStep
<1> QED BY <1>1, <1>2, <1>3, <1>4, <1>5, OrphanEndsMaps DEF Step

LEMMA NextMaps ==
  ASSUME IInv, IInv', [Next]_vars
  PROVE  EscrowStep
<1>1. CASE \E d \in Deployments : ExecuteDeploy(d) \/ Step(d) \/ LateFund(d)
  BY <1>1, OpenStep, StepMaps, LateFundMaps
<1>2. CASE (\E p \in EstimatedPrograms : EstimateCosts(p)) \/ LateSync \/ Crash
           \/ UNCHANGED vars
  <2>1. UNCHANGED treasury /\ \A d \in Deployments : Quiet(d)
    BY <1>2 DEF EstimateCosts, LateSync, Crash, vars, dbVars, poolVars, purseVars,
       Quiet, Held, Told
  <2> QED BY <2>1, QuietStep
<1> QED BY <1>1, <1>2 DEF Next

\* Deployment implements TreasuryEscrow: whatever fails and whoever
\* interleaves, a deployment draws once, only gives back, and is a success
\* only while the rent of its program is locked.
THEOREM Refinement == Spec => ImplementsEscrow
<1>1. Init => Escrow!EscrowInit BY DEF Init, Escrow!EscrowInit
<1>2. IInv /\ IInv' /\ [Next]_vars => [Escrow!EscrowNext]_(Escrow!escrowVars)
  BY NextMaps DEF EscrowStep
<1> QED BY <1>1, <1>2, Invariance, PTL DEF Spec, ImplementsEscrow, Escrow!EscrowSpec

\* The labels at which a run writes its row's status.
Writers == {"idle", "failingRequest", "markDumping", "markDeploying",
            "recordingSuccess", "catchRecord"}

LEMMA StatusWrites ==
  ASSUME TypeOK, NEW d \in Deployments, Step(d)
  PROVE  \/ UNCHANGED status
         \/ pc[d] \in Writers /\ \E s \in Status : status' = [status EXCEPT ![d] = s]
<1> USE DEF Writers, Status, SetStatus, dbVars
<1>1. CASE RequestStep(d)
  BY <1>1 DEF RequestStep, CreateDeployRequest, RecordRequest, FailRequest, MarkFailed
<1>2. CASE FundStep(d)
  BY <1>2 DEF FundStep, LoadDeployment, MarkDumping, DumpProgram, CheckTreasury,
     SyncBeforeFunding, SyncForRetry, SyncLiquidBalance, FundFirst, FundRetry,
     FundTemporaryWallet
<1>3. CASE DeployStep(d)
  BY <1>3 DEF DeployStep, MarkDeploying, StartDeploy, StartRedeploy, StartCli,
     EndDeploy, EndRedeploy, EndCli, RecoverBuffer
<1>4. CASE ConfirmStep(d)
  BY <1>4 DEF ConfirmStep, SweepRest, Sweep, ConfirmSuccess, RecordSuccess,
     CountSuccess
<1>5. CASE CatchStep(d)
  BY <1>5 DEF CatchStep, CatchSweep, Sweep, ConfirmFailure, CountFailure,
     RecordFailure, MarkFailed
<1>6. CASE OrphanEnds(d) BY <1>6 DEF OrphanEnds
<1> QED BY <1>1, <1>2, <1>3, <1>4, <1>5, <1>6 DEF Step

\* A success is only ever taken back by the catch block, after the write of
\* that success or the statistics that follow it were reported to fail.
THEOREM SuccessIsFinalHolds == Spec => SuccessIsFinal
<1>1. IInv /\ [Next]_vars =>
        \A d \in Deployments :
          status[d] = "success" /\ status'[d] # "success"
            => mishaps[d] \cap {"record", "stats"} # {}
  <2> SUFFICES ASSUME IInv, [Next]_vars, NEW d \in Deployments,
                      status[d] = "success", status'[d] # "success"
               PROVE  mishaps[d] \cap {"record", "stats"} # {}
    OBVIOUS
  <2>1. \E e \in Deployments :
          pc[e] \in Writers /\ \E s \in Status : status' = [status EXCEPT ![e] = s]
    <3>1. PICK e \in Deployments : ExecuteDeploy(e) \/ Step(e) \/ LateFund(e)
      BY DEF Next, EstimateCosts, LateSync, Crash, vars, dbVars
    <3>2. CASE Step(e) BY <3>2, StatusWrites DEF IInv
    <3>3. CASE ExecuteDeploy(e)
      BY <3>3 DEF ExecuteDeploy, SetStatus, Writers, Status
    <3>4. CASE LateFund(e) BY <3>4 DEF LateFund, dbVars
    <3> QED BY <3>1, <3>2, <3>3, <3>4
  <2>2. pc[d] \in Writers BY <2>1 DEF IInv, TypeOK
  <2>3. pc[d] \in CatchCalls
    BY <2>2 DEF IInv, RunInv, StatusInv, Writers, Stopped
  <2> QED BY <2>3 DEF IInv, RunInv, StatusInv
<1> QED BY <1>1, Invariance, PTL DEF Spec, SuccessIsFinal
=============================================================================
