------------------------------ MODULE Deployment ------------------------------
(***************************************************************************)
(* One deployment from the HTTP request (DeploymentService.executeDeploy)  *)
(* to the end of its background run (processDeployment), for several       *)
(* deployments at once.                                                    *)
(*                                                                         *)
(* Node runs the code between two awaits without interruption, so an       *)
(* action is one awaited call together with the code up to the next await. *)
(* pc[d] names the call that d awaits.  Every call may fail: a failing     *)
(* write may or may not have taken effect, and a Solana transaction whose  *)
(* confirmation was lost may also land later.  Such an event is recorded   *)
(* in the ghost mishaps[d]; a refusal that the state of the database, the  *)
(* disk or the chain explains is not a mishap.                             *)
(*                                                                         *)
(* The on-chain program and the Solana CLI are not in the repository; what *)
(* they do is taken from how the backend calls them and is as              *)
(* nondeterministic as the backend's own checks leave it.                  *)
(***************************************************************************)
EXTENDS Integers, FiniteSets

CONSTANTS
  Deployments,      \* ids of the rows of the deployments table
  Programs,         \* devnet programs that users ask to deploy
  Developers,       \* user wallets
  ProgramOf,        \* the program a deployment is for
  DeveloperOf,      \* the developer who pays for it
  EstimatedPrograms,\* programs for which POST calculate-cost is also called
  None,             \* no wallet, no developer
  Cost,             \* deployment_cost, the lamports drawn from the treasury
  Rent,             \* lamports a program account of this size locks
  SweepFee,         \* TEMP_WALLET_FEE_BUFFER_LAMPORTS
  InitialTreasury,  \* lamports of the treasury account above its rent
  InitialLiquid,    \* values liquid_balance may start from: it can lag behind
  TotalStaked,      \* the total_staked field of the treasury struct
  SyncThreshold,    \* the 1,000,000 lamports of processDeployment
  MaxMishaps,       \* bound: mishaps per deployment
  MaxCrashes        \* bound: crashes of the backend process

ASSUME DeploymentAssumption ==
  /\ ProgramOf \in [Deployments -> Programs]
  /\ DeveloperOf \in [Deployments -> Developers]
  /\ EstimatedPrograms \subseteq Programs
  /\ None \notin Deployments \cup Developers
  /\ Cost \in Nat \ {0} /\ Rent \in Nat \ {0} /\ SweepFee \in Nat
  /\ InitialTreasury \in Nat /\ InitialLiquid \subseteq Nat /\ TotalStaked \in Nat /\ SyncThreshold \in Nat
  /\ MaxMishaps \in Nat /\ MaxCrashes \in Nat

VARIABLES
  status,        \* deployments.status, "none" before the row exists
  deployer,      \* deployments.deployer_wallet_address
  metaFile,      \* deployments whose <id>-<time>.json is on disk
  keypairFile,   \* deployments whose <id>-<time>-keypair.json is on disk
  dumps,         \* programs whose temp/<program id>.so is on disk
  pc,            \* the call each deployment awaits
  hasWallet,     \* temporaryWallet is not null in the running function
  recovered,     \* its local recoveredLamports
  treasury,      \* lamports of the treasury account above its rent
  liquid,        \* liquid_balance, what the treasury struct says is available
  request,       \* the deploy_request account of each program hash
  syncInFlight,  \* a sync_liquid_balance whose reply timed out may still land
  fundInFlight,  \* deployments with such a fund_temporary_wallet
  wallet,        \* lamports of each temporary wallet
  buffer,        \* lamports under the CLI's buffer keypair of each deployment
  program,       \* lamports locked in the deployed program of each deployment
  drawn,         \* ghost: lamports the treasury ever paid for each deployment
  crashes,       \* crashes so far
  mishaps        \* ghost: the calls of each deployment that went wrong

dbVars    == <<status, deployer>>
diskVars  == <<metaFile, keypairFile, dumps>>
runVars   == <<hasWallet, recovered>>
poolVars  == <<treasury, liquid, syncInFlight, fundInFlight>>
purseVars == <<wallet, buffer, program, drawn>>
vars == <<dbVars, diskVars, pc, runVars, poolVars, request, purseVars,
          crashes, mishaps>>

Status == {"none", "pending", "dumping", "deploying", "success", "failed"}

Request == [status    : {"none", "pendingDeployment", "active", "failed"},
            developer : Developers \cup {None},
            key       : Deployments \cup {None}]

\* executeDeploy, the body of processDeployment, its CLI, its catch block.
RequestCalls == {"requesting", "recordingRequest", "failingRequest"}
FundingCalls == {"loading", "markDumping", "dumping", "checkTreasury",
                 "syncing", "funding", "resyncing", "refunding"}
CliCalls     == {"cliRunning", "cliRerunning"}
DeployCalls  == {"markDeploying", "deploying", "recovering", "redeploying"}
                  \cup CliCalls
ConfirmCalls == {"sweeping", "confirming", "recordingSuccess", "counting"}
CatchCalls   == {"catchSweep", "catchConfirm", "catchCount", "catchRecord"}
RunCalls == FundingCalls \cup DeployCalls \cup ConfirmCalls \cup CatchCalls
Stopped  == {"done", "dead"}
Label == {"idle", "orphan"} \cup RequestCalls \cup RunCalls \cup Stopped

Mishap == {"insert", "badHash", "request", "recordRequest", "load", "persist", "mark",
           "dump", "pool", "sync", "fund", "cli", "recover", "sweep",
           "confirm", "record", "stats", "unconfirm", "final", "crash"}

-----------------------------------------------------------------------------
(* Control: where an awaited call returns to. *)

Goto(d, l)    == pc' = [pc EXCEPT ![d] = l]
Proceed(d, l) == Goto(d, l) /\ UNCHANGED mishaps

GoWrong(d, call, l) ==
  /\ Cardinality(mishaps[d]) < MaxMishaps
  /\ mishaps' = [mishaps EXCEPT ![d] = @ \cup {call}]
  /\ Goto(d, l)

\* Faulty variant: the catch block forgets to sweep.
CatchLabelNoSweep(d) == IF hasWallet[d] THEN "catchConfirm" ELSE "catchCount"

\* The catch block sweeps and confirms the failure only when it has a wallet.
CatchLabel(d)  == IF hasWallet[d] THEN "catchSweep" ELSE "catchCount"
Raise(d)       == Proceed(d, CatchLabel(d))
Throw(d, call) == GoWrong(d, call, CatchLabel(d))

\* The reply to a call that took effect arrives, or is lost.
Reply(d, call, l) == Proceed(d, l) \/ Throw(d, call)

SetStatus(d, s) == status' = [status EXCEPT ![d] = s]

-----------------------------------------------------------------------------
(* executeDeploy *)

\* The payment is verified and the row created.  An insert that was stored but
\* answered with an error, and a program hash or developer key that is malformed
\* and only noticed afterwards, end the request and leave the row as it is.
ExecuteDeploy(d) ==
  /\ pc[d] = "idle"
  /\ SetStatus(d, "pending")
  /\ \/ Proceed(d, "requesting")
     \/ \E fault \in {"insert", "badHash"} : GoWrong(d, fault, "done")
  /\ UNCHANGED <<deployer, diskVars, runVars, poolVars, request, purseVars, crashes>>

\* An active request can be reset once its subscription has expired.
CanReset(r) == \/ r.status \in {"failed", "active"}
               \/ r.status = "pendingDeployment" /\ r.key = None

\* create_deploy_request: the account is keyed by the program hash, so every
\* deployment of a program shares it.
AcceptRequest(d) ==
  LET r == request[ProgramOf[d]] IN
  /\ r.status = "none" \/ r.developer = DeveloperOf[d] \/ CanReset(r)
  /\ \E key \in {None} \cup (IF r.developer = DeveloperOf[d] THEN {r.key} ELSE {}) :
       request' = [request EXCEPT ![ProgramOf[d]] =
                     [status |-> "pendingDeployment",
                      developer |-> DeveloperOf[d], key |-> key]]

CreateDeployRequest(d) ==
  /\ pc[d] = "requesting"
  /\ \/ /\ AcceptRequest(d)
        /\ \/ Proceed(d, "recordingRequest")
           \/ GoWrong(d, "request", "failingRequest")
     \/ /\ request[ProgramOf[d]].status # "none"      \* refused on chain
        /\ Proceed(d, "failingRequest") /\ UNCHANGED request
     \/ GoWrong(d, "request", "failingRequest") /\ UNCHANGED request
  /\ UNCHANGED <<dbVars, diskVars, runVars, poolVars, purseVars, crashes>>

\* updateDeployment(on_chain_deploy_tx), then the background run is started.
RecordRequest(d) ==
  /\ pc[d] = "recordingRequest"
  /\ Proceed(d, "loading") \/ GoWrong(d, "recordRequest", "failingRequest")
  /\ UNCHANGED <<dbVars, diskVars, runVars, poolVars, request, purseVars, crashes>>

\* A row is marked failed as the last thing a run does, here and in the catch
\* block of processDeployment; when this write fails nothing repeats it.
MarkFailed(d) ==
  \/ SetStatus(d, "failed") /\ (Proceed(d, "done") \/ GoWrong(d, "final", "done"))
  \/ UNCHANGED status /\ GoWrong(d, "final", "done")

FailRequest(d) ==
  /\ pc[d] = "failingRequest"
  /\ MarkFailed(d)
  /\ UNCHANGED <<deployer, diskVars, runVars, poolVars, request, purseVars, crashes>>

-----------------------------------------------------------------------------
(* processDeployment: wallet and dump *)

\* Faulty variant: the keypair file is written first.
PersistKeypairFirst(d) ==
  \/ /\ metaFile' = metaFile \cup {d} /\ keypairFile' = keypairFile \cup {d}
     /\ Proceed(d, "markDumping")
  \/ /\ keypairFile' \in {keypairFile, keypairFile \cup {d}} /\ UNCHANGED metaFile
     /\ GoWrong(d, "persist", "markDumping")

\* getDeploymentById, Keypair.generate, then the two wallet files, in this
\* order; failing to write them is only logged.
PersistWallet(d) ==
  \/ /\ metaFile' = metaFile \cup {d} /\ keypairFile' = keypairFile \cup {d}
     /\ Proceed(d, "markDumping")
  \/ /\ metaFile' \in {metaFile, metaFile \cup {d}} /\ UNCHANGED keypairFile
     /\ GoWrong(d, "persist", "markDumping")

LoadDeployment(d) ==
  /\ pc[d] = "loading"
  /\ \/ PersistWallet(d) /\ hasWallet' = [hasWallet EXCEPT ![d] = TRUE]
     \/ Throw(d, "load") /\ UNCHANGED <<hasWallet, metaFile, keypairFile>>
  /\ UNCHANGED <<dbVars, dumps, recovered, poolVars, request, purseVars, crashes>>

MarkDumping(d) ==
  /\ pc[d] = "markDumping"
  /\ \/ SetStatus(d, "dumping") /\ Reply(d, "mark", "dumping")
     \/ UNCHANGED status /\ Throw(d, "mark")
  /\ UNCHANGED <<deployer, diskVars, runVars, poolVars, request, purseVars, crashes>>

\* dumpProgramFromDevnet: web3.js, then the CLI, into the same file.
DumpProgram(d) ==
  /\ pc[d] = "dumping"
  /\ \/ dumps' = dumps \cup {ProgramOf[d]} /\ Reply(d, "dump", "checkTreasury")
     \/ UNCHANGED dumps /\ Throw(d, "dump")
  /\ UNCHANGED <<dbVars, metaFile, keypairFile, runVars, poolVars, request, purseVars, crashes>>

\* calculateCosts dumps the program to the same path and deletes it again.
EstimateCosts(p) ==
  /\ p \in dumps
  /\ dumps' = dumps \ {p}
  /\ UNCHANGED <<dbVars, metaFile, keypairFile, pc, runVars, poolVars, request,
                 purseVars, crashes, mishaps>>

-----------------------------------------------------------------------------
(* processDeployment: funding the wallet from the treasury *)

\* updateDeployment(program_file_path) and getTreasuryPoolState.
CheckTreasury(d) ==
  /\ pc[d] = "checkTreasury"
  /\ \/ Proceed(d, IF TotalStaked - liquid > SyncThreshold THEN "syncing" ELSE "funding")
     \/ Throw(d, "pool")
  /\ UNCHANGED <<dbVars, diskVars, runVars, poolVars, request, purseVars, crashes>>

\* sync_liquid_balance sets the struct's field to the account's balance.
SyncLiquidBalance(d, from, next, onError) ==
  /\ pc[d] = from
  /\ \/ /\ liquid' = treasury
        /\ Proceed(d, next) \/ GoWrong(d, "sync", onError)
        /\ UNCHANGED syncInFlight
     \/ /\ syncInFlight' \in {syncInFlight, TRUE}
        /\ GoWrong(d, "sync", onError)
        /\ UNCHANGED liquid
  /\ UNCHANGED <<dbVars, diskVars, runVars, treasury, fundInFlight, request, purseVars, crashes>>

\* Before funding its errors are swallowed; in fundTemporaryWallet they throw.
SyncBeforeFunding(d) == SyncLiquidBalance(d, "syncing", "funding", "funding")
SyncForRetry(d)      == SyncLiquidBalance(d, "resyncing", "refunding", "catchSweep")

\* The reply to a sync timed out after 30 s, but its transaction lands.
LateSync ==
  /\ syncInFlight
  /\ liquid' = treasury
  /\ syncInFlight' \in BOOLEAN
  /\ UNCHANGED <<dbVars, diskVars, pc, runVars, treasury, fundInFlight, request,
                 purseVars, crashes, mishaps>>

\* Faulty variant: liquid_balance is not looked at.
CanFundFromAccount(d) ==
  request[ProgramOf[d]].status = "pendingDeployment" /\ treasury >= Cost

CanFund(d) == /\ request[ProgramOf[d]].status = "pendingDeployment"
              /\ liquid >= Cost /\ treasury >= Cost

OnlyLiquidIsShort(d) == /\ request[ProgramOf[d]].status = "pendingDeployment"
                        /\ liquid < Cost /\ treasury >= Cost

\* fund_temporary_wallet moves the lamports and notes the wallet's key.
PayWallet(d) ==
  /\ CanFund(d)
  /\ treasury' = treasury - Cost
  /\ liquid' = liquid - Cost
  /\ wallet' = [wallet EXCEPT ![d] = @ + Cost]
  /\ drawn' = [drawn EXCEPT ![d] = @ + Cost]
  /\ request' = [request EXCEPT ![ProgramOf[d]].key = d]

\* InsufficientLiquidBalance is the one error that is retried, once; which
\* of several broken conditions the program reports is its own choice.
FundTemporaryWallet(d, from, isRetry) ==
  /\ pc[d] = from
  /\ \/ PayWallet(d) /\ Reply(d, "fund", "markDeploying") /\ UNCHANGED fundInFlight
     \/ /\ ~CanFund(d)
        /\ \/ liquid < Cost /\ ~isRetry /\ Proceed(d, "resyncing")
           \/ (isRetry \/ ~OnlyLiquidIsShort(d)) /\ Raise(d)
        /\ UNCHANGED <<treasury, liquid, wallet, drawn, request, fundInFlight>>
     \/ /\ Throw(d, "fund")
        /\ fundInFlight' \in {fundInFlight, fundInFlight \cup {d}}
        /\ UNCHANGED <<treasury, liquid, wallet, drawn, request>>
  /\ UNCHANGED <<dbVars, diskVars, runVars, syncInFlight, buffer, program, crashes>>

\* Faulty variant: any funding error is retried.
FundRetryingAll(d) ==
  \/ FundTemporaryWallet(d, "funding", FALSE)
  \/ /\ pc[d] = "funding" /\ PayWallet(d) /\ GoWrong(d, "fund", "refunding")
     /\ UNCHANGED <<dbVars, diskVars, runVars, syncInFlight, fundInFlight,
                    buffer, program, crashes>>

\* Faulty variant: a retry that is refused is tried again, whatever refused it.
FundRetryForever(d) ==
  \/ FundTemporaryWallet(d, "refunding", TRUE) /\ CanFund(d)
  \/ /\ pc[d] = "refunding" /\ ~CanFund(d) /\ Proceed(d, "resyncing")
     /\ UNCHANGED <<dbVars, diskVars, runVars, poolVars, request, purseVars, crashes>>

FundFirst(d) == FundTemporaryWallet(d, "funding", FALSE)
FundRetry(d) == FundTemporaryWallet(d, "refunding", TRUE)

\* The funding call reported an error, but its transaction lands.
LateFund(d) ==
  /\ d \in fundInFlight
  /\ fundInFlight' = fundInFlight \ {d}
  /\ PayWallet(d)
  /\ UNCHANGED <<dbVars, diskVars, pc, runVars, syncInFlight, buffer, program,
                 crashes, mishaps>>

-----------------------------------------------------------------------------
(* processDeployment: deploying with the CLI *)

\* Faulty variant: the dump is deleted before it is deployed.
MarkDeployingCleansUp(d) ==
  /\ pc[d] = "markDeploying"
  /\ SetStatus(d, "deploying") /\ Proceed(d, "deploying")
  /\ dumps' = dumps \ {ProgramOf[d]}
  /\ UNCHANGED <<deployer, metaFile, keypairFile, runVars, poolVars, request, purseVars, crashes>>

MarkDeploying(d) ==
  /\ pc[d] = "markDeploying"
  /\ \/ SetStatus(d, "deploying") /\ Reply(d, "mark", "deploying")
     \/ UNCHANGED status /\ Throw(d, "mark")
  /\ UNCHANGED <<deployer, diskVars, runVars, poolVars, request, purseVars, crashes>>

\* solana program deploy reads the dump and the keypair file, and pays for a
\* buffer account from the wallet before it writes the program.
CliCanStart(d) == /\ ProgramOf[d] \in dumps
                  /\ d \in keypairFile
                  /\ wallet[d] >= Rent

StartCli(d, from, running) ==
  /\ pc[d] = from
  /\ \/ /\ CliCanStart(d)
        /\ wallet' = [wallet EXCEPT ![d] = @ - Rent]
        /\ buffer' = [buffer EXCEPT ![d] = @ + Rent]
        /\ Proceed(d, running)
     \/ ~CliCanStart(d) /\ Raise(d) /\ UNCHANGED <<wallet, buffer>>
     \/ Throw(d, "cli") /\ UNCHANGED <<wallet, buffer>>
  /\ UNCHANGED <<dbVars, diskVars, runVars, poolVars, request, program, drawn, crashes>>

StartDeploy(d)   == StartCli(d, "deploying", "cliRunning")
StartRedeploy(d) == StartCli(d, "redeploying", "cliRerunning")

GoLive(d) == /\ buffer' = [buffer EXCEPT ![d] = @ - Rent]
             /\ program' = [program EXCEPT ![d] = @ + Rent]

\* runSolanaCli and the parsing of its output: a killed process, an exit code
\* or an output without a program id is an error even if the program is live.
EndCli(d, running, onError) ==
  /\ pc[d] = running
  /\ \/ GoLive(d) /\ (Proceed(d, "sweeping") \/ \E l \in onError : GoWrong(d, "cli", l))
     \/ UNCHANGED <<buffer, program>> /\ \E l \in onError : GoWrong(d, "cli", l)
  /\ UNCHANGED <<dbVars, diskVars, runVars, poolVars, request, wallet, drawn, crashes>>

\* Faulty variant: the exit code of the CLI is ignored.
EndDeployAnyExit(d) == EndCli(d, "cliRunning", {"sweeping"})

\* Only the first error is looked at for the "Recover the intermediate
\* account" hint.
EndDeploy(d)   == EndCli(d, "cliRunning", {"recovering", CatchLabel(d)})
EndRedeploy(d) == EndCli(d, "cliRerunning", {CatchLabel(d)})

\* Faulty variant: the deploy is retried whether or not a buffer was closed.
RecoverBufferUnchecked(d) ==
  /\ pc[d] = "recovering" /\ Proceed(d, "redeploying")
  /\ UNCHANGED <<dbVars, diskVars, runVars, poolVars, request, purseVars, crashes>>

\* tryRecoverFailedBuffer closes the buffer with the key rebuilt from the seed
\* phrase; the lamports go to that key, not to the wallet.
RecoverBuffer(d) ==
  /\ pc[d] = "recovering"
  /\ \/ buffer[d] > 0 /\ Proceed(d, "redeploying")
     \/ buffer[d] = 0 /\ Raise(d)
     \/ Throw(d, "recover")
  /\ UNCHANGED <<dbVars, diskVars, runVars, poolVars, request, purseVars, crashes>>

-----------------------------------------------------------------------------
(* processDeployment: returning the rest, confirming, recording *)

\* sweepTemporaryWallet: the fee buffer pays for the transfer; any error is
\* logged and counts as nothing recovered.
Sweep(d, from, next) ==
  LET amount == wallet[d] - SweepFee
      Paid   == /\ amount > 0
                /\ treasury' = treasury + amount
                /\ wallet' = [wallet EXCEPT ![d] = 0]
      Note(x) == recovered' = [recovered EXCEPT ![d] = x]
  IN
  /\ pc[d] = from
  /\ \/ Paid /\ Note(amount) /\ Proceed(d, next)
     \/ amount <= 0 /\ Note(0) /\ Proceed(d, next) /\ UNCHANGED <<treasury, wallet>>
     \/ Note(0) /\ GoWrong(d, "sweep", next) /\ (Paid \/ UNCHANGED <<treasury, wallet>>)
  /\ UNCHANGED <<dbVars, diskVars, hasWallet, liquid, syncInFlight, fundInFlight,
                 request, buffer, program, drawn, crashes>>

\* Faulty variant: a failed sweep fails the deployment.
SweepRestThrows(d) ==
  \/ Sweep(d, "sweeping", "confirming")
  \/ /\ pc[d] = "sweeping" /\ Throw(d, "sweep")
     /\ UNCHANGED <<dbVars, diskVars, runVars, poolVars, request, purseVars, crashes>>

SweepRest(d)  == Sweep(d, "sweeping", "confirming")
CatchSweep(d) == Sweep(d, "catchSweep", "catchConfirm")

\* Faulty variant: the wallet in the request is not compared.
CanConfirmAnyKey(d) ==
  request[ProgramOf[d]].status = "pendingDeployment" /\ recovered[d] <= Cost

\* confirm_deployment_success credits the swept lamports to liquid_balance.
CanConfirm(d) == LET r == request[ProgramOf[d]] IN
  r.status = "pendingDeployment" /\ r.key = d /\ recovered[d] <= Cost

ConfirmSuccess(d) ==
  /\ pc[d] = "confirming"
  /\ \/ /\ CanConfirm(d)
        /\ request' = [request EXCEPT ![ProgramOf[d]].status = "active"]
        /\ liquid' = liquid + recovered[d]
        /\ Reply(d, "confirm", "recordingSuccess")
     \/ ~CanConfirm(d) /\ Raise(d) /\ UNCHANGED <<request, liquid>>
     \/ Throw(d, "confirm") /\ UNCHANGED <<request, liquid>>
  /\ UNCHANGED <<dbVars, diskVars, runVars, treasury, syncInFlight, fundInFlight,
                 purseVars, crashes>>

RecordSuccess(d) ==
  /\ pc[d] = "recordingSuccess"
  /\ \/ /\ SetStatus(d, "success")
        /\ deployer' = [deployer EXCEPT ![d] = "wallet"]
        /\ Reply(d, "record", "counting")
     \/ UNCHANGED dbVars /\ Throw(d, "record")
  /\ UNCHANGED <<diskVars, runVars, poolVars, request, purseVars, crashes>>

\* Faulty variant: an error of the final clean-up is thrown.
CountSuccessCleanupThrows(d) ==
  /\ pc[d] = "counting"
  /\ Proceed(d, "done") \/ Throw(d, "dump")
  /\ UNCHANGED <<dbVars, diskVars, runVars, poolVars, request, purseVars, crashes>>

\* updateUserStats, then the dump is deleted.
CountSuccess(d) ==
  /\ pc[d] = "counting"
  /\ \/ Proceed(d, "done") /\ dumps' = dumps \ {ProgramOf[d]}
     \/ Throw(d, "stats") /\ UNCHANGED dumps
  /\ UNCHANGED <<dbVars, metaFile, keypairFile, runVars, poolVars, request, purseVars, crashes>>

-----------------------------------------------------------------------------
(* processDeployment: the catch block *)

\* An error here is logged and skips the statistics.
ConfirmFailure(d) ==
  LET r == request[ProgramOf[d]]
      CanFail == r.status = "pendingDeployment" /\ r.key \in {None, d}
  IN
  /\ pc[d] = "catchConfirm"
  /\ \/ /\ CanFail
        /\ request' = [request EXCEPT ![ProgramOf[d]].status = "failed"]
        /\ Proceed(d, "catchCount") \/ GoWrong(d, "unconfirm", "catchRecord")
     \/ ~CanFail /\ Proceed(d, "catchRecord") /\ UNCHANGED request
     \/ GoWrong(d, "unconfirm", "catchRecord") /\ UNCHANGED request
  /\ UNCHANGED <<dbVars, diskVars, runVars, poolVars, purseVars, crashes>>

\* Faulty variant: an error in the catch block leaves it.
CountFailureThrows(d) ==
  /\ pc[d] = "catchCount"
  /\ Proceed(d, "catchRecord") \/ GoWrong(d, "stats", "done")
  /\ UNCHANGED <<dbVars, diskVars, runVars, poolVars, request, purseVars, crashes>>

CountFailure(d) ==
  /\ pc[d] = "catchCount"
  /\ Proceed(d, "catchRecord") \/ GoWrong(d, "stats", "catchRecord")
  /\ UNCHANGED <<dbVars, diskVars, runVars, poolVars, request, purseVars, crashes>>

RecordFailure(d) ==
  /\ pc[d] = "catchRecord"
  /\ MarkFailed(d)
  /\ UNCHANGED <<deployer, diskVars, runVars, poolVars, request, purseVars, crashes>>

-----------------------------------------------------------------------------
(* The backend dies; nothing resumes a run after a restart.  A CLI child    *)
(* process outlives it.                                                      *)

AfterCrash(l) == CASE l \in CliCalls -> "orphan"
                   [] l \in (RequestCalls \cup RunCalls) \ CliCalls -> "dead"
                   [] OTHER -> l

Crash ==
  /\ crashes < MaxCrashes
  /\ crashes' = crashes + 1
  /\ pc' = [d \in Deployments |-> AfterCrash(pc[d])]
  /\ mishaps' = [d \in Deployments |->
                   IF AfterCrash(pc[d]) = pc[d] THEN mishaps[d]
                                                ELSE mishaps[d] \cup {"crash"}]
  /\ hasWallet' = [d \in Deployments |-> FALSE]
  /\ UNCHANGED <<dbVars, diskVars, recovered, poolVars, request, purseVars>>

OrphanEnds(d) ==
  /\ pc[d] = "orphan"
  /\ GoLive(d) \/ UNCHANGED <<buffer, program>>
  /\ Proceed(d, "dead")
  /\ UNCHANGED <<dbVars, diskVars, runVars, poolVars, request, wallet, drawn, crashes>>

-----------------------------------------------------------------------------
Init ==
  /\ status = [d \in Deployments |-> "none"]
  /\ deployer = [d \in Deployments |-> "TBD"]
  /\ metaFile = {} /\ keypairFile = {} /\ dumps = {}
  /\ pc = [d \in Deployments |-> "idle"]
  /\ hasWallet = [d \in Deployments |-> FALSE]
  /\ recovered = [d \in Deployments |-> 0]
  /\ treasury = InitialTreasury
  /\ liquid \in InitialLiquid
  /\ request = [p \in Programs |-> [status |-> "none", developer |-> None, key |-> None]]
  /\ syncInFlight = FALSE /\ fundInFlight = {}
  /\ wallet = [d \in Deployments |-> 0]
  /\ buffer = [d \in Deployments |-> 0]
  /\ program = [d \in Deployments |-> 0]
  /\ drawn = [d \in Deployments |-> 0]
  /\ crashes = 0
  /\ mishaps = [d \in Deployments |-> {}]

RequestStep(d) == \/ CreateDeployRequest(d) \/ RecordRequest(d) \/ FailRequest(d)

FundStep(d) == \/ LoadDeployment(d) \/ MarkDumping(d) \/ DumpProgram(d)
               \/ CheckTreasury(d) \/ SyncBeforeFunding(d) \/ FundFirst(d)
               \/ SyncForRetry(d) \/ FundRetry(d)

DeployStep(d) == \/ MarkDeploying(d) \/ StartDeploy(d) \/ EndDeploy(d)
                 \/ RecoverBuffer(d) \/ StartRedeploy(d) \/ EndRedeploy(d)

ConfirmStep(d) == \/ SweepRest(d) \/ ConfirmSuccess(d)
                  \/ RecordSuccess(d) \/ CountSuccess(d)

CatchStep(d) == \/ CatchSweep(d) \/ ConfirmFailure(d)
                \/ CountFailure(d) \/ RecordFailure(d)

Step(d) == \/ RequestStep(d) \/ FundStep(d) \/ DeployStep(d)
           \/ ConfirmStep(d) \/ CatchStep(d) \/ OrphanEnds(d)

Next ==
  \/ \E d \in Deployments : ExecuteDeploy(d) \/ Step(d) \/ LateFund(d)
  \/ \E p \in EstimatedPrograms : EstimateCosts(p)
  \/ LateSync
  \/ Crash

Spec == Init /\ [][Next]_vars

\* Every awaited call returns or throws, so a started run keeps moving.
FairSpec == Spec /\ \A d \in Deployments : WF_vars(Step(d))

-----------------------------------------------------------------------------
(* Properties *)

TypeOK ==
  /\ status \in [Deployments -> Status]
  /\ deployer \in [Deployments -> {"TBD", "wallet"}]
  /\ metaFile \subseteq Deployments /\ keypairFile \subseteq Deployments
  /\ dumps \subseteq Programs
  /\ pc \in [Deployments -> Label]
  /\ hasWallet \in [Deployments -> BOOLEAN]
  /\ recovered \in [Deployments -> Nat]
  /\ treasury \in Nat /\ liquid \in Nat
  /\ request \in [Programs -> Request]
  /\ syncInFlight \in BOOLEAN /\ fundInFlight \subseteq Deployments
  /\ wallet \in [Deployments -> Nat] /\ buffer \in [Deployments -> Nat]
  /\ program \in [Deployments -> Nat] /\ drawn \in [Deployments -> Nat]
  /\ crashes \in 0 .. MaxCrashes
  /\ mishaps \in [Deployments -> SUBSET Mishap]

\* The treasury pays for a deployment at most once, whatever is retried, timed
\* out or lands late: of the two funding attempts in fundTemporaryWallet at
\* most one moves lamports.
FundedOnce == \A d \in Deployments : drawn[d] <= Cost

\* However the CLI call ends and is retried, one run puts at most one program
\* on chain, since the retry needs a buffer that was closed, not consumed.
OneProgramPerRun == \A d \in Deployments : program[d] <= Rent

\* An active deploy_request, which is what the developer's subscription is
\* billed for, names the wallet of a run whose program is live.
ActiveRequestIsLive ==
  \A p \in Programs :
    request[p].status = "active" =>
      \E d \in Deployments :
        request[p].key = d /\ ProgramOf[d] = p /\ program[d] >= Rent

\* Whoever holds a live program can still be reached: the key that is its
\* upgrade and close authority is on disk in both files, also after the
\* swallowed write errors and after a crash.
AuthorityOnDisk ==
  \A d \in Deployments :
    program[d] > 0 => d \in keypairFile /\ d \in metaFile

\* A row that says success is backed: the program is live, its wallet is in
\* the row, and the file from which closeProgram loads that wallet exists.
SuccessIsBacked ==
  \A d \in Deployments :
    status[d] = "success" =>
      /\ program[d] >= Rent
      /\ deployer[d] = "wallet"
      /\ d \in metaFile

\* A run that comes to its end leaves nothing spendable in the temporary
\* wallet, unless a sweep failed or a funding call that reported an error
\* took effect late.
SweptAtEnd ==
  \A d \in Deployments :
    pc[d] = "done" /\ mishaps[d] \cap {"sweep", "fund"} = {} => wallet[d] <= SweepFee

\* A row is left in pending, dumping or deploying by a run that is over only
\* if the last write of the catch block failed, or if it never had a run: the
\* reply to its insert was an error, or the request was malformed.
StuckOnlyByFinalWrite ==
  \A d \in Deployments :
    /\ pc[d] = "done"
    /\ status[d] \in {"pending", "dumping", "deploying"}
    => mishaps[d] \cap {"final", "insert", "badHash"} # {}

Alone(d) == /\ \A e \in Deployments \ {d} : ProgramOf[e] # ProgramOf[d]
            /\ ProgramOf[d] \notin EstimatedPrograms

\* When no other deployment and no cost estimate works on the same program,
\* a deployment that was funded enough and met no mishap ends as a success:
\* the shared dump file and the shared deploy_request are the only other
\* ways to lose it.
CleanRunSucceeds ==
  \A d \in Deployments :
    /\ Alone(d) /\ Cost >= Rent
    /\ pc[d] = "done" /\ drawn[d] > 0 /\ mishaps[d] = {}
    => status[d] = "success"

\* A live program whose row ends as failed cannot be closed any more.  For a
\* deployment that shares its program with no other this takes a mishap in or
\* after the CLI call.
LateMishaps == {"cli", "confirm", "record", "stats"}
StrandedOnlyByLateMishap ==
  \A d \in Deployments :
    /\ Alone(d) /\ pc[d] = "done" /\ program[d] > 0 /\ status[d] # "success"
    => mishaps[d] \cap LateMishaps # {}

\* Once a row says success only the failing statistics call that follows, or
\* the lost reply of that very write, can turn it into anything else.
SuccessIsFinal ==
  [][\A d \in Deployments :
       status[d] = "success" /\ status'[d] # "success"
         => mishaps[d] \cap {"record", "stats"} # {}]_vars

\* Seen from the treasury a deployment is an escrow account: what left the
\* treasury is in the wallet, the buffer or the program.
Escrow == INSTANCE TreasuryEscrow WITH
  pool    <- treasury,
  out     <- [d \in Deployments |-> wallet[d] + buffer[d] + program[d]],
  outcome <- [d \in Deployments |->
                IF status[d] \in {"pending", "dumping", "deploying"} THEN "open"
                                                                    ELSE status[d]]

\* Every step of every interleaving moves money as the escrow allows: one draw
\* per deployment, returns only, success only over a locked rent.
ImplementsEscrow == Escrow!EscrowSpec

\* A run that is started ends, or its backend dies.
EveryRunEnds ==
  \A d \in Deployments : pc[d] # "idle" ~> pc[d] \in Stopped
=============================================================================
