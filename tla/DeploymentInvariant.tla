-------------------------- MODULE DeploymentInvariant --------------------------
(***************************************************************************)
(* The inductive invariant of Deployment: what holds at each label of a    *)
(* run, strong enough that every step preserves it.                        *)
(***************************************************************************)
EXTENDS Deployment

Unfunded  == {"idle"} \cup RequestCalls \cup FundingCalls
Deploying == {"markDeploying", "deploying", "redeploying", "orphan"} \cup CliCalls
Swept     == {"confirming", "recordingSuccess", "counting", "catchConfirm",
              "catchCount", "catchRecord", "done"}
WithWallet == RunCalls \ {"loading", "catchCount", "catchRecord"}

\* A run draws on the treasury only after the last of its funding calls, or
\* late, through a call whose error was reported while nothing was drawn.
MoneyInv(d) ==
  /\ drawn[d] \in {0, Cost}
  /\ drawn[d] = 0 => wallet[d] = 0 /\ buffer[d] = 0 /\ program[d] = 0
  /\ pc[d] \in Unfunded => drawn[d] = 0 /\ d \notin fundInFlight
  /\ d \in fundInFlight => drawn[d] = 0 /\ "fund" \in mishaps[d]

\* The CLI consumes one buffer for the one program that goes live; after that
\* no label leads to the CLI again.
CliInv(d) ==
  /\ program[d] <= Rent
  /\ pc[d] \in {"markDeploying", "deploying"} => buffer[d] = 0
  /\ pc[d] = "cliRunning" => buffer[d] = Rent
  /\ pc[d] \in {"cliRerunning", "orphan"} => buffer[d] >= Rent
  /\ pc[d] \in Deploying => program[d] = 0
  /\ pc[d] = "recovering" => program[d] = 0 \/ buffer[d] = 0
  /\ pc[d] \in ConfirmCalls => program[d] >= Rent

\* Lamports reach a buffer or a program only through a keypair file, and that
\* file is only ever written after the metadata file.
DiskInv(d) ==
  /\ d \in keypairFile => d \in metaFile
  /\ buffer[d] > 0 \/ program[d] > 0 => d \in keypairFile

\* From the generation of the wallet on every error leads through the sweep.
WalletInv(d) ==
  /\ pc[d] \in WithWallet => hasWallet[d]
  /\ pc[d] \in Swept /\ mishaps[d] \cap {"sweep", "fund"} = {} => wallet[d] <= SweepFee

\* What the row says at each label.
StatusInv(d) ==
  /\ pc[d] = "idle" <=> status[d] = "none"
  /\ status[d] = "success" =>
       /\ program[d] >= Rent /\ deployer[d] = "wallet"
       /\ pc[d] \in {"counting"} \cup CatchCalls \cup Stopped
  /\ status[d] = "failed" => pc[d] = "done"
  /\ pc[d] = "counting" => status[d] = "success"
  /\ pc[d] \in CatchCalls /\ status[d] = "success" => mishaps[d] \cap {"record", "stats"} # {}
  /\ pc[d] = "done" /\ status[d] \in {"pending", "dumping", "deploying"}
       => mishaps[d] \cap {"final", "insert", "badHash"} # {}

RunInv(d) == MoneyInv(d) /\ CliInv(d) /\ DiskInv(d) /\ WalletInv(d) /\ StatusInv(d)

\* Every label of every run keeps the books, the files and the row in step:
\* this is what each of the safety properties of Deployment follows from.
IInv ==
  /\ TypeOK
  /\ \A d \in Deployments : RunInv(d)
  /\ ActiveRequestIsLive

Recovery  == {"recovering", "redeploying", "cliRerunning"}
Dumped    == {"checkTreasury", "syncing", "funding", "resyncing", "refunding",
              "markDeploying", "deploying"}
Persisted == {"markDumping", "dumping"} \cup Dumped
Funded    == {"markDeploying", "deploying", "cliRunning", "sweeping", "confirming"}
               \cup Recovery
Failing   == CatchCalls \cup {"done"}

\* What a run needs at each label is there, unless a mishap or another run of
\* its program took it: the lamports, the two files, and the deploy_request
\* with its key.  So a run fails only over a mishap, or unfunded.
NeedsInv(d) ==
  LET p == ProgramOf[d] IN
  /\ wallet[d] <= Cost /\ recovered[d] <= Cost
  /\ pc[d] \in {"markDeploying", "deploying"} => wallet[d] = Cost
  /\ pc[d] \in Persisted => d \in keypairFile \/ "persist" \in mishaps[d]
  /\ pc[d] \in Recovery => "cli" \in mishaps[d]
  /\ Alone(d) =>
       /\ pc[d] \in Dumped => p \in dumps
       /\ pc[d] \in Funded => request[p].status = "pendingDeployment" /\ request[p].key = d
       /\ pc[d] \in Failing /\ ~(pc[d] = "done" /\ status[d] = "success") =>
            /\ program[d] > 0 => mishaps[d] \cap LateMishaps # {}
            /\ Cost >= Rent /\ drawn[d] > 0 => mishaps[d] # {}

\* Of the runs that share their program with no other: at each label what the
\* run needs is there, or a mishap took it, which is what the two properties of
\* runs apart follow from.
ApartInv == \A d \in Deployments : NeedsInv(d)

\* ApartInv reads labels and files that only IInv ties together: the two are
\* inductive together.
FullInv == IInv /\ ApartInv
=============================================================================
