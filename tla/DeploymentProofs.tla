---------------------------- MODULE DeploymentProofs ----------------------------
(***************************************************************************)
(* Deployment keeps IInv, and what follows from it, for every set of       *)
(* deployments and every value of the constants.  There is one lemma per   *)
(* action; each shows that the types are kept, that RunInv holds again of  *)
(* the deployment that moved, that the others are untouched, and that      *)
(* active requests stay backed.  A second lemma per action, in the part    *)
(* "Runs apart", shows that the step keeps ApartInv: nothing a run needs   *)
(* is taken by a step on another program (AsideKeeps), and its own step    *)
(* leaves behind what its next label needs.                                *)
(***************************************************************************)
EXTENDS DeploymentInvariant, TLAPS

\* What RunInv(e) reads is unchanged, or changed in a way it allows.
Untouched(e) ==
  /\ status'[e] = status[e] /\ deployer'[e] = deployer[e] /\ pc'[e] = pc[e]
  /\ e \in metaFile => e \in metaFile'
  /\ e \in keypairFile' <=> e \in keypairFile
  /\ pc[e] \in RunCalls => hasWallet'[e] = hasWallet[e]
  /\ e \in fundInFlight' <=> e \in fundInFlight
  /\ wallet'[e] = wallet[e] /\ buffer'[e] = buffer[e] /\ program'[e] = program[e]
  /\ drawn'[e] = drawn[e] /\ mishaps'[e] = mishaps[e]

LEMMA Frame ==
  ASSUME NEW e \in Deployments, RunInv(e), Untouched(e)
  PROVE  RunInv(e)'
<1>1. MoneyInv(e)' BY DEF RunInv, MoneyInv, Untouched
<1>2. CliInv(e)' BY DEF RunInv, CliInv, Untouched
<1>3. DiskInv(e)' BY DEF RunInv, DiskInv, Untouched
<1>4. WalletInv(e)' BY DEF RunInv, WalletInv, Untouched, WithWallet
<1>5. StatusInv(e)' BY DEF RunInv, StatusInv, Untouched
<1> QED BY <1>1, <1>2, <1>3, <1>4, <1>5 DEF RunInv

\* Requests become active only by ConfirmSuccess, and programs stay.
LEMMA ActiveFrame ==
  ASSUME IInv, program' \in [Deployments -> Nat],
         \A p \in Programs : request'[p].status = "active" => request'[p] = request[p],
         \A d \in Deployments : program'[d] >= program[d]
  PROVE  ActiveRequestIsLive'
<1> SUFFICES ASSUME NEW p \in Programs, request'[p].status = "active"
             PROVE  \E d \in Deployments :
                      request'[p].key = d /\ ProgramOf[d] = p /\ program'[d] >= Rent
  BY DEF ActiveRequestIsLive
<1>1. PICK d \in Deployments :
        request[p].key = d /\ ProgramOf[d] = p /\ program[d] >= Rent
  BY DEF IInv, ActiveRequestIsLive
<1>2. program'[d] >= Rent BY <1>1, DeploymentAssumption DEF IInv, TypeOK
<1> QED BY <1>1, <1>2

LEMMA PayWalletRequest ==
  ASSUME IInv, NEW d \in Deployments, PayWallet(d)
  PROVE  request' \in [Programs -> Request]
<1> USE DeploymentAssumption
<1> DEFINE p == ProgramOf[d]
<1>1. request' = [request EXCEPT ![p] = [request[p] EXCEPT !.key = d]]
  BY DEF PayWallet
<1>2. request \in [Programs -> Request] /\ p \in Programs BY DEF IInv, TypeOK
<1>3. [request[p] EXCEPT !.key = d] \in Request BY <1>2 DEF Request
<1> QED BY <1>1, <1>2, <1>3

LEMMA PayWalletActive ==
  ASSUME IInv, NEW d \in Deployments, PayWallet(d), UNCHANGED program
  PROVE  ActiveRequestIsLive'
<1>1. \A p \in Programs : request'[p].status = "active" => request'[p] = request[p]
  BY DeploymentAssumption DEF IInv, TypeOK, Request, PayWallet, CanFund
<1> QED BY <1>1, ActiveFrame DEF IInv, TypeOK

LEMMA InitEstablishes == Init => IInv
<1> SUFFICES ASSUME Init PROVE IInv OBVIOUS
<1> USE DeploymentAssumption DEF Init
<1>1. TypeOK
  <2>1. status \in [Deployments -> Status] /\ pc \in [Deployments -> Label]
    BY DEF Status, Label
  <2>2. hasWallet \in [Deployments -> BOOLEAN] OBVIOUS
  <2>3. request \in [Programs -> Request] BY DEF Request
  <2>4. mishaps \in [Deployments -> SUBSET Mishap] OBVIOUS
  <2>5. liquid \in Nat /\ crashes \in 0 .. MaxCrashes OBVIOUS
  <2> QED BY <2>1, <2>2, <2>3, <2>4, <2>5 DEF TypeOK
<1>2. ASSUME NEW d \in Deployments PROVE RunInv(d)
  BY <1>2 DEF RunInv, MoneyInv, CliInv, DiskInv, WalletInv, StatusInv,
     Deploying, CliCalls, Swept, WithWallet, RunCalls, FundingCalls,
     DeployCalls, ConfirmCalls, CatchCalls, Stopped
<1>3. ActiveRequestIsLive BY DEF ActiveRequestIsLive
<1> QED BY <1>1, <1>2, <1>3 DEF IInv

-----------------------------------------------------------------------------
(* executeDeploy. *)

LEMMA ExecuteDeployKeeps ==
  ASSUME IInv, NEW d \in Deployments, ExecuteDeploy(d)
  PROVE  IInv'
<1> USE DeploymentAssumption DEF IInv, TypeOK, RunInv, ExecuteDeploy,
      SetStatus, Proceed, GoWrong, Goto, dbVars, diskVars, runVars, poolVars,
      purseVars
<1>1. TypeOK'
  BY DEF Mishap, Status, Label, RequestCalls, FundingCalls, CliCalls,
       DeployCalls, ConfirmCalls, CatchCalls, RunCalls, Stopped
<1>2. RunInv(d)'
  <2>1. MoneyInv(d)'
    BY DEF MoneyInv, CliInv, Unfunded, RequestCalls, FundingCalls
  <2>2. CliInv(d)' BY DEF CliInv, MoneyInv, Deploying, CliCalls, ConfirmCalls
  <2>3. DiskInv(d)' BY DEF DiskInv, CliInv, MoneyInv
  <2>4. WalletInv(d)'
    BY DEF WalletInv, MoneyInv, Swept, WithWallet, Unfunded, Label,
         RequestCalls, FundingCalls, CliCalls, DeployCalls, ConfirmCalls,
         CatchCalls, RunCalls, Stopped
  <2>5. StatusInv(d)'
    <3>1. status'[d] = "pending" OBVIOUS
    <3>2. \/ pc'[d] = "requesting"
          \/ pc'[d] = "done" /\ mishaps'[d] \cap {"insert", "badHash"} # {}
      OBVIOUS
    <3> QED BY <3>1, <3>2 DEF StatusInv, CatchCalls, Stopped
  <2> QED BY <2>1, <2>2, <2>3, <2>4, <2>5
<1>3. \A e \in Deployments \ {d} : Untouched(e) BY DEF Untouched
<1>4. ActiveRequestIsLive' BY <1>1, ActiveFrame
<1> QED BY <1>1, <1>2, <1>3, <1>4, Frame

LEMMA CreateDeployRequestKeeps ==
  ASSUME IInv, NEW d \in Deployments, CreateDeployRequest(d)
  PROVE  IInv'
<1> USE DeploymentAssumption DEF IInv, TypeOK, RunInv, CreateDeployRequest,
      AcceptRequest, Proceed, GoWrong, Goto, dbVars, diskVars, runVars,
      poolVars, purseVars
<1>1. TypeOK'
  <2>1. pc' \in [Deployments -> Label]
    BY DEF Label, RequestCalls, FundingCalls, CliCalls, DeployCalls,
         ConfirmCalls, CatchCalls, RunCalls, Stopped
  <2>2. mishaps' \in [Deployments -> SUBSET Mishap] BY DEF Mishap
  <2>3. request' \in [Programs -> Request] BY DEF Request
  <2> QED BY <2>1, <2>2, <2>3
<1>2. RunInv(d)'
  BY DEF MoneyInv, CliInv, DiskInv, WalletInv, StatusInv, Unfunded, Deploying,
       Swept, WithWallet, RequestCalls, FundingCalls, CliCalls, DeployCalls,
       ConfirmCalls, CatchCalls, RunCalls, Stopped
<1>3. \A e \in Deployments \ {d} : Untouched(e) BY DEF Untouched
<1>4. ActiveRequestIsLive' BY <1>1, ActiveFrame DEF Request
<1> QED BY <1>1, <1>2, <1>3, <1>4, Frame

LEMMA RecordRequestKeeps ==
  ASSUME IInv, NEW d \in Deployments, RecordRequest(d)
  PROVE  IInv'
<1> USE DeploymentAssumption DEF IInv, TypeOK, RunInv, RecordRequest, Proceed,
      GoWrong, Goto, dbVars, diskVars, runVars, poolVars, purseVars
<1>1. TypeOK'
  BY DEF Mishap, Label, RequestCalls, FundingCalls, CliCalls, DeployCalls,
       ConfirmCalls, CatchCalls, RunCalls, Stopped
<1>2. RunInv(d)'
  BY DEF MoneyInv, CliInv, DiskInv, WalletInv, StatusInv, Unfunded, Deploying,
       Swept, WithWallet, RequestCalls, FundingCalls, CliCalls, DeployCalls,
       ConfirmCalls, CatchCalls, RunCalls, Stopped
<1>3. \A e \in Deployments \ {d} : Untouched(e) BY DEF Untouched
<1>4. ActiveRequestIsLive' BY <1>1, ActiveFrame
<1> QED BY <1>1, <1>2, <1>3, <1>4, Frame

LEMMA FailRequestKeeps ==
  ASSUME IInv, NEW d \in Deployments, FailRequest(d)
  PROVE  IInv'
<1> USE DeploymentAssumption DEF IInv, TypeOK, RunInv, FailRequest,
      MarkFailed, SetStatus, Proceed, GoWrong, Goto, dbVars, diskVars,
      runVars, poolVars, purseVars
<1>1. TypeOK'
  BY DEF Mishap, Status, Label, RequestCalls, FundingCalls, CliCalls,
       DeployCalls, ConfirmCalls, CatchCalls, RunCalls, Stopped
<1>2. RunInv(d)'
  <2>1. MoneyInv(d)'
    BY DEF MoneyInv, CliInv, Unfunded, RequestCalls, FundingCalls
  <2>2. CliInv(d)' BY DEF CliInv, MoneyInv, Deploying, CliCalls, ConfirmCalls
  <2>3. DiskInv(d)' BY DEF DiskInv, CliInv, MoneyInv
  <2>4. WalletInv(d)'
    BY DEF WalletInv, MoneyInv, Swept, WithWallet, Unfunded, Label,
         RequestCalls, FundingCalls, CliCalls, DeployCalls, ConfirmCalls,
         CatchCalls, RunCalls, Stopped
  <2>5. StatusInv(d)'
    <3>1. pc[d] = "failingRequest" /\ pc'[d] = "done" /\ UNCHANGED <<deployer, program>>
      OBVIOUS
    <3>2. \/ status'[d] = "failed"
          \/ status'[d] = status[d] /\ "final" \in mishaps'[d]
      OBVIOUS
    <3> QED BY <3>1, <3>2 DEF StatusInv, CatchCalls, Stopped
  <2> QED BY <2>1, <2>2, <2>3, <2>4, <2>5
<1>3. \A e \in Deployments \ {d} : Untouched(e) BY DEF Untouched
<1>4. ActiveRequestIsLive' BY <1>1, ActiveFrame
<1> QED BY <1>1, <1>2, <1>3, <1>4, Frame

-----------------------------------------------------------------------------
(* processDeployment: wallet, dump and funding. *)

LEMMA LoadDeploymentKeeps ==
  ASSUME IInv, NEW d \in Deployments, LoadDeployment(d)
  PROVE  IInv'
<1> USE DeploymentAssumption DEF IInv, TypeOK, RunInv, LoadDeployment,
      PersistWallet, Raise, Throw, CatchLabel, Proceed, GoWrong, Goto, dbVars,
      diskVars, runVars, poolVars, purseVars
<1>1. TypeOK'
  <2>1. pc' \in [Deployments -> Label]
    BY DEF Label, RequestCalls, FundingCalls, CliCalls, DeployCalls,
         ConfirmCalls, CatchCalls, RunCalls, Stopped
  <2>2. mishaps' \in [Deployments -> SUBSET Mishap] BY DEF Mishap
  <2>3. hasWallet' \in [Deployments -> BOOLEAN] OBVIOUS
  <2>4. metaFile' \subseteq Deployments /\ keypairFile' \subseteq Deployments
    OBVIOUS
  <2> QED BY <2>1, <2>2, <2>3, <2>4
<1>2. RunInv(d)'
  BY DEF MoneyInv, CliInv, DiskInv, WalletInv, StatusInv, Unfunded, Deploying,
       Swept, WithWallet, RequestCalls, FundingCalls, CliCalls, DeployCalls,
       ConfirmCalls, CatchCalls, RunCalls, Stopped
<1>3. \A e \in Deployments \ {d} : Untouched(e) BY DEF Untouched
<1>4. ActiveRequestIsLive' BY <1>1, ActiveFrame
<1> QED BY <1>1, <1>2, <1>3, <1>4, Frame

LEMMA MarkDumpingKeeps ==
  ASSUME IInv, NEW d \in Deployments, MarkDumping(d)
  PROVE  IInv'
<1> USE DeploymentAssumption DEF IInv, TypeOK, RunInv, MarkDumping, SetStatus,
      Reply, Raise, Throw, CatchLabel, Proceed, GoWrong, Goto, dbVars,
      diskVars, runVars, poolVars, purseVars
<1>1. TypeOK'
  BY DEF Mishap, Status, Label, RequestCalls, FundingCalls, CliCalls,
       DeployCalls, ConfirmCalls, CatchCalls, RunCalls, Stopped
<1>2. RunInv(d)'
  BY DEF MoneyInv, CliInv, DiskInv, WalletInv, StatusInv, Unfunded, Deploying,
       Swept, WithWallet, RequestCalls, FundingCalls, CliCalls, DeployCalls,
       ConfirmCalls, CatchCalls, RunCalls, Stopped
<1>3. \A e \in Deployments \ {d} : Untouched(e) BY DEF Untouched
<1>4. ActiveRequestIsLive' BY <1>1, ActiveFrame
<1> QED BY <1>1, <1>2, <1>3, <1>4, Frame

LEMMA DumpProgramKeeps ==
  ASSUME IInv, NEW d \in Deployments, DumpProgram(d)
  PROVE  IInv'
<1> USE DeploymentAssumption DEF IInv, TypeOK, RunInv, DumpProgram, Reply,
      Raise, Throw, CatchLabel, Proceed, GoWrong, Goto, dbVars, diskVars,
      runVars, poolVars, purseVars
<1>1. TypeOK'
  BY DEF Mishap, Label, RequestCalls, FundingCalls, CliCalls, DeployCalls,
       ConfirmCalls, CatchCalls, RunCalls, Stopped
<1>2. RunInv(d)'
  BY DEF MoneyInv, CliInv, DiskInv, WalletInv, StatusInv, Unfunded, Deploying,
       Swept, WithWallet, RequestCalls, FundingCalls, CliCalls, DeployCalls,
       ConfirmCalls, CatchCalls, RunCalls, Stopped
<1>3. \A e \in Deployments \ {d} : Untouched(e) BY DEF Untouched
<1>4. ActiveRequestIsLive' BY <1>1, ActiveFrame
<1> QED BY <1>1, <1>2, <1>3, <1>4, Frame

LEMMA CheckTreasuryKeeps ==
  ASSUME IInv, NEW d \in Deployments, CheckTreasury(d)
  PROVE  IInv'
<1> USE DeploymentAssumption DEF IInv, TypeOK, RunInv, CheckTreasury, Raise,
      Throw, CatchLabel, Proceed, GoWrong, Goto, dbVars, diskVars, runVars,
      poolVars, purseVars
<1>1. TypeOK'
  BY DEF Mishap, Label, RequestCalls, FundingCalls, CliCalls, DeployCalls,
       ConfirmCalls, CatchCalls, RunCalls, Stopped
<1>2. RunInv(d)'
  BY DEF MoneyInv, CliInv, DiskInv, WalletInv, StatusInv, Unfunded, Deploying,
       Swept, WithWallet, RequestCalls, FundingCalls, CliCalls, DeployCalls,
       ConfirmCalls, CatchCalls, RunCalls, Stopped
<1>3. \A e \in Deployments \ {d} : Untouched(e) BY DEF Untouched
<1>4. ActiveRequestIsLive' BY <1>1, ActiveFrame
<1> QED BY <1>1, <1>2, <1>3, <1>4, Frame

LEMMA SyncBeforeFundingKeeps ==
  ASSUME IInv, NEW d \in Deployments, SyncBeforeFunding(d)
  PROVE  IInv'
<1> USE DEF IInv, TypeOK, RunInv
<1>1. /\ pc[d] = "syncing"
      /\ pc' = [pc EXCEPT ![d] = "funding"]
      /\ mishaps' = mishaps \/ mishaps' = [mishaps EXCEPT ![d] = @ \cup {"sync"}]
      /\ liquid' \in {liquid, treasury} /\ syncInFlight' \in BOOLEAN
      /\ UNCHANGED <<status, deployer, metaFile, keypairFile, dumps, hasWallet,
                     recovered, treasury, fundInFlight, request, wallet, buffer,
                     program, drawn, crashes>>
  BY DEF SyncBeforeFunding, SyncLiquidBalance, Proceed, GoWrong, Goto, dbVars,
         diskVars, runVars, purseVars
<1>2. TypeOK'
  <2>1. pc' \in [Deployments -> Label]
    BY <1>1 DEF Label, RunCalls, FundingCalls, CatchCalls
  <2>2. mishaps' \in [Deployments -> SUBSET Mishap] BY <1>1 DEF Mishap
  <2> QED BY <1>1, <2>1, <2>2
<1>3. RunInv(d)'
  <2>1. mishaps[d] \subseteq mishaps'[d] BY <1>1
  <2>2. MoneyInv(d)' /\ CliInv(d)' /\ DiskInv(d)'
    BY <1>1, <2>1 DEF MoneyInv, CliInv, DiskInv, Unfunded, Deploying,
             RequestCalls, FundingCalls, CliCalls, ConfirmCalls
  <2>3. WalletInv(d)'
    BY <1>1, <2>1 DEF WalletInv, Swept, WithWallet, RunCalls, FundingCalls
  <2>4. StatusInv(d)' BY <1>1, <2>1 DEF StatusInv, CatchCalls, Stopped
  <2> QED BY <2>2, <2>3, <2>4
<1>4. \A e \in Deployments \ {d} : Untouched(e) BY <1>1 DEF Untouched
<1>5. ActiveRequestIsLive' BY <1>1, <1>2, ActiveFrame
<1> QED BY <1>2, <1>3, <1>4, <1>5, Frame

LEMMA SyncForRetryKeeps ==
  ASSUME IInv, NEW d \in Deployments, SyncForRetry(d)
  PROVE  IInv'
<1> USE DEF IInv, TypeOK, RunInv
<1>1. /\ pc[d] = "resyncing"
      /\ \/ pc' = [pc EXCEPT ![d] = "refunding"]
         \/ pc' = [pc EXCEPT ![d] = "catchSweep"]
      /\ mishaps' = mishaps \/ mishaps' = [mishaps EXCEPT ![d] = @ \cup {"sync"}]
      /\ liquid' \in {liquid, treasury} /\ syncInFlight' \in BOOLEAN
      /\ UNCHANGED <<status, deployer, metaFile, keypairFile, dumps, hasWallet,
                     recovered, treasury, fundInFlight, request, wallet, buffer,
                     program, drawn, crashes>>
  BY DEF SyncForRetry, SyncLiquidBalance, Proceed, GoWrong, Goto, dbVars,
         diskVars, runVars, purseVars
<1>2. TypeOK'
  <2>1. pc' \in [Deployments -> Label]
    BY <1>1 DEF Label, RunCalls, FundingCalls, CatchCalls
  <2>2. mishaps' \in [Deployments -> SUBSET Mishap] BY <1>1 DEF Mishap
  <2> QED BY <1>1, <2>1, <2>2
<1>3. RunInv(d)'
  <2>1. mishaps[d] \subseteq mishaps'[d] BY <1>1
  <2>2. MoneyInv(d)' /\ CliInv(d)' /\ DiskInv(d)'
    BY <1>1, <2>1 DEF MoneyInv, CliInv, DiskInv, Unfunded, Deploying,
             RequestCalls, FundingCalls, CliCalls, ConfirmCalls
  <2>3. WalletInv(d)'
    BY <1>1, <2>1 DEF WalletInv, Swept, WithWallet, RunCalls, FundingCalls
  <2>4. StatusInv(d)' BY <1>1, <2>1 DEF StatusInv, CatchCalls, Stopped
  <2> QED BY <2>2, <2>3, <2>4
<1>4. \A e \in Deployments \ {d} : Untouched(e) BY <1>1 DEF Untouched
<1>5. ActiveRequestIsLive' BY <1>1, <1>2, ActiveFrame
<1> QED BY <1>2, <1>3, <1>4, <1>5, Frame

LEMMA FundFirstKeeps ==
  ASSUME IInv, NEW d \in Deployments, FundFirst(d)
  PROVE  IInv'
<1> USE DeploymentAssumption DEF IInv, TypeOK, RunInv, FundFirst,
      FundTemporaryWallet, PayWallet, CanFund, Reply, Raise, Throw,
      CatchLabel, Proceed, GoWrong, Goto, dbVars, diskVars, runVars, poolVars,
      purseVars
<1>1. TypeOK'
  <2>1. pc' \in [Deployments -> Label]
    BY DEF Label, RequestCalls, FundingCalls, CliCalls, DeployCalls,
         ConfirmCalls, CatchCalls, RunCalls, Stopped
  <2>2. mishaps' \in [Deployments -> SUBSET Mishap] BY DEF Mishap
  <2>3. treasury' \in Nat /\ liquid' \in Nat BY DEF CanFund
  <2>4. wallet' \in [Deployments -> Nat] /\ drawn' \in [Deployments -> Nat]
    OBVIOUS
  <2>5. fundInFlight' \subseteq Deployments OBVIOUS
  <2>6. request' \in [Programs -> Request]
    <3>1. PayWallet(d) \/ UNCHANGED request OBVIOUS
    <3> QED BY <3>1, PayWalletRequest
  <2> QED BY <2>1, <2>2, <2>3, <2>4, <2>5, <2>6
<1>2. RunInv(d)'
  BY DEF MoneyInv, CliInv, DiskInv, WalletInv, StatusInv, Unfunded, Deploying,
       Swept, WithWallet, RequestCalls, FundingCalls, CliCalls, DeployCalls,
       ConfirmCalls, CatchCalls, RunCalls, Stopped
<1>3. \A e \in Deployments \ {d} : Untouched(e) BY DEF Untouched
<1>4. ActiveRequestIsLive'
  <2>1. PayWallet(d) \/ UNCHANGED request OBVIOUS
  <2> QED BY <2>1, PayWalletActive, ActiveFrame
<1> QED BY <1>1, <1>2, <1>3, <1>4, Frame

LEMMA FundRetryKeeps ==
  ASSUME IInv, NEW d \in Deployments, FundRetry(d)
  PROVE  IInv'
<1> USE DeploymentAssumption DEF IInv, TypeOK, RunInv, FundRetry,
      FundTemporaryWallet, PayWallet, CanFund, Reply, Raise, Throw,
      CatchLabel, Proceed, GoWrong, Goto, dbVars, diskVars, runVars, poolVars,
      purseVars
<1>1. TypeOK'
  <2>1. pc' \in [Deployments -> Label]
    BY DEF Label, RequestCalls, FundingCalls, CliCalls, DeployCalls,
         ConfirmCalls, CatchCalls, RunCalls, Stopped
  <2>2. mishaps' \in [Deployments -> SUBSET Mishap] BY DEF Mishap
  <2>3. treasury' \in Nat /\ liquid' \in Nat BY DEF CanFund
  <2>4. wallet' \in [Deployments -> Nat] /\ drawn' \in [Deployments -> Nat]
    OBVIOUS
  <2>5. fundInFlight' \subseteq Deployments OBVIOUS
  <2>6. request' \in [Programs -> Request]
    <3>1. PayWallet(d) \/ UNCHANGED request OBVIOUS
    <3> QED BY <3>1, PayWalletRequest
  <2> QED BY <2>1, <2>2, <2>3, <2>4, <2>5, <2>6
<1>2. RunInv(d)'
  BY DEF MoneyInv, CliInv, DiskInv, WalletInv, StatusInv, Unfunded, Deploying,
       Swept, WithWallet, RequestCalls, FundingCalls, CliCalls, DeployCalls,
       ConfirmCalls, CatchCalls, RunCalls, Stopped
<1>3. \A e \in Deployments \ {d} : Untouched(e) BY DEF Untouched
<1>4. ActiveRequestIsLive'
  <2>1. PayWallet(d) \/ UNCHANGED request OBVIOUS
  <2> QED BY <2>1, PayWalletActive, ActiveFrame
<1> QED BY <1>1, <1>2, <1>3, <1>4, Frame

LEMMA LateFundKeeps ==
  ASSUME IInv, NEW d \in Deployments, LateFund(d)
  PROVE  IInv'
<1> USE DeploymentAssumption DEF IInv, TypeOK, RunInv, LateFund, PayWallet,
      CanFund, Proceed, GoWrong, Goto, dbVars, diskVars, runVars, poolVars,
      purseVars
<1>1. TypeOK'
  <2>1. pc' \in [Deployments -> Label]
    BY DEF Label, RequestCalls, FundingCalls, CliCalls, DeployCalls,
         ConfirmCalls, CatchCalls, RunCalls, Stopped
  <2>2. mishaps' \in [Deployments -> SUBSET Mishap] BY DEF Mishap
  <2>3. treasury' \in Nat /\ liquid' \in Nat BY DEF CanFund
  <2>4. wallet' \in [Deployments -> Nat] /\ drawn' \in [Deployments -> Nat]
    OBVIOUS
  <2>5. fundInFlight' \subseteq Deployments OBVIOUS
  <2>6. request' \in [Programs -> Request] BY PayWalletRequest
  <2> QED BY <2>1, <2>2, <2>3, <2>4, <2>5, <2>6
<1>2. RunInv(d)'
  BY DEF MoneyInv, CliInv, DiskInv, WalletInv, StatusInv, Unfunded, Deploying,
       Swept, WithWallet, RequestCalls, FundingCalls, CliCalls, DeployCalls,
       ConfirmCalls, CatchCalls, RunCalls, Stopped
<1>3. \A e \in Deployments \ {d} : Untouched(e) BY DEF Untouched
<1>4. ActiveRequestIsLive' BY PayWalletActive
<1> QED BY <1>1, <1>2, <1>3, <1>4, Frame

-----------------------------------------------------------------------------
(* processDeployment: the CLI. *)

LEMMA MarkDeployingKeeps ==
  ASSUME IInv, NEW d \in Deployments, MarkDeploying(d)
  PROVE  IInv'
<1> USE DeploymentAssumption DEF IInv, TypeOK, RunInv, MarkDeploying,
      SetStatus, Reply, Raise, Throw, CatchLabel, Proceed, GoWrong, Goto,
      dbVars, diskVars, runVars, poolVars, purseVars
<1>1. TypeOK'
  BY DEF Mishap, Status, Label, RequestCalls, FundingCalls, CliCalls,
       DeployCalls, ConfirmCalls, CatchCalls, RunCalls, Stopped
<1>2. RunInv(d)'
  BY DEF MoneyInv, CliInv, DiskInv, WalletInv, StatusInv, Unfunded, Deploying,
       Swept, WithWallet, RequestCalls, FundingCalls, CliCalls, DeployCalls,
       ConfirmCalls, CatchCalls, RunCalls, Stopped
<1>3. \A e \in Deployments \ {d} : Untouched(e) BY DEF Untouched
<1>4. ActiveRequestIsLive' BY <1>1, ActiveFrame
<1> QED BY <1>1, <1>2, <1>3, <1>4, Frame

LEMMA StartDeployKeeps ==
  ASSUME IInv, NEW d \in Deployments, StartDeploy(d)
  PROVE  IInv'
<1> USE DeploymentAssumption DEF IInv, TypeOK, RunInv, StartDeploy, StartCli,
      CliCanStart, Raise, Throw, CatchLabel, Proceed, GoWrong, Goto, dbVars,
      diskVars, runVars, poolVars, purseVars
<1>1. TypeOK'
  BY DEF Mishap, Label, RequestCalls, FundingCalls, CliCalls, DeployCalls,
       ConfirmCalls, CatchCalls, RunCalls, Stopped
<1>2. RunInv(d)'
  BY DEF MoneyInv, CliInv, DiskInv, WalletInv, StatusInv, Unfunded, Deploying,
       Swept, WithWallet, RequestCalls, FundingCalls, CliCalls, DeployCalls,
       ConfirmCalls, CatchCalls, RunCalls, Stopped
<1>3. \A e \in Deployments \ {d} : Untouched(e) BY DEF Untouched
<1>4. ActiveRequestIsLive' BY <1>1, ActiveFrame
<1> QED BY <1>1, <1>2, <1>3, <1>4, Frame

LEMMA EndDeployKeeps ==
  ASSUME IInv, NEW d \in Deployments, EndDeploy(d)
  PROVE  IInv'
<1> USE DeploymentAssumption DEF IInv, TypeOK, RunInv, EndDeploy, EndCli,
      GoLive, Raise, Throw, CatchLabel, Proceed, GoWrong, Goto, dbVars,
      diskVars, runVars, poolVars, purseVars
<1>1. TypeOK'
  BY DEF Mishap, CliInv, Label, RequestCalls, FundingCalls, CliCalls,
       DeployCalls, ConfirmCalls, CatchCalls, RunCalls, Stopped
<1>2. RunInv(d)'
  BY DEF MoneyInv, CliInv, DiskInv, WalletInv, StatusInv, Unfunded, Deploying,
       Swept, WithWallet, RequestCalls, FundingCalls, CliCalls, DeployCalls,
       ConfirmCalls, CatchCalls, RunCalls, Stopped
<1>3. \A e \in Deployments \ {d} : Untouched(e) BY DEF Untouched
<1>4. ActiveRequestIsLive' BY <1>1, ActiveFrame
<1> QED BY <1>1, <1>2, <1>3, <1>4, Frame

LEMMA RecoverBufferKeeps ==
  ASSUME IInv, NEW d \in Deployments, RecoverBuffer(d)
  PROVE  IInv'
<1> USE DeploymentAssumption DEF IInv, TypeOK, RunInv, RecoverBuffer, Raise,
      Throw, CatchLabel, Proceed, GoWrong, Goto, dbVars, diskVars, runVars,
      poolVars, purseVars
<1>1. TypeOK'
  BY DEF Mishap, Label, RequestCalls, FundingCalls, CliCalls, DeployCalls,
       ConfirmCalls, CatchCalls, RunCalls, Stopped
<1>2. RunInv(d)'
  BY DEF MoneyInv, CliInv, DiskInv, WalletInv, StatusInv, Unfunded, Deploying,
       Swept, WithWallet, RequestCalls, FundingCalls, CliCalls, DeployCalls,
       ConfirmCalls, CatchCalls, RunCalls, Stopped
<1>3. \A e \in Deployments \ {d} : Untouched(e) BY DEF Untouched
<1>4. ActiveRequestIsLive' BY <1>1, ActiveFrame
<1> QED BY <1>1, <1>2, <1>3, <1>4, Frame

LEMMA StartRedeployKeeps ==
  ASSUME IInv, NEW d \in Deployments, StartRedeploy(d)
  PROVE  IInv'
<1> USE DeploymentAssumption DEF IInv, TypeOK, RunInv, StartRedeploy,
      StartCli, CliCanStart, Raise, Throw, CatchLabel, Proceed, GoWrong, Goto,
      dbVars, diskVars, runVars, poolVars, purseVars
<1>1. TypeOK'
  BY DEF Mishap, Label, RequestCalls, FundingCalls, CliCalls, DeployCalls,
       ConfirmCalls, CatchCalls, RunCalls, Stopped
<1>2. RunInv(d)'
  BY DEF MoneyInv, CliInv, DiskInv, WalletInv, StatusInv, Unfunded, Deploying,
       Swept, WithWallet, RequestCalls, FundingCalls, CliCalls, DeployCalls,
       ConfirmCalls, CatchCalls, RunCalls, Stopped
<1>3. \A e \in Deployments \ {d} : Untouched(e) BY DEF Untouched
<1>4. ActiveRequestIsLive' BY <1>1, ActiveFrame
<1> QED BY <1>1, <1>2, <1>3, <1>4, Frame

LEMMA EndRedeployKeeps ==
  ASSUME IInv, NEW d \in Deployments, EndRedeploy(d)
  PROVE  IInv'
<1> USE DeploymentAssumption DEF IInv, TypeOK, RunInv, EndRedeploy, EndCli,
      GoLive, Raise, Throw, CatchLabel, Proceed, GoWrong, Goto, dbVars,
      diskVars, runVars, poolVars, purseVars
<1>1. TypeOK'
  BY DEF Mishap, CliInv, Label, RequestCalls, FundingCalls, CliCalls,
       DeployCalls, ConfirmCalls, CatchCalls, RunCalls, Stopped
<1>2. RunInv(d)'
  BY DEF MoneyInv, CliInv, DiskInv, WalletInv, StatusInv, Unfunded, Deploying,
       Swept, WithWallet, RequestCalls, FundingCalls, CliCalls, DeployCalls,
       ConfirmCalls, CatchCalls, RunCalls, Stopped
<1>3. \A e \in Deployments \ {d} : Untouched(e) BY DEF Untouched
<1>4. ActiveRequestIsLive' BY <1>1, ActiveFrame
<1> QED BY <1>1, <1>2, <1>3, <1>4, Frame

LEMMA OrphanEndsKeeps ==
  ASSUME IInv, NEW d \in Deployments, OrphanEnds(d)
  PROVE  IInv'
<1> USE DeploymentAssumption DEF IInv, TypeOK, RunInv, OrphanEnds, GoLive,
      Proceed, GoWrong, Goto, dbVars, diskVars, runVars, poolVars, purseVars
<1>1. TypeOK'
  BY DEF Mishap, CliInv, Label, RequestCalls, FundingCalls, CliCalls,
       DeployCalls, ConfirmCalls, CatchCalls, RunCalls, Stopped
<1>2. RunInv(d)'
  BY DEF MoneyInv, CliInv, DiskInv, WalletInv, StatusInv, Unfunded, Deploying,
       Swept, WithWallet, RequestCalls, FundingCalls, CliCalls, DeployCalls,
       ConfirmCalls, CatchCalls, RunCalls, Stopped
<1>3. \A e \in Deployments \ {d} : Untouched(e) BY DEF Untouched
<1>4. ActiveRequestIsLive' BY <1>1, ActiveFrame
<1> QED BY <1>1, <1>2, <1>3, <1>4, Frame

-----------------------------------------------------------------------------
(* processDeployment: confirming and the catch block. *)

LEMMA SweepRestKeeps ==
  ASSUME IInv, NEW d \in Deployments, SweepRest(d)
  PROVE  IInv'
<1> USE DeploymentAssumption DEF IInv, TypeOK, RunInv, SweepRest, Sweep,
      Proceed, GoWrong, Goto, dbVars, diskVars, runVars, poolVars, purseVars
<1>1. TypeOK'
  BY DEF Mishap, Label, RequestCalls, FundingCalls, CliCalls, DeployCalls,
       ConfirmCalls, CatchCalls, RunCalls, Stopped
<1>2. RunInv(d)'
  <2>1. MoneyInv(d)'
    BY DEF MoneyInv, CliInv, Unfunded, RequestCalls, FundingCalls
  <2>2. CliInv(d)' BY DEF CliInv, MoneyInv, Deploying, CliCalls, ConfirmCalls
  <2>3. DiskInv(d)' BY DEF DiskInv, CliInv, MoneyInv
  <2>4. WalletInv(d)'
    BY DEF WalletInv, MoneyInv, Swept, WithWallet, Unfunded, Label,
         RequestCalls, FundingCalls, CliCalls, DeployCalls, ConfirmCalls,
         CatchCalls, RunCalls, Stopped
  <2>5. StatusInv(d)'
    BY DEF StatusInv, CliInv, ConfirmCalls, CatchCalls, Stopped
  <2> QED BY <2>1, <2>2, <2>3, <2>4, <2>5
<1>3. \A e \in Deployments \ {d} : Untouched(e) BY DEF Untouched
<1>4. ActiveRequestIsLive' BY <1>1, ActiveFrame
<1> QED BY <1>1, <1>2, <1>3, <1>4, Frame

LEMMA CatchSweepKeeps ==
  ASSUME IInv, NEW d \in Deployments, CatchSweep(d)
  PROVE  IInv'
<1> USE DeploymentAssumption DEF IInv, TypeOK, RunInv, CatchSweep, Sweep,
      Proceed, GoWrong, Goto, dbVars, diskVars, runVars, poolVars, purseVars
<1>1. TypeOK'
  BY DEF Mishap, Label, RequestCalls, FundingCalls, CliCalls, DeployCalls,
       ConfirmCalls, CatchCalls, RunCalls, Stopped
<1>2. RunInv(d)'
  <2>1. MoneyInv(d)'
    BY DEF MoneyInv, CliInv, Unfunded, RequestCalls, FundingCalls
  <2>2. CliInv(d)' BY DEF CliInv, MoneyInv, Deploying, CliCalls, ConfirmCalls
  <2>3. DiskInv(d)' BY DEF DiskInv, CliInv, MoneyInv
  <2>4. WalletInv(d)'
    BY DEF WalletInv, MoneyInv, Swept, WithWallet, Unfunded, Label,
         RequestCalls, FundingCalls, CliCalls, DeployCalls, ConfirmCalls,
         CatchCalls, RunCalls, Stopped
  <2>5. StatusInv(d)'
    BY DEF StatusInv, CliInv, ConfirmCalls, CatchCalls, Stopped
  <2> QED BY <2>1, <2>2, <2>3, <2>4, <2>5
<1>3. \A e \in Deployments \ {d} : Untouched(e) BY DEF Untouched
<1>4. ActiveRequestIsLive' BY <1>1, ActiveFrame
<1> QED BY <1>1, <1>2, <1>3, <1>4, Frame

LEMMA ConfirmSuccessKeeps ==
  ASSUME IInv, NEW d \in Deployments, ConfirmSuccess(d)
  PROVE  IInv'
<1> USE DeploymentAssumption DEF IInv, TypeOK, RunInv, ConfirmSuccess,
      CanConfirm, Reply, Raise, Throw, CatchLabel, Proceed, GoWrong, Goto,
      dbVars, diskVars, runVars, poolVars, purseVars
<1>1. TypeOK'
  <2>1. pc' \in [Deployments -> Label]
    BY DEF Label, RequestCalls, FundingCalls, CliCalls, DeployCalls,
         ConfirmCalls, CatchCalls, RunCalls, Stopped
  <2>2. mishaps' \in [Deployments -> SUBSET Mishap] BY DEF Mishap
  <2>3. request' \in [Programs -> Request] BY DEF Request
  <2>4. liquid' \in Nat OBVIOUS
  <2> QED BY <2>1, <2>2, <2>3, <2>4
<1>2. RunInv(d)'
  BY DEF MoneyInv, CliInv, DiskInv, WalletInv, StatusInv, Unfunded, Deploying,
       Swept, WithWallet, RequestCalls, FundingCalls, CliCalls, DeployCalls,
       ConfirmCalls, CatchCalls, RunCalls, Stopped
<1>3. \A e \in Deployments \ {d} : Untouched(e) BY DEF Untouched
<1>4. ActiveRequestIsLive'
  BY DEF Request, ActiveRequestIsLive, CliInv, ConfirmCalls
<1> QED BY <1>1, <1>2, <1>3, <1>4, Frame

LEMMA RecordSuccessKeeps ==
  ASSUME IInv, NEW d \in Deployments, RecordSuccess(d)
  PROVE  IInv'
<1> USE DeploymentAssumption DEF IInv, TypeOK, RunInv, RecordSuccess,
      SetStatus, Reply, Raise, Throw, CatchLabel, Proceed, GoWrong, Goto,
      dbVars, diskVars, runVars, poolVars, purseVars
<1>1. TypeOK'
  BY DEF Mishap, Status, Label, RequestCalls, FundingCalls, CliCalls,
       DeployCalls, ConfirmCalls, CatchCalls, RunCalls, Stopped
<1>2. RunInv(d)'
  <2>1. MoneyInv(d)'
    BY DEF MoneyInv, CliInv, Unfunded, RequestCalls, FundingCalls
  <2>2. CliInv(d)' BY DEF CliInv, MoneyInv, Deploying, CliCalls, ConfirmCalls
  <2>3. DiskInv(d)' BY DEF DiskInv, CliInv, MoneyInv
  <2>4. WalletInv(d)'
    BY DEF WalletInv, MoneyInv, Swept, WithWallet, Unfunded, Label,
         RequestCalls, FundingCalls, CliCalls, DeployCalls, ConfirmCalls,
         CatchCalls, RunCalls, Stopped
  <2>5. StatusInv(d)'
    <3>1. pc[d] = "recordingSuccess" /\ status[d] # "none" /\ program'[d] >= Rent
      BY DEF StatusInv, CliInv, ConfirmCalls
    <3>2. CASE status'[d] = "success" /\ deployer'[d] = "wallet"
      <4>1. \/ pc'[d] = "counting"
            \/ pc'[d] = "catchSweep" /\ "record" \in mishaps'[d]
        BY <3>1 DEF WalletInv, WithWallet, RunCalls, ConfirmCalls
      <4> QED BY <3>1, <3>2, <4>1 DEF StatusInv, CatchCalls, Stopped
    <3>3. CASE status'[d] = status[d] /\ pc'[d] = "catchSweep"
      BY <3>1, <3>3 DEF StatusInv, CatchCalls, Stopped
    <3> QED BY <3>1, <3>2, <3>3 DEF WalletInv, WithWallet, RunCalls,
             ConfirmCalls
  <2> QED BY <2>1, <2>2, <2>3, <2>4, <2>5
<1>3. \A e \in Deployments \ {d} : Untouched(e) BY DEF Untouched
<1>4. ActiveRequestIsLive' BY <1>1, ActiveFrame
<1> QED BY <1>1, <1>2, <1>3, <1>4, Frame

LEMMA CountSuccessKeeps ==
  ASSUME IInv, NEW d \in Deployments, CountSuccess(d)
  PROVE  IInv'
<1> USE DeploymentAssumption DEF IInv, TypeOK, RunInv, CountSuccess, Raise,
      Throw, CatchLabel, Proceed, GoWrong, Goto, dbVars, diskVars, runVars,
      poolVars, purseVars
<1>1. TypeOK'
  BY DEF Mishap, Label, RequestCalls, FundingCalls, CliCalls, DeployCalls,
       ConfirmCalls, CatchCalls, RunCalls, Stopped
<1>2. RunInv(d)'
  <2>1. MoneyInv(d)'
    BY DEF MoneyInv, CliInv, Unfunded, RequestCalls, FundingCalls
  <2>2. CliInv(d)' BY DEF CliInv, MoneyInv, Deploying, CliCalls, ConfirmCalls
  <2>3. DiskInv(d)' BY DEF DiskInv, CliInv, MoneyInv
  <2>4. WalletInv(d)'
    BY DEF WalletInv, MoneyInv, Swept, WithWallet, Unfunded, Label,
         RequestCalls, FundingCalls, CliCalls, DeployCalls, ConfirmCalls,
         CatchCalls, RunCalls, Stopped
  <2>5. StatusInv(d)'
    <3>1. status'[d] = "success" /\ program'[d] >= Rent /\ deployer'[d] = "wallet"
      BY DEF StatusInv
    <3>2. pc'[d] = "done" \/ (pc'[d] = "catchSweep" /\ "stats" \in mishaps'[d])
      BY DEF WalletInv, WithWallet, RunCalls, ConfirmCalls
    <3> QED BY <3>1, <3>2 DEF StatusInv, CatchCalls, Stopped
  <2> QED BY <2>1, <2>2, <2>3, <2>4, <2>5
<1>3. \A e \in Deployments \ {d} : Untouched(e) BY DEF Untouched
<1>4. ActiveRequestIsLive' BY <1>1, ActiveFrame
<1> QED BY <1>1, <1>2, <1>3, <1>4, Frame

LEMMA ConfirmFailureKeeps ==
  ASSUME IInv, NEW d \in Deployments, ConfirmFailure(d)
  PROVE  IInv'
<1> USE DeploymentAssumption DEF IInv, TypeOK, RunInv, ConfirmFailure,
      Proceed, GoWrong, Goto, dbVars, diskVars, runVars, poolVars, purseVars
<1>1. TypeOK'
  <2>1. pc' \in [Deployments -> Label]
    BY DEF Label, RequestCalls, FundingCalls, CliCalls, DeployCalls,
         ConfirmCalls, CatchCalls, RunCalls, Stopped
  <2>2. mishaps' \in [Deployments -> SUBSET Mishap] BY DEF Mishap
  <2>3. request' \in [Programs -> Request]
    <3> DEFINE p == ProgramOf[d]
    <3>1. \/ UNCHANGED request
          \/ request' = [request EXCEPT ![p] = [request[p] EXCEPT !.status = "failed"]]
      OBVIOUS
    <3>2. p \in Programs /\ request[p] \in Request OBVIOUS
    <3>3. [request[p] EXCEPT !.status = "failed"] \in Request BY <3>2 DEF
        Request
    <3> QED BY <3>1, <3>2, <3>3
  <2> QED BY <2>1, <2>2, <2>3
<1>2. RunInv(d)'
  BY DEF MoneyInv, CliInv, DiskInv, WalletInv, StatusInv, Unfunded, Deploying,
       Swept, WithWallet, RequestCalls, FundingCalls, CliCalls, DeployCalls,
       ConfirmCalls, CatchCalls, RunCalls, Stopped
<1>3. \A e \in Deployments \ {d} : Untouched(e) BY DEF Untouched
<1>4. ActiveRequestIsLive' BY <1>1, ActiveFrame DEF Request
<1> QED BY <1>1, <1>2, <1>3, <1>4, Frame

LEMMA CountFailureKeeps ==
  ASSUME IInv, NEW d \in Deployments, CountFailure(d)
  PROVE  IInv'
<1> USE DeploymentAssumption DEF IInv, TypeOK, RunInv, CountFailure, Proceed,
      GoWrong, Goto, dbVars, diskVars, runVars, poolVars, purseVars
<1>1. TypeOK'
  BY DEF Mishap, Label, RequestCalls, FundingCalls, CliCalls, DeployCalls,
       ConfirmCalls, CatchCalls, RunCalls, Stopped
<1>2. RunInv(d)'
  BY DEF MoneyInv, CliInv, DiskInv, WalletInv, StatusInv, Unfunded, Deploying,
       Swept, WithWallet, RequestCalls, FundingCalls, CliCalls, DeployCalls,
       ConfirmCalls, CatchCalls, RunCalls, Stopped
<1>3. \A e \in Deployments \ {d} : Untouched(e) BY DEF Untouched
<1>4. ActiveRequestIsLive' BY <1>1, ActiveFrame
<1> QED BY <1>1, <1>2, <1>3, <1>4, Frame

LEMMA RecordFailureKeeps ==
  ASSUME IInv, NEW d \in Deployments, RecordFailure(d)
  PROVE  IInv'
<1> USE DeploymentAssumption DEF IInv, TypeOK, RunInv, RecordFailure,
      MarkFailed, SetStatus, Proceed, GoWrong, Goto, dbVars, diskVars,
      runVars, poolVars, purseVars
<1>1. TypeOK'
  BY DEF Mishap, Status, Label, RequestCalls, FundingCalls, CliCalls,
       DeployCalls, ConfirmCalls, CatchCalls, RunCalls, Stopped
<1>2. RunInv(d)'
  <2>1. MoneyInv(d)'
    BY DEF MoneyInv, CliInv, Unfunded, RequestCalls, FundingCalls
  <2>2. CliInv(d)' BY DEF CliInv, MoneyInv, Deploying, CliCalls, ConfirmCalls
  <2>3. DiskInv(d)' BY DEF DiskInv, CliInv, MoneyInv
  <2>4. WalletInv(d)'
    BY DEF WalletInv, MoneyInv, Swept, WithWallet, Unfunded, Label,
         RequestCalls, FundingCalls, CliCalls, DeployCalls, ConfirmCalls,
         CatchCalls, RunCalls, Stopped
  <2>5. StatusInv(d)'
    <3>1. pc[d] = "catchRecord" /\ pc'[d] = "done" /\ UNCHANGED <<deployer, program>>
      OBVIOUS
    <3>2. \/ status'[d] = "failed"
          \/ status'[d] = status[d] /\ "final" \in mishaps'[d]
      OBVIOUS
    <3> QED BY <3>1, <3>2 DEF StatusInv, CatchCalls, Stopped
  <2> QED BY <2>1, <2>2, <2>3, <2>4, <2>5
<1>3. \A e \in Deployments \ {d} : Untouched(e) BY DEF Untouched
<1>4. ActiveRequestIsLive' BY <1>1, ActiveFrame
<1> QED BY <1>1, <1>2, <1>3, <1>4, Frame

-----------------------------------------------------------------------------
(* Steps that belong to no single run. *)

LEMMA EstimateCostsKeeps ==
  ASSUME IInv, NEW p \in EstimatedPrograms, EstimateCosts(p)
  PROVE  IInv'
<1> USE DEF IInv, EstimateCosts, dbVars, runVars, poolVars, purseVars
<1>1. TypeOK' BY DEF TypeOK
<1>2. \A e \in Deployments : Untouched(e) BY DEF Untouched
<1>3. ActiveRequestIsLive' BY DEF ActiveRequestIsLive
<1> QED BY <1>1, <1>2, <1>3, Frame

LEMMA LateSyncKeeps ==
  ASSUME IInv, LateSync
  PROVE  IInv'
<1> USE DEF IInv, LateSync, dbVars, diskVars, runVars, purseVars
<1>1. TypeOK' BY DEF TypeOK
<1>2. \A e \in Deployments : Untouched(e) BY DEF Untouched
<1>3. ActiveRequestIsLive' BY DEF ActiveRequestIsLive
<1> QED BY <1>1, <1>2, <1>3, Frame

LEMMA StutteringKeeps ==
  ASSUME IInv, UNCHANGED vars
  PROVE  IInv'
<1> USE DEF IInv, vars, dbVars, diskVars, runVars, poolVars, purseVars
<1>1. TypeOK' BY DEF TypeOK
<1>2. \A e \in Deployments : Untouched(e) BY DEF Untouched
<1>3. ActiveRequestIsLive' BY DEF ActiveRequestIsLive
<1> QED BY <1>1, <1>2, <1>3, Frame

LEMMA CrashKeeps ==
  ASSUME IInv, Crash
  PROVE  IInv'
<1> USE DeploymentAssumption
    DEF IInv, TypeOK, RunInv, Crash, AfterCrash, dbVars, diskVars, poolVars,
        purseVars
<1>1. TypeOK'
  <2>1. pc' \in [Deployments -> Label]
    BY DEF Label, RequestCalls, FundingCalls, CliCalls, DeployCalls,
           ConfirmCalls, CatchCalls, RunCalls, Stopped
  <2>2. mishaps' \in [Deployments -> SUBSET Mishap] BY DEF Mishap
  <2>3. hasWallet' \in [Deployments -> BOOLEAN] /\ crashes' \in 0 .. MaxCrashes
    OBVIOUS
  <2> QED BY <2>1, <2>2, <2>3
<1>2. ASSUME NEW d \in Deployments PROVE RunInv(d)'
  <2>1. CASE pc[d] \in CliCalls
    <3>1. pc'[d] = "orphan" /\ mishaps[d] \subseteq mishaps'[d] BY <2>1
    <3> QED BY <2>1, <3>1
        DEF MoneyInv, CliInv, DiskInv, WalletInv, StatusInv, Unfunded,
            Deploying, Swept, WithWallet, RequestCalls, FundingCalls, CliCalls,
            DeployCalls, ConfirmCalls, CatchCalls, RunCalls, Stopped
  <2>2. CASE pc[d] \in (RequestCalls \cup RunCalls) \ CliCalls
    <3>1. pc'[d] = "dead" /\ mishaps[d] \subseteq mishaps'[d] BY <2>2
    <3> QED BY <2>2, <3>1
        DEF MoneyInv, CliInv, DiskInv, WalletInv, StatusInv, Unfunded,
            Deploying, Swept, WithWallet, RequestCalls, FundingCalls, CliCalls,
            DeployCalls, ConfirmCalls, CatchCalls, RunCalls, Stopped
  <2>3. CASE pc[d] \notin RequestCalls \cup RunCalls
    <3>1. pc'[d] = pc[d] /\ mishaps'[d] = mishaps[d]
      BY <2>3 DEF RunCalls, DeployCalls
    <3>2. Untouched(d) BY <2>3, <3>1 DEF Untouched
    <3> QED BY <3>2, Frame
  <2> QED BY <2>1, <2>2, <2>3
<1>3. ActiveRequestIsLive' BY DEF ActiveRequestIsLive
<1> QED BY <1>1, <1>2, <1>3

-----------------------------------------------------------------------------
(* Runs apart *)

\* What NeedsInv(e) reads is unchanged, but for the program that d deploys.
Aside(d) ==
  /\ \A e \in Deployments \ {d} :
       /\ pc'[e] = pc[e] /\ status'[e] = status[e] /\ mishaps'[e] = mishaps[e]
       /\ wallet'[e] = wallet[e] /\ recovered'[e] = recovered[e]
       /\ program'[e] = program[e] /\ drawn'[e] = drawn[e]
       /\ e \in keypairFile => e \in keypairFile'
  /\ \A p \in Programs \ {ProgramOf[d]} :
       request'[p] = request[p] /\ (p \in dumps => p \in dumps')

LEMMA AsideKeeps ==
  ASSUME ApartInv, NEW d \in Deployments, Aside(d), NeedsInv(d)'
  PROVE  ApartInv'
<1> SUFFICES ASSUME NEW e \in Deployments \ {d} PROVE NeedsInv(e)'
  BY DEF ApartInv
<1>1. Alone(e) => ProgramOf[e] \in Programs \ {ProgramOf[d]}
  BY DeploymentAssumption DEF Alone
<1> QED BY <1>1 DEF ApartInv, Aside, NeedsInv

\* A reply is the next label, or a mishap and the catch block.
LEMMA Replies ==
  ASSUME IInv, NEW d \in Deployments, NEW call, NEW l, Reply(d, call, l)
  PROVE  \/ pc'[d] = l /\ mishaps'[d] = mishaps[d]
         \/ /\ pc'[d] \in {"catchSweep", "catchCount"}
            /\ mishaps'[d] = mishaps[d] \cup {call}
<1>1. CASE Proceed(d, l)
  BY <1>1 DEF IInv, TypeOK, Proceed, Goto
<1>2. CASE Throw(d, call)
  <2>1. pc' = [pc EXCEPT ![d] = CatchLabel(d)]
    BY <1>2 DEF Throw, GoWrong, Goto
  <2>2. mishaps' = [mishaps EXCEPT ![d] = @ \cup {call}]
    BY <1>2 DEF Throw, GoWrong
  <2> QED BY <2>1, <2>2 DEF IInv, TypeOK, CatchLabel
<1> QED BY <1>1, <1>2 DEF Reply

LEMMA ExecuteDeployApart ==
  ASSUME IInv, ApartInv, NEW d \in Deployments, ExecuteDeploy(d)
  PROVE  ApartInv'
<1> USE DeploymentAssumption DEF IInv, TypeOK, ExecuteDeploy, SetStatus,
      Proceed, GoWrong, Goto, dbVars, diskVars, runVars, poolVars, purseVars
<1>1. Aside(d)
  BY DEF Aside
<1>2. NeedsInv(d)'
  BY DEF ApartInv, NeedsInv, RunInv, MoneyInv, CliInv, StatusInv, LateMishaps,
         Request, Dumped, Persisted, Recovery, Funded, Failing, Unfunded,
         Deploying, RequestCalls, FundingCalls, CliCalls, DeployCalls,
         ConfirmCalls, CatchCalls, RunCalls, Stopped
<1> QED BY <1>1, <1>2, AsideKeeps

LEMMA CreateDeployRequestApart ==
  ASSUME IInv, ApartInv, NEW d \in Deployments, CreateDeployRequest(d)
  PROVE  ApartInv'
<1> USE DeploymentAssumption DEF IInv, TypeOK, CreateDeployRequest,
         AcceptRequest, Proceed, GoWrong, Goto, dbVars, diskVars, runVars,
         poolVars, purseVars
<1>1. Aside(d)
  BY DEF Aside
<1>2. NeedsInv(d)'
  BY DEF ApartInv, NeedsInv, RunInv, MoneyInv, CliInv, StatusInv, LateMishaps,
         Request, Dumped, Persisted, Recovery, Funded, Failing, Unfunded,
         Deploying, RequestCalls, FundingCalls, CliCalls, DeployCalls,
         ConfirmCalls, CatchCalls, RunCalls, Stopped
<1> QED BY <1>1, <1>2, AsideKeeps

LEMMA RecordRequestApart ==
  ASSUME IInv, ApartInv, NEW d \in Deployments, RecordRequest(d)
  PROVE  ApartInv'
<1> USE DeploymentAssumption DEF IInv, TypeOK, RecordRequest,
      Proceed, GoWrong, Goto, dbVars, diskVars, runVars, poolVars, purseVars
<1>1. Aside(d)
  BY DEF Aside
<1>2. NeedsInv(d)'
  BY DEF ApartInv, NeedsInv, RunInv, MoneyInv, CliInv, StatusInv, LateMishaps,
         Request, Dumped, Persisted, Recovery, Funded, Failing, Unfunded,
         Deploying, RequestCalls, FundingCalls, CliCalls, DeployCalls,
         ConfirmCalls, CatchCalls, RunCalls, Stopped
<1> QED BY <1>1, <1>2, AsideKeeps

LEMMA FailRequestApart ==
  ASSUME IInv, ApartInv, NEW d \in Deployments, FailRequest(d)
  PROVE  ApartInv'
<1> USE DeploymentAssumption DEF IInv, TypeOK, FailRequest, MarkFailed,
         SetStatus, Proceed, GoWrong, Goto, dbVars, diskVars, runVars, poolVars,
         purseVars
<1>1. Aside(d)
  BY DEF Aside
<1>2. NeedsInv(d)'
  BY DEF ApartInv, NeedsInv, RunInv, MoneyInv, CliInv, StatusInv, LateMishaps,
         Request, Dumped, Persisted, Recovery, Funded, Failing, Unfunded,
         Deploying, RequestCalls, FundingCalls, CliCalls, DeployCalls,
         ConfirmCalls, CatchCalls, RunCalls, Stopped
<1> QED BY <1>1, <1>2, AsideKeeps

LEMMA LoadDeploymentApart ==
  ASSUME IInv, ApartInv, NEW d \in Deployments, LoadDeployment(d)
  PROVE  ApartInv'
<1> USE DeploymentAssumption DEF IInv, TypeOK, LoadDeployment, PersistWallet,
         Throw, CatchLabel, Proceed, GoWrong, Goto, dbVars, diskVars, runVars,
         poolVars, purseVars
<1>1. Aside(d)
  BY DEF Aside
<1>2. NeedsInv(d)'
  BY DEF ApartInv, NeedsInv, RunInv, MoneyInv, CliInv, StatusInv, LateMishaps,
         Request, Dumped, Persisted, Recovery, Funded, Failing, Unfunded,
         Deploying, RequestCalls, FundingCalls, CliCalls, DeployCalls,
         ConfirmCalls, CatchCalls, RunCalls, Stopped
<1> QED BY <1>1, <1>2, AsideKeeps

LEMMA MarkDumpingApart ==
  ASSUME IInv, ApartInv, NEW d \in Deployments, MarkDumping(d)
  PROVE  ApartInv'
<1> USE DeploymentAssumption DEF IInv, TypeOK, MarkDumping, SetStatus, Reply,
         Throw, CatchLabel, Proceed, GoWrong, Goto, dbVars, diskVars, runVars,
         poolVars, purseVars
<1>1. Aside(d)
  BY DEF Aside
<1>2. NeedsInv(d)'
  BY DEF ApartInv, NeedsInv, RunInv, MoneyInv, CliInv, StatusInv, LateMishaps,
         Request, Dumped, Persisted, Recovery, Funded, Failing, Unfunded,
         Deploying, RequestCalls, FundingCalls, CliCalls, DeployCalls,
         ConfirmCalls, CatchCalls, RunCalls, Stopped
<1> QED BY <1>1, <1>2, AsideKeeps

LEMMA DumpProgramApart ==
  ASSUME IInv, ApartInv, NEW d \in Deployments, DumpProgram(d)
  PROVE  ApartInv'
<1> USE DeploymentAssumption DEF IInv, TypeOK, DumpProgram, Reply, Throw,
         CatchLabel, Proceed, GoWrong, Goto, dbVars, diskVars, runVars,
         poolVars, purseVars
<1>1. Aside(d)
  BY DEF Aside
<1>2. NeedsInv(d)'
  BY DEF ApartInv, NeedsInv, RunInv, MoneyInv, CliInv, StatusInv, LateMishaps,
         Request, Dumped, Persisted, Recovery, Funded, Failing, Unfunded,
         Deploying, RequestCalls, FundingCalls, CliCalls, DeployCalls,
         ConfirmCalls, CatchCalls, RunCalls, Stopped
<1> QED BY <1>1, <1>2, AsideKeeps

LEMMA CheckTreasuryApart ==
  ASSUME IInv, ApartInv, NEW d \in Deployments, CheckTreasury(d)
  PROVE  ApartInv'
<1> USE DeploymentAssumption DEF IInv, TypeOK, CheckTreasury, Throw, CatchLabel,
      Proceed, GoWrong, Goto, dbVars, diskVars, runVars, poolVars, purseVars
<1>1. Aside(d)
  BY DEF Aside
<1>2. NeedsInv(d)'
  BY DEF ApartInv, NeedsInv, RunInv, MoneyInv, CliInv, StatusInv, LateMishaps,
         Request, Dumped, Persisted, Recovery, Funded, Failing, Unfunded,
         Deploying, RequestCalls, FundingCalls, CliCalls, DeployCalls,
         ConfirmCalls, CatchCalls, RunCalls, Stopped
<1> QED BY <1>1, <1>2, AsideKeeps

LEMMA SyncBeforeFundingApart ==
  ASSUME IInv, ApartInv, NEW d \in Deployments, SyncBeforeFunding(d)
  PROVE  ApartInv'
<1> USE DeploymentAssumption
<1>1. /\ pc[d] = "syncing" /\ pc'[d] = "funding"
      /\ UNCHANGED <<wallet, recovered, keypairFile, dumps, request, program, drawn>>
  BY DEF IInv, TypeOK, SyncBeforeFunding, SyncLiquidBalance, Proceed, GoWrong,
         Goto, diskVars, runVars, purseVars
<1>2. mishaps'[d] = mishaps[d] \/ mishaps'[d] = mishaps[d] \cup {"sync"}
  BY DEF IInv, TypeOK, SyncBeforeFunding, SyncLiquidBalance, Proceed, GoWrong
<1>3. NeedsInv(d) BY DEF ApartInv
<1>4. NeedsInv(d)'
  BY <1>1, <1>2, <1>3 DEF NeedsInv, Dumped, Persisted, Recovery, Funded,
           Failing, CatchCalls
<1>5. Aside(d)
  BY DEF IInv, TypeOK, SyncBeforeFunding, SyncLiquidBalance, Proceed, GoWrong,
         Goto, dbVars, diskVars, runVars, poolVars, purseVars, Aside
<1> QED BY <1>4, <1>5, AsideKeeps

LEMMA SyncForRetryApart ==
  ASSUME IInv, ApartInv, NEW d \in Deployments, SyncForRetry(d)
  PROVE  ApartInv'
<1> USE DeploymentAssumption
<1>1. /\ pc[d] = "resyncing"
      /\ UNCHANGED <<wallet, recovered, keypairFile, dumps, request, program, drawn>>
  BY DEF SyncForRetry, SyncLiquidBalance, diskVars, runVars, purseVars
<1>2. pc'[d] \in {"refunding", "catchSweep"}
  BY DEF IInv, TypeOK, SyncForRetry, SyncLiquidBalance, Proceed, GoWrong, Goto
<1>3. mishaps'[d] = mishaps[d] \/ mishaps'[d] = mishaps[d] \cup {"sync"}
  BY DEF IInv, TypeOK, SyncForRetry, SyncLiquidBalance, Proceed, GoWrong
<1>4. NeedsInv(d) /\ drawn[d] = 0 /\ program[d] = 0
  BY <1>1 DEF ApartInv, IInv, RunInv, MoneyInv, Unfunded, FundingCalls
<1>5. NeedsInv(d)'
  BY <1>1, <1>2, <1>3, <1>4
        DEF NeedsInv, Dumped, Persisted, Recovery, Funded, Failing, CatchCalls
<1>6. Aside(d)
  BY DEF IInv, TypeOK, SyncForRetry, SyncLiquidBalance, Proceed, GoWrong, Goto,
         dbVars, diskVars, runVars, poolVars, purseVars, Aside
<1> QED BY <1>5, <1>6, AsideKeeps

LEMMA FundFirstApart ==
  ASSUME IInv, ApartInv, NEW d \in Deployments, FundFirst(d)
  PROVE  ApartInv'
<1> USE DeploymentAssumption
<1>1. /\ pc[d] = "funding"
      /\ UNCHANGED <<recovered, keypairFile, dumps, program>>
  BY DEF FundFirst, FundTemporaryWallet, diskVars, runVars
<1>2. NeedsInv(d) /\ wallet[d] = 0 /\ drawn[d] = 0 /\ program[d] = 0
  BY <1>1 DEF ApartInv, IInv, RunInv, MoneyInv, Unfunded, FundingCalls
<1>3. ASSUME PayWallet(d), Reply(d, "fund", "markDeploying") PROVE NeedsInv(d)'
  <2>1. wallet'[d] = Cost
    BY <1>2, <1>3 DEF IInv, TypeOK, PayWallet
  <2>2. /\ request'[ProgramOf[d]].status = "pendingDeployment"
        /\ request'[ProgramOf[d]].key = d
    BY <1>3, PayWalletRequest DEF IInv, TypeOK, Request, PayWallet, CanFund
  <2>3. \/ pc'[d] = "markDeploying" /\ mishaps'[d] = mishaps[d]
        \/ /\ pc'[d] \in {"catchSweep", "catchCount"}
           /\ mishaps'[d] = mishaps[d] \cup {"fund"}
    BY <1>3, Replies
  <2> QED BY <1>1, <1>2, <2>1, <2>2, <2>3
      DEF NeedsInv, Dumped, Persisted, Recovery, Funded, Failing, CatchCalls
<1>4. ASSUME UNCHANGED <<wallet, drawn, request>> PROVE NeedsInv(d)'
  <2>1. pc'[d] \in {"resyncing", "catchSweep", "catchCount"}
    BY <1>2, <1>4 DEF IInv, TypeOK, FundFirst, FundTemporaryWallet, PayWallet,
             Reply, Raise, Throw, CatchLabel, Proceed, GoWrong, Goto
  <2>2. mishaps'[d] = mishaps[d] \/ mishaps'[d] = mishaps[d] \cup {"fund"}
    BY DEF IInv, TypeOK, FundFirst, FundTemporaryWallet, Reply, Raise, Throw,
           Proceed, GoWrong
  <2> QED BY <1>1, <1>2, <1>4, <2>1, <2>2
      DEF NeedsInv, Dumped, Persisted, Recovery, Funded, Failing, CatchCalls
<1>5. NeedsInv(d)'
  BY <1>3, <1>4 DEF FundFirst, FundTemporaryWallet
<1>6. Aside(d)
  BY DEF IInv, TypeOK, FundFirst, FundTemporaryWallet, PayWallet, CanFund,
         Reply, Raise, Throw, CatchLabel, Proceed, GoWrong, Goto, dbVars,
         diskVars, runVars, poolVars, purseVars, Aside
<1> QED BY <1>5, <1>6, AsideKeeps

LEMMA FundRetryApart ==
  ASSUME IInv, ApartInv, NEW d \in Deployments, FundRetry(d)
  PROVE  ApartInv'
<1> USE DeploymentAssumption
<1>1. /\ pc[d] = "refunding"
      /\ UNCHANGED <<recovered, keypairFile, dumps, program>>
  BY DEF FundRetry, FundTemporaryWallet, diskVars, runVars
<1>2. NeedsInv(d) /\ wallet[d] = 0 /\ drawn[d] = 0 /\ program[d] = 0
  BY <1>1 DEF ApartInv, IInv, RunInv, MoneyInv, Unfunded, FundingCalls
<1>3. ASSUME PayWallet(d), Reply(d, "fund", "markDeploying") PROVE NeedsInv(d)'
  <2>1. wallet'[d] = Cost
    BY <1>2, <1>3 DEF IInv, TypeOK, PayWallet
  <2>2. /\ request'[ProgramOf[d]].status = "pendingDeployment"
        /\ request'[ProgramOf[d]].key = d
    BY <1>3, PayWalletRequest DEF IInv, TypeOK, Request, PayWallet, CanFund
  <2>3. \/ pc'[d] = "markDeploying" /\ mishaps'[d] = mishaps[d]
        \/ /\ pc'[d] \in {"catchSweep", "catchCount"}
           /\ mishaps'[d] = mishaps[d] \cup {"fund"}
    BY <1>3, Replies
  <2> QED BY <1>1, <1>2, <2>1, <2>2, <2>3
      DEF NeedsInv, Dumped, Persisted, Recovery, Funded, Failing, CatchCalls
<1>4. ASSUME UNCHANGED <<wallet, drawn, request>> PROVE NeedsInv(d)'
  <2>1. pc'[d] \in {"resyncing", "catchSweep", "catchCount"}
    BY <1>2, <1>4 DEF IInv, TypeOK, FundRetry, FundTemporaryWallet, PayWallet,
             Reply, Raise, Throw, CatchLabel, Proceed, GoWrong, Goto
  <2>2. mishaps'[d] = mishaps[d] \/ mishaps'[d] = mishaps[d] \cup {"fund"}
    BY DEF IInv, TypeOK, FundRetry, FundTemporaryWallet, Reply, Raise, Throw,
           Proceed, GoWrong
  <2> QED BY <1>1, <1>2, <1>4, <2>1, <2>2
      DEF NeedsInv, Dumped, Persisted, Recovery, Funded, Failing, CatchCalls
<1>5. NeedsInv(d)'
  BY <1>3, <1>4 DEF FundRetry, FundTemporaryWallet
<1>6. Aside(d)
  BY DEF IInv, TypeOK, FundRetry, FundTemporaryWallet, PayWallet, CanFund,
         Reply, Raise, Throw, CatchLabel, Proceed, GoWrong, Goto, dbVars,
         diskVars, runVars, poolVars, purseVars, Aside
<1> QED BY <1>5, <1>6, AsideKeeps

LEMMA LateFundApart ==
  ASSUME IInv, ApartInv, NEW d \in Deployments, LateFund(d)
  PROVE  ApartInv'
<1> USE DeploymentAssumption DEF IInv, TypeOK, LateFund, PayWallet, CanFund,
      Proceed, GoWrong, Goto, dbVars, diskVars, runVars, poolVars, purseVars
<1>1. Aside(d)
  BY DEF Aside
<1>2. NeedsInv(d)'
  BY DEF ApartInv, NeedsInv, RunInv, MoneyInv, CliInv, StatusInv, LateMishaps,
         Request, Dumped, Persisted, Recovery, Funded, Failing, Unfunded,
         Deploying, RequestCalls, FundingCalls, CliCalls, DeployCalls,
         ConfirmCalls, CatchCalls, RunCalls, Stopped
<1> QED BY <1>1, <1>2, AsideKeeps

LEMMA MarkDeployingApart ==
  ASSUME IInv, ApartInv, NEW d \in Deployments, MarkDeploying(d)
  PROVE  ApartInv'
<1> USE DeploymentAssumption
<1>1. /\ pc[d] = "markDeploying"
      /\ UNCHANGED <<wallet, recovered, keypairFile, dumps, request, program, drawn>>
  BY DEF MarkDeploying, diskVars, runVars, purseVars
<1>2. \/ pc'[d] = "deploying" /\ mishaps'[d] = mishaps[d]
      \/ /\ pc'[d] \in {"catchSweep", "catchCount"}
         /\ mishaps'[d] = mishaps[d] \cup {"mark"}
  BY DEF IInv, TypeOK, MarkDeploying, Reply, Throw, CatchLabel, Proceed,
         GoWrong, Goto
<1>3. NeedsInv(d) /\ program[d] = 0 BY <1>1 DEF ApartInv, IInv, RunInv, CliInv,
    Deploying
<1>4. NeedsInv(d)'
  BY <1>1, <1>2, <1>3 DEF NeedsInv, Dumped, Persisted, Recovery, Funded,
           Failing, CatchCalls
<1>5. Aside(d)
  BY DEF IInv, TypeOK, MarkDeploying, SetStatus, Reply, Throw, CatchLabel,
         Proceed, GoWrong, Goto, dbVars, diskVars, runVars, poolVars, purseVars,
         Aside
<1> QED BY <1>4, <1>5, AsideKeeps

LEMMA StartDeployApart ==
  ASSUME IInv, ApartInv, NEW d \in Deployments, StartDeploy(d)
  PROVE  ApartInv'
<1> USE DeploymentAssumption
<1>1. Aside(d)
  BY DEF IInv, TypeOK, StartDeploy, StartCli, Raise, Throw, CatchLabel, Proceed,
         GoWrong, Goto, dbVars, diskVars, runVars, poolVars, purseVars, Aside
<1>2. /\ NeedsInv(d) /\ pc[d] = "deploying" /\ program[d] = 0
      /\ wallet[d] = Cost /\ recovered[d] <= Cost
  BY DEF ApartInv, NeedsInv, IInv, RunInv, CliInv, Deploying, StartDeploy, StartCli
<1>3. /\ UNCHANGED <<dumps, request, program, drawn, recovered, keypairFile, status>>
      /\ \/ pc'[d] = "cliRunning" /\ mishaps' = mishaps /\ wallet'[d] = wallet[d] - Rent
         \/ /\ ~CliCanStart(d) /\ pc'[d] \in {"catchSweep", "catchCount"}
            /\ mishaps' = mishaps /\ wallet' = wallet
         \/ /\ pc'[d] \in {"catchSweep", "catchCount"} /\ wallet' = wallet
            /\ mishaps'[d] = mishaps[d] \cup {"cli"}
  BY DEF IInv, TypeOK, StartDeploy, StartCli, Raise, Throw, CatchLabel, Proceed,
         GoWrong, Goto, dbVars, diskVars, runVars, poolVars, purseVars
<1>4. NeedsInv(d)'
  <2>4. CASE pc'[d] = "cliRunning" /\ mishaps' = mishaps /\ wallet'[d] = wallet[d] - Rent
    BY <1>2, <1>3, <2>4
    DEF NeedsInv, Dumped, Persisted, Recovery, Funded, Failing, CatchCalls
  <2>5. CASE /\ pc'[d] \in {"catchSweep", "catchCount"} /\ wallet' = wallet
             /\ mishaps'[d] = mishaps[d] \cup {"cli"}
    BY <1>2, <1>3, <2>5
    DEF NeedsInv, LateMishaps, Dumped, Persisted, Recovery, Funded, Failing, CatchCalls
  <2>6. CASE /\ ~CliCanStart(d) /\ pc'[d] \in {"catchSweep", "catchCount"}
             /\ mishaps' = mishaps /\ wallet' = wallet
    BY <1>2, <1>3, <2>6
    DEF NeedsInv, CliCanStart, Dumped, Persisted, Recovery, Funded, Failing, CatchCalls
  <2> QED BY <1>3, <2>4, <2>5, <2>6
<1> QED BY <1>1, <1>4, AsideKeeps

LEMMA EndDeployApart ==
  ASSUME IInv, ApartInv, NEW d \in Deployments, EndDeploy(d)
  PROVE  ApartInv'
<1> USE DeploymentAssumption
<1>1. /\ pc[d] = "cliRunning"
      /\ UNCHANGED <<wallet, recovered, keypairFile, dumps, request, drawn>>
  BY DEF EndDeploy, EndCli, diskVars, runVars
<1>2. \/ pc'[d] = "sweeping" /\ mishaps'[d] = mishaps[d]
      \/ /\ pc'[d] \in {"recovering", "catchSweep", "catchCount"}
         /\ mishaps'[d] = mishaps[d] \cup {"cli"}
  BY DEF IInv, TypeOK, EndDeploy, EndCli, CatchLabel, Proceed, GoWrong, Goto
<1>3. NeedsInv(d) BY DEF ApartInv
<1>4. NeedsInv(d)'
  BY <1>1, <1>2, <1>3
        DEF NeedsInv, Dumped, Persisted, Recovery, Funded, Failing, CatchCalls,
            LateMishaps
<1>5. Aside(d)
  BY DEF IInv, TypeOK, EndDeploy, EndCli, GoLive, CatchLabel, Proceed, GoWrong,
         Goto, dbVars, diskVars, runVars, poolVars, purseVars, Aside
<1> QED BY <1>4, <1>5, AsideKeeps

LEMMA RecoverBufferApart ==
  ASSUME IInv, ApartInv, NEW d \in Deployments, RecoverBuffer(d)
  PROVE  ApartInv'
<1> USE DeploymentAssumption DEF IInv, TypeOK, RecoverBuffer, Raise, Throw,
         CatchLabel, Proceed, GoWrong, Goto, dbVars, diskVars, runVars,
         poolVars, purseVars
<1>1. Aside(d)
  BY DEF Aside
<1>2. NeedsInv(d)'
  BY DEF ApartInv, NeedsInv, RunInv, MoneyInv, CliInv, StatusInv, LateMishaps,
         Request, Dumped, Persisted, Recovery, Funded, Failing, Unfunded,
         Deploying, RequestCalls, FundingCalls, CliCalls, DeployCalls,
         ConfirmCalls, CatchCalls, RunCalls, Stopped
<1> QED BY <1>1, <1>2, AsideKeeps

LEMMA StartRedeployApart ==
  ASSUME IInv, ApartInv, NEW d \in Deployments, StartRedeploy(d)
  PROVE  ApartInv'
<1> USE DeploymentAssumption DEF IInv, TypeOK, StartRedeploy, StartCli,
         CliCanStart, Raise, Throw, CatchLabel, Proceed, GoWrong, Goto, dbVars,
         diskVars, runVars, poolVars, purseVars
<1>1. Aside(d)
  BY DEF Aside
<1>2. NeedsInv(d)'
  BY DEF ApartInv, NeedsInv, RunInv, MoneyInv, CliInv, StatusInv, LateMishaps,
         Request, Dumped, Persisted, Recovery, Funded, Failing, Unfunded,
         Deploying, RequestCalls, FundingCalls, CliCalls, DeployCalls,
         ConfirmCalls, CatchCalls, RunCalls, Stopped
<1> QED BY <1>1, <1>2, AsideKeeps

LEMMA EndRedeployApart ==
  ASSUME IInv, ApartInv, NEW d \in Deployments, EndRedeploy(d)
  PROVE  ApartInv'
<1> USE DeploymentAssumption DEF IInv, TypeOK, EndRedeploy, EndCli, GoLive,
         CatchLabel, Proceed, GoWrong, Goto, dbVars, diskVars, runVars,
         poolVars, purseVars
<1>1. Aside(d)
  BY DEF Aside
<1>2. NeedsInv(d)'
  BY DEF ApartInv, NeedsInv, RunInv, MoneyInv, CliInv, StatusInv, LateMishaps,
         Request, Dumped, Persisted, Recovery, Funded, Failing, Unfunded,
         Deploying, RequestCalls, FundingCalls, CliCalls, DeployCalls,
         ConfirmCalls, CatchCalls, RunCalls, Stopped
<1> QED BY <1>1, <1>2, AsideKeeps

LEMMA SweepRestApart ==
  ASSUME IInv, ApartInv, NEW d \in Deployments, SweepRest(d)
  PROVE  ApartInv'
<1> USE DeploymentAssumption DEF IInv, TypeOK, SweepRest, Sweep,
      Proceed, GoWrong, Goto, dbVars, diskVars, runVars, poolVars, purseVars
<1>1. Aside(d)
  BY DEF Aside
<1>2. NeedsInv(d)'
  BY DEF ApartInv, NeedsInv, RunInv, MoneyInv, CliInv, StatusInv, LateMishaps,
         Request, Dumped, Persisted, Recovery, Funded, Failing, Unfunded,
         Deploying, RequestCalls, FundingCalls, CliCalls, DeployCalls,
         ConfirmCalls, CatchCalls, RunCalls, Stopped
<1> QED BY <1>1, <1>2, AsideKeeps

LEMMA ConfirmSuccessApart ==
  ASSUME IInv, ApartInv, NEW d \in Deployments, ConfirmSuccess(d)
  PROVE  ApartInv'
<1> USE DeploymentAssumption
<1>1. /\ pc[d] = "confirming"
      /\ UNCHANGED <<wallet, recovered, keypairFile, dumps, program, drawn>>
  BY DEF ConfirmSuccess, diskVars, runVars, purseVars
<1>2. NeedsInv(d) BY DEF ApartInv
<1>3. Alone(d) => CanConfirm(d) BY <1>1, <1>2 DEF NeedsInv, Funded, CanConfirm
<1>4. \/ pc'[d] = "recordingSuccess" /\ mishaps'[d] = mishaps[d]
      \/ /\ pc'[d] \in {"catchSweep", "catchCount"}
         /\ mishaps'[d] = mishaps[d] \cup {"confirm"}
      \/ /\ ~CanConfirm(d) /\ mishaps'[d] = mishaps[d]
         /\ pc'[d] \in {"catchSweep", "catchCount"}
  BY DEF IInv, TypeOK, ConfirmSuccess, Reply, Raise, Throw, CatchLabel, Proceed,
         GoWrong, Goto
<1>5. NeedsInv(d)'
  BY <1>1, <1>2, <1>3, <1>4
        DEF NeedsInv, Dumped, Persisted, Recovery, Funded, Failing, CatchCalls,
            LateMishaps
<1>6. Aside(d)
  BY DEF IInv, TypeOK, ConfirmSuccess, CanConfirm, Reply, Raise, Throw,
         CatchLabel, Proceed, GoWrong, Goto, dbVars, diskVars, runVars,
         poolVars, purseVars, Aside
<1> QED BY <1>5, <1>6, AsideKeeps

LEMMA RecordSuccessApart ==
  ASSUME IInv, ApartInv, NEW d \in Deployments, RecordSuccess(d)
  PROVE  ApartInv'
<1> USE DeploymentAssumption
<1>1. /\ pc[d] = "recordingSuccess"
      /\ UNCHANGED <<wallet, recovered, keypairFile, dumps, request, program, drawn>>
  BY DEF RecordSuccess, diskVars, runVars, purseVars
<1>2. NeedsInv(d) BY DEF ApartInv
<1>3. \/ pc'[d] = "counting" /\ mishaps'[d] = mishaps[d]
      \/ /\ pc'[d] \in {"catchSweep", "catchCount"}
         /\ mishaps'[d] = mishaps[d] \cup {"record"}
  BY DEF IInv, TypeOK, RecordSuccess, Reply, Throw, CatchLabel, Proceed,
         GoWrong, Goto
<1>4. NeedsInv(d)'
  BY <1>1, <1>2, <1>3
        DEF NeedsInv, Dumped, Persisted, Recovery, Funded, Failing, CatchCalls,
            LateMishaps
<1>5. Aside(d)
  BY DEF IInv, TypeOK, RecordSuccess, SetStatus, Reply, Throw, CatchLabel,
         Proceed, GoWrong, Goto, dbVars, diskVars, runVars, poolVars, purseVars,
         Aside
<1> QED BY <1>4, <1>5, AsideKeeps

LEMMA CountSuccessApart ==
  ASSUME IInv, ApartInv, NEW d \in Deployments, CountSuccess(d)
  PROVE  ApartInv'
<1> USE DeploymentAssumption
<1>1. /\ pc[d] = "counting" /\ status'[d] = "success"
      /\ UNCHANGED <<wallet, recovered, keypairFile, request, program, drawn>>
  BY DEF IInv, RunInv, StatusInv, CountSuccess, dbVars, runVars, purseVars
<1>2. NeedsInv(d) BY DEF ApartInv
<1>3. \/ pc'[d] = "done" /\ mishaps'[d] = mishaps[d]
      \/ /\ pc'[d] \in {"catchSweep", "catchCount"}
         /\ mishaps'[d] = mishaps[d] \cup {"stats"}
  BY DEF IInv, TypeOK, CountSuccess, Throw, CatchLabel, Proceed, GoWrong, Goto
<1>4. NeedsInv(d)'
  BY <1>1, <1>2, <1>3
        DEF NeedsInv, Dumped, Persisted, Recovery, Funded, Failing, CatchCalls,
            LateMishaps
<1>5. Aside(d)
  BY DEF IInv, TypeOK, CountSuccess, Throw, CatchLabel, Proceed, GoWrong, Goto,
         dbVars, diskVars, runVars, poolVars, purseVars, Aside
<1> QED BY <1>4, <1>5, AsideKeeps

LEMMA CatchSweepApart ==
  ASSUME IInv, ApartInv, NEW d \in Deployments, CatchSweep(d)
  PROVE  ApartInv'
<1> USE DeploymentAssumption DEF IInv, TypeOK, CatchSweep, Sweep,
      Proceed, GoWrong, Goto, dbVars, diskVars, runVars, poolVars, purseVars
<1>1. Aside(d)
  BY DEF Aside
<1>2. NeedsInv(d)'
  BY DEF ApartInv, NeedsInv, RunInv, MoneyInv, CliInv, StatusInv, LateMishaps,
         Request, Dumped, Persisted, Recovery, Funded, Failing, Unfunded,
         Deploying, RequestCalls, FundingCalls, CliCalls, DeployCalls,
         ConfirmCalls, CatchCalls, RunCalls, Stopped
<1> QED BY <1>1, <1>2, AsideKeeps

LEMMA ConfirmFailureApart ==
  ASSUME IInv, ApartInv, NEW d \in Deployments, ConfirmFailure(d)
  PROVE  ApartInv'
<1> USE DeploymentAssumption DEF IInv, TypeOK, ConfirmFailure,
      Proceed, GoWrong, Goto, dbVars, diskVars, runVars, poolVars, purseVars
<1>1. Aside(d)
  BY DEF Aside
<1>2. NeedsInv(d)'
  BY DEF ApartInv, NeedsInv, RunInv, MoneyInv, CliInv, StatusInv, LateMishaps,
         Request, Dumped, Persisted, Recovery, Funded, Failing, Unfunded,
         Deploying, RequestCalls, FundingCalls, CliCalls, DeployCalls,
         ConfirmCalls, CatchCalls, RunCalls, Stopped
<1> QED BY <1>1, <1>2, AsideKeeps

LEMMA CountFailureApart ==
  ASSUME IInv, ApartInv, NEW d \in Deployments, CountFailure(d)
  PROVE  ApartInv'
<1> USE DeploymentAssumption DEF IInv, TypeOK, CountFailure,
      Proceed, GoWrong, Goto, dbVars, diskVars, runVars, poolVars, purseVars
<1>1. Aside(d)
  BY DEF Aside
<1>2. NeedsInv(d)'
  BY DEF ApartInv, NeedsInv, RunInv, MoneyInv, CliInv, StatusInv, LateMishaps,
         Request, Dumped, Persisted, Recovery, Funded, Failing, Unfunded,
         Deploying, RequestCalls, FundingCalls, CliCalls, DeployCalls,
         ConfirmCalls, CatchCalls, RunCalls, Stopped
<1> QED BY <1>1, <1>2, AsideKeeps

LEMMA RecordFailureApart ==
  ASSUME IInv, ApartInv, NEW d \in Deployments, RecordFailure(d)
  PROVE  ApartInv'
<1> USE DeploymentAssumption DEF IInv, TypeOK, RecordFailure, MarkFailed,
         SetStatus, Proceed, GoWrong, Goto, dbVars, diskVars, runVars, poolVars,
         purseVars
<1>1. Aside(d)
  BY DEF Aside
<1>2. NeedsInv(d)'
  BY DEF ApartInv, NeedsInv, RunInv, MoneyInv, CliInv, StatusInv, LateMishaps,
         Request, Dumped, Persisted, Recovery, Funded, Failing, Unfunded,
         Deploying, RequestCalls, FundingCalls, CliCalls, DeployCalls,
         ConfirmCalls, CatchCalls, RunCalls, Stopped
<1> QED BY <1>1, <1>2, AsideKeeps

LEMMA OrphanEndsApart ==
  ASSUME IInv, ApartInv, NEW d \in Deployments, OrphanEnds(d)
  PROVE  ApartInv'
<1> USE DeploymentAssumption DEF IInv, TypeOK, OrphanEnds, GoLive,
      Proceed, GoWrong, Goto, dbVars, diskVars, runVars, poolVars, purseVars
<1>1. Aside(d)
  BY DEF Aside
<1>2. NeedsInv(d)'
  BY DEF ApartInv, NeedsInv, RunInv, MoneyInv, CliInv, StatusInv, LateMishaps,
         Request, Dumped, Persisted, Recovery, Funded, Failing, Unfunded,
         Deploying, RequestCalls, FundingCalls, CliCalls, DeployCalls,
         ConfirmCalls, CatchCalls, RunCalls, Stopped
<1> QED BY <1>1, <1>2, AsideKeeps

LEMMA EstimateCostsApart ==
  ASSUME IInv, ApartInv, NEW p \in EstimatedPrograms, EstimateCosts(p)
  PROVE  ApartInv'
<1> SUFFICES ASSUME NEW e \in Deployments PROVE NeedsInv(e)' BY DEF ApartInv
<1>1. Alone(e) => (ProgramOf[e] \in dumps' <=> ProgramOf[e] \in dumps)
  BY DEF Alone, EstimateCosts
<1> QED BY <1>1 DEF ApartInv, NeedsInv, EstimateCosts, dbVars, runVars,
         purseVars

LEMMA LateSyncApart ==
  ASSUME ApartInv, LateSync
  PROVE  ApartInv'
BY DEF ApartInv, NeedsInv, LateSync, dbVars, diskVars, runVars, purseVars

LEMMA CrashApart ==
  ASSUME IInv, ApartInv, Crash
  PROVE  ApartInv'
<1> SUFFICES ASSUME NEW e \in Deployments PROVE NeedsInv(e)' BY DEF ApartInv
<1>1. UNCHANGED <<status, wallet, recovered, keypairFile, dumps, request, program, drawn>>
  BY DEF Crash, dbVars, diskVars, purseVars
<1>2. \/ pc'[e] = pc[e] /\ mishaps'[e] = mishaps[e]
      \/ pc'[e] \in {"dead", "orphan"}
  BY DEF Crash, AfterCrash
<1>3. NeedsInv(e) BY DEF ApartInv
<1> QED BY <1>1, <1>2, <1>3
        DEF NeedsInv, Dumped, Persisted, Recovery, Funded, Failing, CatchCalls

LEMMA StutteringApart ==
  ASSUME ApartInv, UNCHANGED vars
  PROVE  ApartInv'
BY DEF ApartInv, NeedsInv, vars, dbVars, diskVars, runVars, purseVars

LEMMA InitApart == Init => ApartInv
BY DeploymentAssumption
   DEF Init, ApartInv, NeedsInv, Dumped, Persisted, Recovery, Funded, Failing,
       CatchCalls

-----------------------------------------------------------------------------
(* The invariant and what follows from it. *)

LEMMA StepKeeps ==
  ASSUME IInv, NEW d \in Deployments, Step(d)
  PROVE  IInv'
<1>1. CASE RequestStep(d)
  BY <1>1, CreateDeployRequestKeeps, RecordRequestKeeps, FailRequestKeeps
  DEF RequestStep
<1>2. CASE FundStep(d)
  BY <1>2, LoadDeploymentKeeps, MarkDumpingKeeps, DumpProgramKeeps,
     CheckTreasuryKeeps, SyncBeforeFundingKeeps, FundFirstKeeps,
     SyncForRetryKeeps, FundRetryKeeps
  DEF FundStep
<1>3. CASE DeployStep(d)
  BY <1>3, MarkDeployingKeeps, StartDeployKeeps, EndDeployKeeps,
     RecoverBufferKeeps, StartRedeployKeeps, EndRedeployKeeps
  DEF DeployStep
<1>4. CASE ConfirmStep(d)
  BY <1>4, SweepRestKeeps, ConfirmSuccessKeeps, RecordSuccessKeeps,
     CountSuccessKeeps
  DEF ConfirmStep
<1>5. CASE CatchStep(d)
  BY <1>5, CatchSweepKeeps, ConfirmFailureKeeps, CountFailureKeeps,
     RecordFailureKeeps
  DEF CatchStep
<1> QED BY <1>1, <1>2, <1>3, <1>4, <1>5, OrphanEndsKeeps DEF Step

LEMMA NextKeeps == IInv /\ [Next]_vars => IInv'
<1> SUFFICES ASSUME IInv, [Next]_vars PROVE IInv' OBVIOUS
<1>1. CASE \E d \in Deployments : ExecuteDeploy(d) \/ Step(d) \/ LateFund(d)
  BY <1>1, ExecuteDeployKeeps, StepKeeps, LateFundKeeps
<1>2. CASE \E p \in EstimatedPrograms : EstimateCosts(p)
  BY <1>2, EstimateCostsKeeps
<1> QED BY <1>1, <1>2, LateSyncKeeps, CrashKeeps, StutteringKeeps DEF Next

\* At every label of every run the books, the files and the row agree:
\* processDeployment keeps IInv, whatever fails and whoever interleaves.
THEOREM Invariance == Spec => []IInv
<1> QED BY InitEstablishes, NextKeeps, PTL DEF Spec

\* The variables keep their types; lamports never go below zero.
THEOREM TypeCorrectness == Spec => []TypeOK
<1>1. IInv => TypeOK BY DEF IInv
<1> QED BY <1>1, Invariance, PTL

\* No retry, timeout or late transaction of fundTemporaryWallet makes the
\* treasury pay twice for a deployment.
THEOREM FundedOnceHolds == Spec => []FundedOnce
<1>1. IInv => FundedOnce
  BY DeploymentAssumption DEF IInv, RunInv, MoneyInv, FundedOnce
<1> QED BY <1>1, Invariance, PTL

\* deployProgramCli and its retry put at most one program on chain per run.
THEOREM OneProgramHolds == Spec => []OneProgramPerRun
<1>1. IInv => OneProgramPerRun BY DEF IInv, RunInv, CliInv, OneProgramPerRun
<1> QED BY <1>1, Invariance, PTL

\* confirmDeploymentSuccess only activates a request whose program is live.
THEOREM ActiveRequestHolds == Spec => []ActiveRequestIsLive
<1>1. IInv => ActiveRequestIsLive BY DEF IInv
<1> QED BY <1>1, Invariance, PTL

\* The close authority of every live program is on disk, in both files.
THEOREM AuthorityHolds == Spec => []AuthorityOnDisk
<1>1. IInv => AuthorityOnDisk BY DEF IInv, RunInv, DiskInv, AuthorityOnDisk
<1> QED BY <1>1, Invariance, PTL

\* A row that says success has a live program and a wallet that can close it.
THEOREM SuccessHolds == Spec => []SuccessIsBacked
<1>1. IInv => SuccessIsBacked
  BY DeploymentAssumption
  DEF IInv, TypeOK, RunInv, StatusInv, DiskInv, SuccessIsBacked
<1> QED BY <1>1, Invariance, PTL

\* Without a failed sweep or a late funding, a finished run leaves no more
\* than the fee buffer in the temporary wallet.
THEOREM SweptHolds == Spec => []SweptAtEnd
<1>1. IInv => SweptAtEnd BY DEF IInv, RunInv, WalletInv, Swept, SweptAtEnd
<1> QED BY <1>1, Invariance, PTL

\* Only a lost last write, an insert that was stored but answered with an error,
\* or a malformed hash leaves a finished run's row
\* in pending, dumping or deploying.
THEOREM StuckHolds == Spec => []StuckOnlyByFinalWrite
<1>1. IInv => StuckOnlyByFinalWrite
  BY DEF IInv, RunInv, StatusInv, StuckOnlyByFinalWrite
<1> QED BY <1>1, Invariance, PTL

LEMMA StepApart ==
  ASSUME IInv, ApartInv, NEW d \in Deployments, Step(d)
  PROVE  ApartInv'
<1>1. CASE RequestStep(d)
  BY <1>1, CreateDeployRequestApart, RecordRequestApart, FailRequestApart
  DEF RequestStep
<1>2. CASE FundStep(d)
  BY <1>2, LoadDeploymentApart, MarkDumpingApart, DumpProgramApart,
     CheckTreasuryApart, SyncBeforeFundingApart, FundFirstApart,
     SyncForRetryApart, FundRetryApart
  DEF FundStep
<1>3. CASE DeployStep(d)
  BY <1>3, MarkDeployingApart, StartDeployApart, EndDeployApart,
     RecoverBufferApart, StartRedeployApart, EndRedeployApart
  DEF DeployStep
<1>4. CASE ConfirmStep(d)
  BY <1>4, SweepRestApart, ConfirmSuccessApart, RecordSuccessApart,
     CountSuccessApart
  DEF ConfirmStep
<1>5. CASE CatchStep(d)
  BY <1>5, CatchSweepApart, ConfirmFailureApart, CountFailureApart,
     RecordFailureApart
  DEF CatchStep
<1> QED BY <1>1, <1>2, <1>3, <1>4, <1>5, OrphanEndsApart DEF Step

LEMMA NextApart == IInv /\ ApartInv /\ [Next]_vars => ApartInv'
<1> SUFFICES ASSUME IInv, ApartInv, [Next]_vars PROVE ApartInv' OBVIOUS
<1>1. CASE \E d \in Deployments : ExecuteDeploy(d) \/ Step(d) \/ LateFund(d)
  BY <1>1, ExecuteDeployApart, StepApart, LateFundApart
<1>2. CASE \E p \in EstimatedPrograms : EstimateCosts(p)
  BY <1>2, EstimateCostsApart
<1> QED BY <1>1, <1>2, LateSyncApart, CrashApart, StutteringApart DEF Next

\* At each label processDeployment finds what it needs, unless a mishap took
\* it or another run or cost estimate works on the same program.
THEOREM FullInvariance == Spec => []FullInv
<1>1. Spec => []ApartInv BY InitApart, NextApart, Invariance, PTL DEF Spec
<1> QED BY <1>1, Invariance, PTL DEF FullInv

\* A funded run that shares its program with no other and meets no mishap ends
\* with a success row: the code has no other way to lose it.
THEOREM CleanRunHolds == Spec => []CleanRunSucceeds
<1>1. FullInv => CleanRunSucceeds
  BY DEF FullInv, ApartInv, NeedsInv, Failing, CleanRunSucceeds
<1> QED BY <1>1, FullInvariance, PTL

\* A run that shares its program with no other leaves a live program behind a
\* row that is not a success only over a mishap in or after the CLI call.
THEOREM StrandedHolds == Spec => []StrandedOnlyByLateMishap
<1>1. FullInv => StrandedOnlyByLateMishap
  BY DEF FullInv, ApartInv, NeedsInv, Failing, StrandedOnlyByLateMishap
<1> QED BY <1>1, FullInvariance, PTL
=============================================================================
