----------------------------- MODULE CloseProgram -----------------------------
(***************************************************************************)
(* POST /close-program: several calls of CloseProgramService.closeProgram  *)
(* at once, for deployments whose row says success, failed or already      *)
(* closed, while the background runs that deployed them may still be in    *)
(* the last steps of processDeployment.                                    *)
(*                                                                         *)
(* As in Deployment an action is one awaited call together with the code   *)
(* up to the next await, and a call that goes wrong is recorded in the     *)
(* ghost mishaps[c].  An error the state of the row, the disk or the chain *)
(* explains is not a mishap.  The chain and the Solana CLI are external.   *)
(***************************************************************************)
EXTENDS Integers, FiniteSets

CONSTANTS
  Calls,         \* requests to close a program
  Deployments,   \* rows of the deployments table
  Users,         \* wallet addresses that send requests
  OwnerOf,       \* user_wallet_address of each row
  Stamps,        \* values of Date.now(), the name of a temporary key file
  None,          \* no deployment, no user, no stamp
  Rent,          \* lamports of a live program's data account
  TxFee,         \* the fee of a transaction
  MinBalance,    \* minRequiredBalance, 0.01 SOL
  Extra,         \* what is added when the wallet is topped up, 0.001 SOL
  Keep,          \* minBalanceToKeep, 0.001 SOL
  Leftover,      \* lamports a wallet may still hold after its deployment
  InitialAdmin,  \* lamports of the admin wallet
  MaxMishaps,    \* bound: mishaps per call
  MaxCrashes     \* bound: crashes of the backend process

ASSUME CloseAssumption ==
  /\ OwnerOf \in [Deployments -> Users]
  /\ None \notin Deployments \cup Users \cup Stamps
  /\ Calls \cap Deployments = {}
  /\ Rent \in Nat \ {0} /\ TxFee \in Nat /\ MinBalance \in Nat
  /\ TxFee <= MinBalance
  /\ Extra \in Nat /\ Keep \in Nat /\ TxFee <= Keep
  /\ Leftover \subseteq Nat /\ InitialAdmin \in Nat
  /\ MaxMishaps \in Nat /\ MaxCrashes \in Nat

VARIABLES
  status,        \* deployments.status
  tail,          \* what is left to do in processDeployment of each deployment
  walletFile,    \* deployments whose <id>-<time>.json is on disk
  keyFile,       \* whose key is in temp/close-<time>.json, or None
  program,       \* lamports in each program's data account
  senders,       \* calls whose CLI was running when their program was closed
  wallet,        \* lamports of each deployment's wallet
  admin,         \* lamports of the admin wallet
  treasury,      \* lamports the treasury account received
  request,       \* the body of each call
  pc,            \* the call each request awaits
  stamp,         \* the time in the name of a call's key file
  transfer,      \* lamports of the transfer a call, or a run, is about to send
  lateSweeps,    \* calls whose sweep was reported as an error and may still land
  crashes,       \* crashes so far
  mishaps        \* ghost: what went wrong in each call

rowVars   == <<status, tail>>
fileVars  == <<walletFile, keyFile, stamp>>
chainVars == <<program, senders, wallet, admin, treasury>>
callVars  == <<transfer, lateSweeps>>
vars == <<rowVars, fileVars, chainVars, request, pc, callVars, crashes, mishaps>>

CliCalls    == {"cliStarting", "cliRunning"}
BeforeClose == {"probing", "weighing", "asking", "advancing", "reweighing", "preparing"}
AfterClose  == {"signing", "measuring", "sweepWeighing", "sweeping", "recording"}
Answers     == {"ok", "error"}
Awaiting    == BeforeClose \cup CliCalls \cup AfterClose
Label       == {"idle", "orphan", "dead"} \cup Awaiting \cup Answers

\* The end of processDeployment: updateUserStats is awaited, or has thrown and
\* the catch block sweeps, confirms the failure and marks the row, or cannot.
TailLabel == {"counting", "sweepWeighing", "sweeping", "marking", "failed",
              "unmarked", "over"}

Mishap == {"read", "probe", "balance", "advance", "keyFile", "cli", "unlink",
           "measure", "sweep", "record", "crash"}

Target(c) == request[c].deployment

-----------------------------------------------------------------------------
(* Control *)

\* The call goes on at l, with new mishaps or with none.
Suffer(c, new, l) ==
  /\ pc' = [pc EXCEPT ![c] = l]
  /\ mishaps' = [mishaps EXCEPT ![c] = @ \cup new]
  /\ new # {} => Cardinality(mishaps[c] \cup new) <= MaxMishaps

Proceed(c, l) == Suffer(c, {}, l)

\* The catch block of closeProgram logs and throws on.
Raise(c)       == Proceed(c, "error")
Throw(c, what) == Suffer(c, {what}, "error")

Note(x, n) == transfer' = [transfer EXCEPT ![x] = n]

-----------------------------------------------------------------------------
(* Step 1 and 2: the row and the wallet file *)

\* The checks of the row, then of the wallet; deployer_wallet_address and
\* devnet_program_id of a row that says success were written with the status.
Closable(r) == /\ status[r.deployment] = "success"
               /\ OwnerOf[r.deployment] = r.user
               /\ r.deployment \in walletFile

ReadRow(c) ==
  /\ pc[c] = "idle"
  /\ \E d \in Deployments, u \in Users :
       LET r == [deployment |-> d, user |-> u] IN
       /\ request' = [request EXCEPT ![c] = r]
       /\ \/ Closable(r) /\ Proceed(c, "probing")
          \/ ~Closable(r) /\ Raise(c)
          \/ Throw(c, "read")
  /\ UNCHANGED <<rowVars, fileVars, chainVars, callVars, crashes>>

-----------------------------------------------------------------------------
(* Step 3: the program's balance and a top-up from the admin wallet *)

ProbeProgram(c) ==
  /\ pc[c] = "probing"
  /\ \/ program[Target(c)] > 0 /\ Proceed(c, "weighing")
     \/ program[Target(c)] = 0 /\ Raise(c)
     \/ Throw(c, "probe")
  /\ UNCHANGED <<rowVars, fileVars, chainVars, request, transfer, lateSweeps, crashes>>

\* Faulty variant: the wallet is not topped up.
WeighWalletNoTopUp(c) ==
  /\ pc[c] = "weighing"
  /\ Proceed(c, "preparing")
  /\ UNCHANGED <<rowVars, fileVars, chainVars, request, callVars, crashes>>

WeighWallet(c) ==
  LET balance == wallet[Target(c)] IN
  /\ pc[c] = "weighing"
  /\ \/ balance >= MinBalance /\ Proceed(c, "preparing") /\ UNCHANGED transfer
     \/ /\ balance < MinBalance
        /\ Note(c, MinBalance - balance + Extra)
        /\ Proceed(c, "asking")
     \/ Throw(c, "balance") /\ UNCHANGED transfer
  /\ UNCHANGED <<rowVars, fileVars, chainVars, request, lateSweeps, crashes>>

AskAdmin(c) ==
  /\ pc[c] = "asking"
  /\ \/ admin >= transfer[c] /\ Proceed(c, "advancing")
     \/ admin < transfer[c] /\ Raise(c)
     \/ Throw(c, "balance")
  /\ UNCHANGED <<rowVars, fileVars, chainVars, request, callVars, crashes>>

\* An error is thrown on and the call does nothing more, so a transfer that
\* lands late is one whose error arrives late.
AdvanceFees(c) ==
  LET affordable == admin >= transfer[c] + TxFee IN
  /\ pc[c] = "advancing"
  /\ \/ /\ affordable
        /\ admin' = admin - transfer[c] - TxFee
        /\ wallet' = [wallet EXCEPT ![Target(c)] = @ + transfer[c]]
        /\ Proceed(c, "reweighing") \/ Throw(c, "advance")
     \/ ~affordable /\ Raise(c) /\ UNCHANGED <<admin, wallet>>
     \/ Throw(c, "advance") /\ UNCHANGED <<admin, wallet>>
  /\ UNCHANGED <<rowVars, fileVars, program, senders, treasury, request, callVars, crashes>>

ReweighWallet(c) ==
  /\ pc[c] = "reweighing"
  /\ Proceed(c, "preparing") \/ Throw(c, "balance")
  /\ UNCHANGED <<rowVars, fileVars, chainVars, request, callVars, crashes>>

-----------------------------------------------------------------------------
(* Step 4: closeProgramCli *)

\* The wallet's key is written to a file named after the time of day; two
\* calls of the same millisecond write the same file.
WriteKeyFile(c) ==
  /\ pc[c] = "preparing"
  /\ \/ \E s \in Stamps :
          /\ stamp' = [stamp EXCEPT ![c] = s]
          /\ keyFile' = [keyFile EXCEPT ![s] = Target(c)]
          /\ Proceed(c, "cliStarting")
     \/ Throw(c, "keyFile") /\ UNCHANGED <<stamp, keyFile>>
  /\ UNCHANGED <<rowVars, walletFile, chainVars, request, callVars, crashes>>

\* Faulty variant: the key file is removed only when the CLI succeeded.
LeaveCliNoFinally(c, l, new) ==
  /\ Suffer(c, new, l)
  /\ IF l = "error" THEN UNCHANGED keyFile
                    ELSE keyFile' = [keyFile EXCEPT ![stamp[c]] = None]

\* The finally block; failing to remove the file is only logged.
LeaveCli(c, l, new) ==
  \/ Suffer(c, new, l) /\ keyFile' = [keyFile EXCEPT ![stamp[c]] = None]
  \/ Suffer(c, new \cup {"unlink"}, l) /\ UNCHANGED keyFile

\* solana program close reads the key file and needs a fee.
StartCli(c) ==
  LET usable == keyFile[stamp[c]] = Target(c) /\ wallet[Target(c)] >= TxFee IN
  /\ pc[c] = "cliStarting"
  /\ \/ usable /\ Proceed(c, "cliRunning") /\ UNCHANGED keyFile
     \/ ~usable /\ LeaveCli(c, "error", {})
     \/ LeaveCli(c, "error", {"cli"})
  /\ UNCHANGED <<rowVars, walletFile, stamp, chainVars, request, callVars, crashes>>

CanClose(d) == program[d] > 0 /\ wallet[d] >= TxFee

\* The rent of the data account goes to the wallet, its authority.  The CLIs
\* running by then may have signed the same transaction, with the same wallet
\* and blockhash: it lands once, and each of them may see it confirmed.
CloseOnChain(d) ==
  /\ CanClose(d)
  /\ senders' = senders \cup {c \in Calls : Target(c) = d /\ pc[c] \in {"cliRunning", "orphan"}}
  /\ program' = [program EXCEPT ![d] = 0]
  /\ wallet' = [wallet EXCEPT ![d] = @ + program[d] - TxFee]

\* Faulty variant: the output of the CLI is not looked at.
EndCliAnyOutput(c) ==
  /\ pc[c] = "cliRunning"
  /\ CloseOnChain(Target(c)) \/ UNCHANGED <<program, senders, wallet>>
  /\ Proceed(c, "signing") /\ UNCHANGED keyFile
  /\ UNCHANGED <<rowVars, walletFile, stamp, admin, treasury, request, callVars, crashes>>

\* Faulty variant: no timeout, a CLI that cannot close the program hangs.
EndCliNoTimeout(c) ==
  /\ pc[c] = "cliRunning"
  /\ CloseOnChain(Target(c)) /\ Proceed(c, "signing")
  /\ UNCHANGED <<rowVars, fileVars, admin, treasury, request, callVars, crashes>>

\* Only exit code 0 within a minute and the line "Closed Program Id" count as
\* a success, whatever happened on the chain.
EndCli(c) ==
  /\ pc[c] = "cliRunning"
  /\ \/ /\ CloseOnChain(Target(c))
        /\ \/ Proceed(c, "signing") /\ UNCHANGED keyFile
           \/ LeaveCli(c, "error", {"cli"})
     \/ /\ UNCHANGED <<program, senders, wallet>>
        /\ \/ c \in senders /\ Proceed(c, "signing") /\ UNCHANGED keyFile
           \/ ~CanClose(Target(c)) /\ LeaveCli(c, "error", {})
           \/ LeaveCli(c, "error", {"cli"})
  /\ UNCHANGED <<rowVars, walletFile, stamp, admin, treasury, request, callVars, crashes>>

\* getSignaturesForAddress, whose errors are swallowed, then the clean-up.
FindSignature(c) ==
  /\ pc[c] = "signing"
  /\ LeaveCli(c, "measuring", {})
  /\ UNCHANGED <<rowVars, walletFile, stamp, chainVars, request, callVars, crashes>>

-----------------------------------------------------------------------------
(* Step 5 to 8: the wallet is swept and the row marked *)

MeasureWallet(c) ==
  /\ pc[c] = "measuring"
  /\ \/ Proceed(c, IF wallet[Target(c)] > Keep THEN "sweepWeighing" ELSE "recording")
     \/ Throw(c, "measure")
  /\ UNCHANGED <<rowVars, fileVars, chainVars, request, callVars, crashes>>

\* Faulty variants: the balance is not compared again; 0.01 SOL are kept; an
\* error of the sweep is thrown on.
WeighSweepUnchecked(c) ==
  /\ pc[c] = "sweepWeighing"
  /\ Note(c, wallet[Target(c)] - Keep) /\ Proceed(c, "sweeping")
  /\ UNCHANGED <<rowVars, fileVars, chainVars, request, lateSweeps, crashes>>

WeighSweepKeepsMin(c) ==
  /\ pc[c] = "sweepWeighing"
  /\ Note(c, wallet[Target(c)] - MinBalance) /\ Proceed(c, "sweeping")
  /\ UNCHANGED <<rowVars, fileVars, chainVars, request, lateSweeps, crashes>>

WeighSweepThrows(c) ==
  /\ pc[c] = "sweepWeighing" /\ Throw(c, "sweep")
  /\ UNCHANGED <<rowVars, fileVars, chainVars, request, callVars, crashes>>

\* sweepTemporaryWallet reads the balance again before it sends.
WeighSweep(c) ==
  LET amount == wallet[Target(c)] - Keep IN
  /\ pc[c] = "sweepWeighing"
  /\ \/ amount > 0 /\ Note(c, amount) /\ Proceed(c, "sweeping")
     \/ amount <= 0 /\ Proceed(c, "recording") /\ UNCHANGED transfer
     \/ Suffer(c, {"sweep"}, "recording") /\ UNCHANGED transfer
  /\ UNCHANGED <<rowVars, fileVars, chainVars, request, lateSweeps, crashes>>

\* The transfer that x has noted, from the wallet of d to the treasury.
Transfer(x, d) ==
  /\ wallet[d] >= transfer[x] + TxFee
  /\ wallet' = [wallet EXCEPT ![d] = @ - transfer[x] - TxFee]
  /\ treasury' = treasury + transfer[x]

\* Errors of the sweep are swallowed, also those of a transfer that has landed.
SweepWallet(c) ==
  /\ pc[c] = "sweeping"
  /\ \/ /\ Transfer(c, Target(c))
        /\ Proceed(c, "recording") \/ Suffer(c, {"sweep"}, "recording")
        /\ UNCHANGED lateSweeps
     \/ /\ UNCHANGED <<wallet, treasury>>
        /\ \/ /\ wallet[Target(c)] < transfer[c] + TxFee
              /\ Proceed(c, "recording") /\ UNCHANGED lateSweeps
           \/ /\ lateSweeps' \in {lateSweeps, lateSweeps \cup {c}}
              /\ Suffer(c, {"sweep"}, "recording")
  /\ UNCHANGED <<rowVars, fileVars, program, senders, admin, request, transfer, crashes>>

LateSweep(c) ==
  /\ c \in lateSweeps
  /\ Transfer(c, Target(c))
  /\ lateSweeps' = lateSweeps \ {c}
  /\ UNCHANGED <<rowVars, fileVars, program, senders, admin, request, pc, transfer,
                 crashes, mishaps>>

\* Faulty variant: the row is marked although the write was reported as failed.
RecordClosedAnyReply(c) ==
  /\ pc[c] = "recording"
  /\ \/ status' = [status EXCEPT ![Target(c)] = "closed"] /\ Proceed(c, "ok")
     \/ UNCHANGED status /\ Suffer(c, {"record"}, "ok")
  /\ UNCHANGED <<tail, fileVars, chainVars, request, callVars, crashes>>

RecordClosed(c) ==
  /\ pc[c] = "recording"
  /\ \/ /\ status' = [status EXCEPT ![Target(c)] = "closed"]
        /\ Proceed(c, "ok") \/ Throw(c, "record")
     \/ UNCHANGED status /\ Throw(c, "record")
  /\ UNCHANGED <<tail, fileVars, chainVars, request, callVars, crashes>>

-----------------------------------------------------------------------------
(* The end of processDeployment of the same deployment, see Deployment.     *)

Tail(d, from, to) == tail[d] = from /\ tail' = [tail EXCEPT ![d] = to]

RunCounts(d) ==
  /\ Tail(d, "counting", "over") \/ Tail(d, "counting", "sweepWeighing")
  /\ UNCHANGED <<status, fileVars, chainVars, request, pc, callVars, crashes, mishaps>>

RunWeighs(d) ==
  /\ \/ /\ Tail(d, "sweepWeighing", "sweeping")
        /\ wallet[d] > TxFee /\ Note(d, wallet[d] - TxFee)
     \/ Tail(d, "sweepWeighing", "marking") /\ UNCHANGED transfer
  /\ UNCHANGED <<status, fileVars, chainVars, request, pc, lateSweeps, crashes, mishaps>>

RunSweeps(d) ==
  /\ Tail(d, "sweeping", "marking")
  /\ Transfer(d, d) \/ UNCHANGED <<wallet, treasury>>
  /\ UNCHANGED <<status, fileVars, program, senders, admin, request, pc, callVars, crashes, mishaps>>

\* The failure is written over whatever the row says by now.
RunMarks(d) ==
  /\ \/ Tail(d, "marking", "failed") /\ status' = [status EXCEPT ![d] = "failed"]
     \/ Tail(d, "marking", "unmarked") /\ UNCHANGED status
  /\ UNCHANGED <<fileVars, chainVars, request, pc, callVars, crashes, mishaps>>

-----------------------------------------------------------------------------
(* The backend dies; a running CLI process outlives it. *)

AfterCrash(l) == CASE l = "cliRunning" -> "orphan"
                   [] l \in Awaiting \ {"cliRunning"} -> "dead"
                   [] OTHER -> l

AfterTailCrash(l) == CASE l = "counting" -> "over"
                       [] l \in {"sweepWeighing", "sweeping", "marking"} -> "unmarked"
                       [] OTHER -> l

Crash ==
  /\ crashes < MaxCrashes
  /\ crashes' = crashes + 1
  /\ pc' = [c \in Calls |-> AfterCrash(pc[c])]
  /\ mishaps' = [c \in Calls |-> IF pc[c] \in Awaiting THEN mishaps[c] \cup {"crash"}
                                                       ELSE mishaps[c]]
  /\ tail' = [d \in Deployments |-> AfterTailCrash(tail[d])]
  /\ UNCHANGED <<status, fileVars, chainVars, request, callVars>>

OrphanEnds(c) ==
  /\ pc[c] = "orphan"
  /\ CloseOnChain(Target(c)) \/ UNCHANGED <<program, senders, wallet>>
  /\ Proceed(c, "dead")
  /\ UNCHANGED <<rowVars, fileVars, admin, treasury, request, callVars, crashes>>

-----------------------------------------------------------------------------
\* What Deployment leaves behind: a row that says success has a live program
\* (SuccessIsBacked) and its run may still be counting; one that says failed
\* may have a live program as well.
Init ==
  /\ status \in [Deployments -> {"success", "failed"}]
  /\ tail \in [Deployments -> {"counting", "over"}]
  /\ \A d \in Deployments : status[d] = "failed" => tail[d] = "over"
  /\ walletFile \in SUBSET Deployments
  /\ keyFile = [s \in Stamps |-> None]
  /\ program \in [Deployments -> {0, Rent}]
  /\ \A d \in Deployments : status[d] = "success" => program[d] = Rent
  /\ wallet \in [Deployments -> Leftover] /\ senders = {}
  /\ admin = InitialAdmin /\ treasury = 0
  /\ request = [c \in Calls |-> [deployment |-> None, user |-> None]]
  /\ pc = [c \in Calls |-> "idle"]
  /\ stamp = [c \in Calls |-> None]
  /\ transfer = [x \in Calls \cup Deployments |-> 0]
  /\ lateSweeps = {} /\ crashes = 0
  /\ mishaps = [c \in Calls |-> {}]

FundStep(c)   == \/ ProbeProgram(c) \/ WeighWallet(c) \/ AskAdmin(c)
                 \/ AdvanceFees(c) \/ ReweighWallet(c)
CliStep(c)    == WriteKeyFile(c) \/ StartCli(c) \/ EndCli(c) \/ FindSignature(c)
ReturnStep(c) == MeasureWallet(c) \/ WeighSweep(c) \/ SweepWallet(c) \/ RecordClosed(c)
RunStep(d)    == RunCounts(d) \/ RunWeighs(d) \/ RunSweeps(d) \/ RunMarks(d)

Step(c) == FundStep(c) \/ CliStep(c) \/ ReturnStep(c) \/ OrphanEnds(c)

Next ==
  \/ \E c \in Calls : ReadRow(c) \/ Step(c) \/ LateSweep(c)
  \/ \E d \in Deployments : RunStep(d)
  \/ Crash

Spec == Init /\ [][Next]_vars

\* Every awaited call returns or throws and the CLI is killed after a minute.
FairSpec == Spec /\ \A c \in Calls : WF_vars(Step(c))

-----------------------------------------------------------------------------
(* Properties *)

TypeOK ==
  /\ status \in [Deployments -> {"success", "failed", "closed"}]
  /\ tail \in [Deployments -> TailLabel]
  /\ walletFile \subseteq Deployments
  /\ keyFile \in [Stamps -> Deployments \cup {None}]
  /\ program \in [Deployments -> {0, Rent}] /\ wallet \in [Deployments -> Nat]
  /\ senders \subseteq Calls /\ admin \in Nat /\ treasury \in Nat
  /\ request \in [Calls -> [deployment : Deployments \cup {None}, user : Users \cup {None}]]
  /\ pc \in [Calls -> Label]
  /\ stamp \in [Calls -> Stamps \cup {None}]
  /\ transfer \in [Calls \cup Deployments -> Nat]
  /\ lateSweeps \subseteq Calls
  /\ crashes \in 0 .. MaxCrashes
  /\ mishaps \in [Calls -> SUBSET Mishap]

\* However calls overlap, time out or crash, a row says closed only of a
\* program that is gone: nobody is told so while the rent is still locked.
ClosedIsGone == \A d \in Deployments : status[d] = "closed" => program[d] = 0

\* Only calls whose CLIs ran together while the one closing transaction landed
\* are answered with success: a call that passed the checks early and acts late
\* is not, whatever it read before.  The row then says closed, unless the
\* deployment's own catch block has written failed over it.
OkIsBackedAndRecorded ==
  \A c \in Calls : pc[c] = "ok" =>
    /\ c \in senders
    /\ status[Target(c)] = "closed" \/ tail[Target(c)] = "failed"

\* A plain-text key is in the temp directory only while a call runs the CLI
\* with it, also when two calls share the name of the file; it stays there
\* only after a crash or a failed unlink.
KeyFilesRemoved ==
  \A s \in Stamps : keyFile[s] # None =>
    \E c \in Calls : /\ stamp[c] = s
                     /\ \/ pc[c] \in CliCalls \cup {"signing"}
                        \/ mishaps[c] \cap {"crash", "unlink"} # {}

\* A program that is gone while its row still says success can never be marked
\* closed, since every further call stops at the missing data account.  Only a
\* mishap of the CLI or after it leads there.
UnrecordedOnlyByMishap ==
  \A d \in Deployments : status[d] = "success" /\ program[d] = 0 =>
    \E c \in Calls :
      /\ Target(c) = d
      /\ pc[c] \in AfterClose \/ mishaps[c] \cap {"cli", "measure", "record", "crash"} # {}

\* The owner's call for a live program whose row says success and whose wallet
\* file exists fails only by a mishap, for want of lamports in the admin
\* wallet, because another call used the same key file, or because the
\* deployment's own run was just sweeping the wallet.
RefusalIsExplained ==
  \A c \in Calls :
    /\ pc[c] = "error" /\ Closable(request[c]) /\ program[Target(c)] > 0
    /\ admin >= MinBalance + Extra + TxFee
    /\ tail[Target(c)] \in {"counting", "over"}
    /\ stamp[c] = None \/ \A e \in Calls \ {c} : stamp[e] # stamp[c]
    => mishaps[c] # {}

\* After a successful call that met no mishap and no other call for the same
\* deployment the wallet holds at most the lamports that are kept.
CleanCloseReturnsAll ==
  \A c \in Calls :
    /\ pc[c] = "ok" /\ mishaps[c] = {}
    /\ \A e \in Calls \ {c} : Target(e) # Target(c)
    /\ tail[Target(c)] \in {"counting", "over"}
    => wallet[Target(c)] <= Keep

-----------------------------------------------------------------------------
(* The inductive invariant *)

Closed == AfterClose \cup {"ok"}

CallInv(c) ==
  /\ pc[c] = "idle" => mishaps[c] = {} /\ c \notin lateSweeps
  /\ pc[c] # "idle" => Target(c) \in Deployments
  /\ pc[c] \in {"idle"} \cup BeforeClose => stamp[c] = None
  /\ pc[c] \in CliCalls \cup {"signing"} => stamp[c] \in Stamps
  /\ pc[c] \in Closed => c \in senders
  /\ c \in senders => pc[c] # "idle" /\ program[Target(c)] = 0
  /\ pc[c] = "orphan" => "crash" \in mishaps[c]
  /\ pc[c] = "ok" => status[Target(c)] = "closed" \/ tail[Target(c)] = "failed"

IInv ==
  /\ TypeOK
  /\ \A c \in Calls : CallInv(c)
  /\ ClosedIsGone /\ KeyFilesRemoved /\ UnrecordedOnlyByMishap

\* The deployment's own run neither sweeps its wallet nor will.
Quiet(d) == tail[d] \in {"counting", "over"}

\* Two key files of one millisecond are one file.
SharesStamp(c) == stamp[c] # None /\ \E e \in Calls \ {c} : stamp[e] = stamp[c]

\* What a call saw of the wallet of a live program, or put there, is still
\* there when the CLI needs it: others only add to it.
TopUpInv(c) ==
  LET d == Target(c)
      Undisturbed == program[d] > 0 /\ Quiet(d)
  IN
  /\ pc[c] \in {"asking", "advancing"} =>
       /\ transfer[c] <= MinBalance + Extra
       /\ Undisturbed => wallet[d] + transfer[c] >= MinBalance
  /\ pc[c] \in {"reweighing", "preparing"} \cup CliCalls =>
       (Undisturbed => wallet[d] >= MinBalance)

KeyInv(c) == pc[c] = "cliStarting" => keyFile[stamp[c]] = Target(c) \/ SharesStamp(c)

\* A call alone on its deployment has swept what it saw.
SweepInv(c) ==
  LET d == Target(c)
      Alone == mishaps[c] = {} /\ Quiet(d) /\ \A e \in Calls \ {c} : Target(e) # d
  IN
  /\ pc[c] = "idle" => d = None
  /\ c \in lateSweeps => program[d] = 0 /\ "sweep" \in mishaps[c]
  /\ pc[c] = "sweeping" => (Alone => wallet[d] = transfer[c] + Keep)
  /\ pc[c] \in {"recording", "ok"} => (Alone => wallet[d] <= Keep)

Excused(c) == LET d == Target(c) IN
  \/ ~Closable(request[c]) \/ program[d] = 0 \/ ~Quiet(d) \/ SharesStamp(c)
  \/ admin < MinBalance + Extra + TxFee

ErrorInv(c) == pc[c] = "error" /\ mishaps[c] = {} => Excused(c)

\* What each call has seen of the balances and files is still true when it
\* acts on it, unless something excuses its error; an excuse never goes away.
Seen(c) == TopUpInv(c) /\ KeyInv(c) /\ SweepInv(c) /\ ErrorInv(c)
SeenInv == \A c \in Calls : Seen(c)

\* SeenInv relies on what IInv says of the labels.
FullInv == IInv /\ SeenInv

-----------------------------------------------------------------------------
\* What a deployment has in custody: its program's rent and its wallet.
Custody == INSTANCE ProgramCustody WITH
  live  <- [d \in Deployments |-> program[d] > 0],
  held  <- [d \in Deployments |-> program[d] + wallet[d]],
  purse <- admin,
  pool  <- treasury,
  row   <- status

\* Closing gives the rent back and nothing else: lamports leave the custody of
\* a deployment only for the treasury, the rent only after the program is gone.
ImplementsCustody == Custody!CustodySpec

\* Every call that was received is answered, whatever the others do, or the backend dies.
EveryCallEnds == \A c \in Calls : pc[c] # "idle" ~> pc[c] \in Answers \cup {"dead"}
=============================================================================
